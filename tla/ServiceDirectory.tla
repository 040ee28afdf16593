-------------------------- MODULE ServiceDirectory --------------------------
(***************************************************************************)
(* The BpServiceManager client calls of src/libs/binder/IServiceManager.cpp *)
(* lines 135-190, made by several threads against one directory:          *)
(*  - checkService(name): one CHECK_SERVICE transaction; the reply's       *)
(*    strong binder, NULL when absent or when the transaction failed (the  *)
(*    status of transact is not looked at);                                *)
(*  - getService(name): up to 5 checkService calls, sleeping 1 s before    *)
(*    each one but the first;                                              *)
(*  - addService(name, ...): one ADD_SERVICE transaction, returning the    *)
(*    transport error or else the reply's exception code;                  *)
(*  - listServices(prio): LIST_SERVICES transactions for n = 0, 1, ...,    *)
(*    adding each reply's name, until a transaction fails.                 *)
(* The directory server (servicemanager) is not part of this repository:   *)
(* it keeps the names in an order of its own -- a new name may be put at   *)
(* any position -- answers index n with its n-th name or an error past the *)
(* end, and forgets a name when the service's process dies.  Any           *)
(* transaction may also fail in transport.  Names are model values; the    *)
(* binder handed back is represented by the name it was found under.       *)
(***************************************************************************)
EXTENDS Naturals, Sequences, SequencesExt

CONSTANTS
    Threads,
    Names,          \* service names
    MaxCalls,       \* calls each thread makes (bounds the model, not the code)
    NULL

ASSUME NULL \notin Names

\* for (n = 0; n < 5; n++) in getService
GetServiceAttempts == 5

\* status_t values told apart here: NO_ERROR, a transport error, and an
\* exception code read from the reply
Status == {"NO_ERROR", "transport", "exception"}

VARIABLES
    dir,        \* the server's names, in its order (no duplicates)
    pc,         \* pc[t]: "idle", "get", "list" or "add"
    name,       \* name[t]: the argument of t's call
    n,          \* n[t]: getService's attempt / listServices' index
    res,        \* res[t]: the Vector<String16> listServices is building
    out,        \* out[t]: what t's last getService or addService returned
    listed,     \* listed[t]: what t's last listServices returned
    checks,     \* history: checkService calls of t's getService
    sleeps,     \* history: sleep(1) calls of t's getService
    clean,      \* history: no change to dir and no failed transaction
                \* since t's listServices began, but for the final one
    calls       \* calls[t]: calls thread t has started

vars == <<dir, pc, name, n, res, out, listed, checks, sleeps, clean, calls>>

TypeOK ==
    /\ dir \in Seq(Names) /\ IsInjective(dir)
    /\ pc \in [Threads -> {"idle", "get", "list", "add"}]
    /\ name \in [Threads -> Names]
    /\ n \in [Threads -> Nat]
    /\ res \in [Threads -> Seq(Names)]
    /\ out \in [Threads -> Names \cup Status \cup {NULL}]
    /\ listed \in [Threads -> Seq(Names)]
    /\ checks \in [Threads -> 0..GetServiceAttempts]
    /\ sleeps \in [Threads -> 0..GetServiceAttempts - 1]
    /\ clean \in [Threads -> BOOLEAN]
    /\ calls \in [Threads -> 0..MaxCalls]

Init ==
    /\ dir = <<>>
    /\ pc = [t \in Threads |-> "idle"]
    /\ name = [t \in Threads |-> CHOOSE nm \in Names : TRUE]
    /\ n = [t \in Threads |-> 0] /\ res = [t \in Threads |-> <<>>]
    /\ out = [t \in Threads |-> NULL] /\ listed = [t \in Threads |-> <<>>]
    /\ checks = [t \in Threads |-> 0] /\ sleeps = [t \in Threads |-> 0]
    /\ clean = [t \in Threads |-> TRUE] /\ calls = [t \in Threads |-> 0]

\* Every listing under way has seen the directory change.
Disturb == clean' = [t \in Threads |-> clean[t] /\ pc[t] # "list"]

\* checkService(name): reply.readStrongBinder() -- the name's binder if the
\* transaction went through and the server has it, NULL otherwise
CheckService(nm, delivered) ==
    IF delivered /\ \E i \in 1..Len(dir) : dir[i] = nm THEN nm ELSE NULL

Start(t, op, nm) ==
    /\ pc[t] = "idle" /\ calls[t] < MaxCalls
    /\ calls' = [calls EXCEPT ![t] = @ + 1]
    /\ pc' = [pc EXCEPT ![t] = op] /\ name' = [name EXCEPT ![t] = nm]
    /\ n' = [n EXCEPT ![t] = 0] /\ res' = [res EXCEPT ![t] = <<>>]
    /\ checks' = [checks EXCEPT ![t] = 0] /\ sleeps' = [sleeps EXCEPT ![t] = 0]
    /\ clean' = [clean EXCEPT ![t] = TRUE]
    /\ UNCHANGED <<dir, out, listed>>

Return(t, v) ==
    /\ out' = [out EXCEPT ![t] = v] /\ pc' = [pc EXCEPT ![t] = "idle"]

-----------------------------------------------------------------------------
\* Mutant: the loop runs while n <= 5, one check too many.
GetServiceStepOneMore(t) ==
    /\ pc[t] = "get"
    /\ sleeps' = [sleeps EXCEPT ![t] = IF n[t] > 0 THEN @ + 1 ELSE @]
    /\ checks' = [checks EXCEPT ![t] = @ + 1]
    /\ \E delivered \in BOOLEAN :
         LET svc == CheckService(name[t], delivered) IN
         IF svc # NULL \/ n[t] = GetServiceAttempts
           THEN Return(t, svc) /\ UNCHANGED n
           ELSE n' = [n EXCEPT ![t] = @ + 1] /\ UNCHANGED <<pc, out>>
    /\ UNCHANGED <<dir, name, res, listed, clean, calls>>

(* getService: one turn of the loop -- if (n > 0) sleep(1); svc =          *)
(* checkService(name); if (svc != NULL) return svc; -- and return NULL     *)
(* after the last turn.                                                    *)
GetServiceStep(t) ==
    /\ pc[t] = "get"
    /\ sleeps' = [sleeps EXCEPT ![t] = IF n[t] > 0 THEN @ + 1 ELSE @]
    /\ checks' = [checks EXCEPT ![t] = @ + 1]
    /\ \E delivered \in BOOLEAN :
         LET svc == CheckService(name[t], delivered) IN
         IF svc # NULL \/ n[t] + 1 = GetServiceAttempts
           THEN Return(t, svc) /\ UNCHANGED n
           ELSE n' = [n EXCEPT ![t] = @ + 1] /\ UNCHANGED <<pc, out>>
    /\ UNCHANGED <<dir, name, res, listed, clean, calls>>

(* addService: err = remote()->transact(ADD_SERVICE_TRANSACTION, ...);     *)
(* return err == NO_ERROR ? reply.readExceptionCode() : err.  The server   *)
(* registers the name, at a position of its choosing, or refuses it with   *)
(* an exception; a name it has is re-registered in place.                  *)
AddService(t) ==
    /\ pc[t] = "add"
    /\ \E st \in Status :
         /\ Return(t, st)
         /\ IF st = "NO_ERROR" /\ ~\E i \in 1..Len(dir) : dir[i] = name[t]
              THEN \E i \in 0..Len(dir) :
                     dir' = SubSeq(dir, 1, i) \o <<name[t]>> \o
                            SubSeq(dir, i + 1, Len(dir))
              ELSE UNCHANGED dir
    /\ Disturb
    /\ UNCHANGED <<name, n, res, listed, checks, sleeps, calls>>

\* Mutant: the index is sent before it is incremented twice (n++ repeated).
ListServicesSkip(t) ==
    /\ pc[t] = "list"
    /\ \E delivered \in BOOLEAN :
         IF delivered /\ n[t] < Len(dir)
           THEN /\ res' = [res EXCEPT ![t] = Append(@, dir[n[t] + 1])]
                /\ n' = [n EXCEPT ![t] = @ + 2]
                /\ UNCHANGED <<pc, listed, clean>>
           ELSE /\ listed' = [listed EXCEPT ![t] = res[t]]
                /\ pc' = [pc EXCEPT ![t] = "idle"]
                /\ clean' = [clean EXCEPT ![t] = @ /\ delivered]
                /\ UNCHANGED <<n, res>>
    /\ UNCHANGED <<dir, name, out, checks, sleeps, calls>>

\* Mutant: a failed transaction is retried for the same index instead of
\* ending the listing.
ListServicesRetry(t) ==
    /\ pc[t] = "list"
    /\ \E delivered \in BOOLEAN :
         IF delivered /\ n[t] < Len(dir)
           THEN /\ res' = [res EXCEPT ![t] = Append(@, dir[n[t] + 1])]
                /\ n' = [n EXCEPT ![t] = @ + 1]
                /\ UNCHANGED <<pc, listed, clean>>
           ELSE /\ clean' = [clean EXCEPT ![t] = @ /\ delivered]
                /\ UNCHANGED <<n, res, pc, listed>>
    /\ UNCHANGED <<dir, name, out, checks, sleeps, calls>>

(* listServices: data.writeInt32(n++); err = transact(LIST_SERVICES...);   *)
(* if (err != NO_ERROR) break; res.add(reply.readString16()).  The server  *)
(* answers index n with its (n+1)-th name; past the end, or when the       *)
(* transaction fails in transport, err is not NO_ERROR and res returns.    *)
ListServicesStep(t) ==
    /\ pc[t] = "list"
    /\ \E delivered \in BOOLEAN :
         IF delivered /\ n[t] < Len(dir)
           THEN /\ res' = [res EXCEPT ![t] = Append(@, dir[n[t] + 1])]
                /\ n' = [n EXCEPT ![t] = @ + 1]
                /\ UNCHANGED <<pc, listed, clean>>
           ELSE /\ listed' = [listed EXCEPT ![t] = res[t]]
                /\ pc' = [pc EXCEPT ![t] = "idle"]
                /\ clean' = [clean EXCEPT ![t] = @ /\ delivered]
                /\ UNCHANGED <<n, res>>
    /\ UNCHANGED <<dir, name, out, checks, sleeps, calls>>

\* the process of a registered service dies; servicemanager drops its name
ServiceDied(nm) ==
    /\ \E i \in 1..Len(dir) : dir[i] = nm
    /\ dir' = SelectSeq(dir, LAMBDA x : x # nm)
    /\ Disturb
    /\ UNCHANGED <<pc, name, n, res, out, listed, checks, sleeps, calls>>

Step(t) == GetServiceStep(t) \/ AddService(t) \/ ListServicesStep(t)

Next ==
    \/ \E t \in Threads :
         \/ \E op \in {"get", "add"}, nm \in Names : Start(t, op, nm)
         \/ Start(t, "list", name[t])
         \/ Step(t)
    \/ \E nm \in Names : ServiceDied(nm)

\* A thread in a call is scheduled; calls and deaths are not forced.
Spec == Init /\ [][Next]_vars /\ \A t \in Threads : WF_vars(Step(t))

-----------------------------------------------------------------------------
(* getService gives up only after exactly 5 checkService calls and 4       *)
(* sleeps, and a found service comes from the check just made: the loop    *)
(* bound of IServiceManager.cpp:138-151 is neither short nor long by one,  *)
(* and no sleep precedes the first check.                                  *)
GetServiceRetryBound ==
    \A t \in Threads : pc[t] = "idle" /\ calls[t] > 0 /\ checks[t] > 0 =>
       /\ sleeps[t] = checks[t] - 1
       /\ out[t] = NULL => checks[t] = GetServiceAttempts
       /\ out[t] # NULL => checks[t] <= GetServiceAttempts

(* A listing that ran against an unchanging directory, with every          *)
(* transaction but the last delivered, returned each name exactly once, in *)
(* the server's order (IServiceManager.cpp:175-190).                       *)
ListingExact ==
    [][\A t \in Threads :
         (pc[t] = "list" /\ pc'[t] = "idle" /\ clean'[t]) => listed'[t] = dir]_vars

(* Every call returns: getService after at most 5 checks, listServices     *)
(* because the index passes the end of a finite directory.                 *)
DirectoryCallsReturn == \A t \in Threads : pc[t] # "idle" ~> pc[t] = "idle"

=============================================================================
