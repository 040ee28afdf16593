---------------------------- MODULE AppOpsManager ----------------------------
(***************************************************************************)
(* The native app-ops client, src/libs/binder/AppOpsManager.cpp, with the  *)
(* proxy calls of src/libs/binder/IAppOpsService.cpp it makes:             *)
(*  - getService(): under mLock, a loop that keeps the cached mService     *)
(*    while its binder is alive, otherwise asks checkService("appops");    *)
(*    while there is none it sleeps 1 s, and gives up (returns NULL) on a  *)
(*    miss more than 10 s after the first miss;                            *)
(*  - getClientId(): the one BBinder token, created under gClientIdMutex;  *)
(*  - shouldCollectNotes(): the unlocked appOpsToNote cache, filled by     *)
(*    asking getService() again;                                           *)
(*  - checkOp/noteOp/startOpNoThrow/finishOp (and the other one-call       *)
(*    operations, which behave like checkOp): getService(), then either    *)
(*    APP_OPS_MANAGER_UNAVAILABLE_MODE or one proxy transaction.           *)
(*                                                                         *)
(* The environment is the app-ops service: a sequence of incarnations,    *)
(* each registered under "appops" and each of which may die.  Time is the  *)
(* number of 1 s sleeps since the first miss; values past the deadline    *)
(* are all the same to the code, so the count stops at GiveUpAfter + 1.   *)
(* Modes are the names of AppOpsManager's MODE_ constants; a transaction   *)
(* on a dead binder leaves the reply empty, and libbinder's                *)
(* readExceptionCode() turns the short read into EX_TRANSACTION_FAILED,    *)
(* so the proxy answers MODE_ERRORED.  The argument order of             *)
(* startOperation is unspecified in C++; getClientId() and                 *)
(* shouldCollectNotes() touch disjoint state, so one order stands for both.*)
(***************************************************************************)
EXTENDS Naturals, FiniteSets

CONSTANTS
    Threads,          \* client threads of the process
    Opcodes,          \* app-op codes (indices of appOpsToNote)
    MaxIncarnations,  \* app-ops service instances registered in turn
    GiveUpAfter,      \* the 10 s deadline of getService, in sleeps
    MaxCalls,         \* calls each thread makes (bounds the model, not the code)
    NULL

ASSUME NULL \notin Threads \cup Nat

\* The operations, grouped by what they do with the service: "check" is
\* checkOp, checkAudioOpNoThrow, startWatchingMode, stopWatchingMode,
\* permissionToOpCode and setCameraAudioRestriction.
Ops == {"check", "note", "start", "finish"}
\* Non-Brillo builds: APP_OPS_MANAGER_UNAVAILABLE_MODE is MODE_IGNORED.
APP_OPS_MANAGER_UNAVAILABLE_MODE == "IGNORED"
Services == 1..MaxIncarnations

VARIABLES
    mService,       \* NULL or the cached service incarnation
    mLock,          \* holder of mLock, or NULL
    svc,            \* the latest incarnation registered (0: none yet)
    up,             \* incarnation svc is alive and registered
    gClientId,      \* NULL or the client-id BBinder (numbered by creation)
    gClientIdMutex, \* holder of gClientIdMutex, or NULL
    created,        \* client-id BBinders created so far
    usedIds,        \* history: client ids passed to start/finishOperation
    appOpsToNote,   \* appOpsToNote[o]: 0 unknown, 1 don't note, 2 note
    crashed,        \* the process dereferenced a NULL sp<IAppOpsService>
    pc,             \* pc[t]: where thread t is
    op,             \* op[t], code[t]: the operation t is running
    code,
    ret,            \* ret[t]: where t's current getService() returns to
    got,            \* got[t]: getService's local `service`
    waited,         \* waited[t]: startTime != 0 (a miss has been seen)
    elapsed,        \* elapsed[t]: sleeps since the first miss
    service,        \* service[t]: the operation's local `service`
    result,         \* result[t]: what t's last operation returned
    calls           \* calls[t]: operations thread t has started

vars == <<mService, mLock, svc, up, gClientId, gClientIdMutex, created,
          usedIds, appOpsToNote, crashed, pc, op, code, ret, got, waited,
          elapsed, service, result, calls>>
envVars == <<svc, up>>
cidVars == <<gClientId, gClientIdMutex, created>>
gsVars == <<mService, mLock, got, waited, elapsed>>
opVars == <<op, code, service, result, calls>>

GsPCs == {"gsLock", "gsLoop", "gsCheck", "gsSleep"}
OpPCs == {"use", "notes", "collect", "cidLock", "cidCheck", "cidNew", "call"}
Modes == {"none", "ALLOWED", "IGNORED", "ERRORED", "void"}

\* IInterface::asBinder(s)->isBinderAlive(): the incarnation has not died.
IsBinderAlive(s) == up /\ s = svc
\* defaultServiceManager()->checkService("appops").
CheckService == IF up THEN svc ELSE NULL

TypeOK ==
    /\ mService \in Services \cup {NULL}
    /\ mLock \in Threads \cup {NULL}
    /\ svc \in 0..MaxIncarnations /\ up \in BOOLEAN
    /\ gClientId \in Nat \cup {NULL} /\ gClientIdMutex \in Threads \cup {NULL}
    /\ created \in Nat /\ usedIds \subseteq Nat
    /\ appOpsToNote \in [Opcodes -> {0, 1, 2}]
    /\ crashed \in BOOLEAN
    /\ pc \in [Threads -> {"idle"} \cup GsPCs \cup OpPCs]
    /\ op \in [Threads -> Ops] /\ code \in [Threads -> Opcodes]
    /\ ret \in [Threads -> {"use", "collect"}]
    /\ got \in [Threads -> Services \cup {NULL}]
    /\ waited \in [Threads -> BOOLEAN]
    /\ elapsed \in [Threads -> 0..GiveUpAfter + 1]
    /\ service \in [Threads -> Services \cup {NULL}]
    \* a proxy transaction is made only through a non-NULL service
    /\ \A t \in Threads : pc[t] = "call" => service[t] # NULL
    /\ result \in [Threads -> Modes]
    /\ calls \in [Threads -> 0..MaxCalls]

Init ==
    /\ mService = NULL /\ mLock = NULL /\ svc = 0 /\ up = FALSE
    /\ gClientId = NULL /\ gClientIdMutex = NULL /\ created = 0
    /\ usedIds = {} /\ appOpsToNote = [o \in Opcodes |-> 0]
    /\ crashed = FALSE
    /\ pc = [t \in Threads |-> "idle"]
    /\ op = [t \in Threads |-> "check"]
    /\ code = [t \in Threads |-> CHOOSE o \in Opcodes : TRUE]
    /\ ret = [t \in Threads |-> "use"]
    /\ got = [t \in Threads |-> NULL] /\ waited = [t \in Threads |-> FALSE]
    /\ elapsed = [t \in Threads |-> 0] /\ service = [t \in Threads |-> NULL]
    /\ result = [t \in Threads |-> "none"]
    /\ calls = [t \in Threads |-> 0]

Goto(t, l) == pc' = [pc EXCEPT ![t] = l]
\* A call of getService() that returns to r.
GetService(t, r) == Goto(t, "gsLock") /\ ret' = [ret EXCEPT ![t] = r]

(***************************************************************************)
(* getService(), lines 72-98.  mLock is held from the first step to the    *)
(* return, across every checkService() and sleep(1).                       *)
(***************************************************************************)
GsLock(t) ==
    /\ pc[t] = "gsLock" /\ mLock = NULL
    /\ mLock' = t
    /\ got' = [got EXCEPT ![t] = mService]
    /\ waited' = [waited EXCEPT ![t] = FALSE]
    /\ elapsed' = [elapsed EXCEPT ![t] = 0]
    /\ Goto(t, "gsLoop")
    /\ UNCHANGED <<mService, ret>>

\* The loop condition: a live service ends the loop and the call.
GsLoop(t) ==
    /\ pc[t] = "gsLoop"
    /\ IF got[t] # NULL /\ IsBinderAlive(got[t])
          THEN mLock' = NULL /\ Goto(t, ret[t])
          ELSE UNCHANGED mLock /\ Goto(t, "gsCheck")
    /\ UNCHANGED <<mService, got, waited, elapsed, ret>>

\* Mutant: no deadline; a miss always sleeps and tries again.
GsCheckNoGiveUp(t) ==
    /\ pc[t] = "gsCheck"
    /\ \/ /\ CheckService # NULL
          /\ got' = [got EXCEPT ![t] = CheckService]
          /\ mService' = CheckService
          /\ Goto(t, "gsLoop")
          /\ UNCHANGED <<mLock, waited>>
       \/ /\ CheckService = NULL
          /\ waited' = [waited EXCEPT ![t] = TRUE]
          /\ Goto(t, "gsSleep")
          /\ UNCHANGED <<mService, mLock, got>>
    /\ UNCHANGED <<elapsed, ret>>

\* One checkService("appops"): install what it returns, or on a miss start
\* the clock, give up past the deadline, or go to sleep.
GsCheck(t) ==
    /\ pc[t] = "gsCheck"
    /\ \/ /\ CheckService # NULL
          /\ got' = [got EXCEPT ![t] = CheckService]
          /\ mService' = CheckService
          /\ Goto(t, "gsLoop")
          /\ UNCHANGED <<mLock, waited>>
       \/ /\ CheckService = NULL /\ ~waited[t]
          /\ waited' = [waited EXCEPT ![t] = TRUE]
          /\ Goto(t, "gsSleep")
          /\ UNCHANGED <<mService, mLock, got>>
       \/ /\ CheckService = NULL /\ waited[t] /\ elapsed[t] > GiveUpAfter
          /\ got' = [got EXCEPT ![t] = NULL]
          /\ mLock' = NULL
          /\ Goto(t, ret[t])
          /\ UNCHANGED <<mService, waited>>
       \/ /\ CheckService = NULL /\ waited[t] /\ elapsed[t] <= GiveUpAfter
          /\ Goto(t, "gsSleep")
          /\ UNCHANGED <<mService, mLock, got, waited>>
    /\ UNCHANGED <<elapsed, ret>>

GsSleep(t) ==
    /\ pc[t] = "gsSleep"
    /\ elapsed' = [elapsed EXCEPT ![t] =
                     IF @ > GiveUpAfter THEN @ ELSE @ + 1]
    /\ Goto(t, "gsLoop")
    /\ UNCHANGED <<mService, mLock, got, waited, ret>>

(***************************************************************************)
(* The operations, lines 101-191, and shouldCollectNotes(), 194-204.       *)
(***************************************************************************)
CallOp(t) ==
    /\ pc[t] = "idle" /\ calls[t] < MaxCalls
    /\ \E o \in Ops, c \in Opcodes :
          /\ op' = [op EXCEPT ![t] = o]
          /\ code' = [code EXCEPT ![t] = c]
    /\ calls' = [calls EXCEPT ![t] = @ + 1]
    /\ result' = [result EXCEPT ![t] = "none"]
    /\ GetService(t, "use")
    /\ UNCHANGED <<gsVars, service, cidVars, usedIds, appOpsToNote, crashed>>

\* Mutant: the service is used without the NULL check.
UseNoNullCheck(t) ==
    /\ pc[t] = "use"
    /\ service' = [service EXCEPT ![t] = got[t]]
    /\ Goto(t, CASE op[t] = "check" -> "call"
                 [] op[t] = "note" -> "notes"
                 [] OTHER -> "cidLock")
    /\ UNCHANGED <<result, ret, op, code, calls, gsVars, cidVars,
                   usedIds, appOpsToNote, crashed>>

\* service != nullptr ? <transaction> : APP_OPS_MANAGER_UNAVAILABLE_MODE;
\* noteOp and startOpNoThrow first evaluate their extra arguments.
Use(t) ==
    /\ pc[t] = "use"
    /\ service' = [service EXCEPT ![t] = got[t]]
    /\ IF got[t] = NULL
          THEN /\ result' = [result EXCEPT ![t] =
                    IF op[t] = "finish" THEN "void"
                    ELSE APP_OPS_MANAGER_UNAVAILABLE_MODE]
               /\ Goto(t, "idle")
          ELSE /\ Goto(t, CASE op[t] = "check" -> "call"
                            [] op[t] = "note" -> "notes"
                            [] OTHER -> "cidLock")
               /\ UNCHANGED result
    /\ UNCHANGED <<ret, op, code, calls, gsVars, cidVars, usedIds,
                   appOpsToNote, crashed>>

\* getClientId(), lines 46-56; it returns a reference to gClientId, which
\* the transaction reads.
\* Mutant: gClientIdMutex is not taken.
CidLockNoMutex(t) ==
    /\ pc[t] = "cidLock"
    /\ Goto(t, "cidCheck")
    /\ UNCHANGED <<gClientIdMutex, gClientId, created, ret, gsVars, usedIds,
                   appOpsToNote, crashed, opVars>>

CidLock(t) ==
    /\ pc[t] = "cidLock" /\ gClientIdMutex = NULL
    /\ gClientIdMutex' = t
    /\ Goto(t, "cidCheck")
    /\ UNCHANGED <<gClientId, created, ret, gsVars, usedIds, appOpsToNote,
                   crashed, opVars>>

AfterCid(t) == IF op[t] = "start" THEN "notes" ELSE "call"

CidCheck(t) ==
    /\ pc[t] = "cidCheck"
    /\ IF gClientId = NULL
          THEN Goto(t, "cidNew") /\ UNCHANGED gClientIdMutex
          ELSE Goto(t, AfterCid(t)) /\ gClientIdMutex' = NULL
    /\ UNCHANGED <<gClientId, created, ret, gsVars, usedIds, appOpsToNote,
                   crashed, opVars>>

CidNew(t) ==
    /\ pc[t] = "cidNew"
    /\ created' = created + 1
    /\ gClientId' = created + 1
    /\ gClientIdMutex' = NULL
    /\ Goto(t, AfterCid(t))
    /\ UNCHANGED <<ret, gsVars, usedIds, appOpsToNote, crashed, opVars>>

\* shouldCollectNotes(code): an unlocked read of the cache; on a miss a
\* second getService(), whose result is used without a NULL check.
Notes(t) ==
    /\ pc[t] = "notes"
    /\ IF appOpsToNote[code[t]] = 0
          THEN GetService(t, "collect")
          ELSE Goto(t, "call") /\ UNCHANGED ret
    /\ UNCHANGED <<gsVars, cidVars, usedIds, appOpsToNote, crashed, opVars>>

Collect(t) ==
    /\ pc[t] = "collect"
    /\ \/ /\ got[t] = NULL
          /\ crashed' = TRUE
          /\ UNCHANGED <<appOpsToNote, pc>>
       \/ /\ got[t] # NULL
          /\ \E v \in {1, 2} : appOpsToNote' = [appOpsToNote EXCEPT ![code[t]] = v]
          /\ Goto(t, "call")
          /\ UNCHANGED crashed
    /\ UNCHANGED <<ret, gsVars, cidVars, usedIds, opVars>>

\* The BpAppOpsService transaction (IAppOpsService.cpp 40-83): a live
\* service answers its policy; a dead one leaves the reply empty, whose
\* exception code reads as nonzero: `return MODE_ERRORED`.
Transact(t) ==
    /\ pc[t] = "call"
    /\ LET alive == IsBinderAlive(service[t]) IN
         /\ \/ op[t] = "finish" /\ result' = [result EXCEPT ![t] = "void"]
            \/ op[t] # "finish" /\ alive
               /\ \E m \in {"ALLOWED", "IGNORED"} : result' = [result EXCEPT ![t] = m]
            \/ op[t] # "finish" /\ ~alive
               /\ result' = [result EXCEPT ![t] = "ERRORED"]
    /\ usedIds' = IF op[t] \in {"start", "finish"} THEN usedIds \cup {gClientId}
                  ELSE usedIds
    /\ Goto(t, "idle")
    /\ UNCHANGED <<ret, gsVars, cidVars, appOpsToNote, crashed, op, code,
                   service, calls>>

(***************************************************************************)
(* The app-ops service: registered in turn, each incarnation may die.      *)
(***************************************************************************)
Publish ==
    /\ ~up /\ svc < MaxIncarnations
    /\ svc' = svc + 1 /\ up' = TRUE

Die ==
    /\ up /\ up' = FALSE /\ UNCHANGED svc

GsStep(t) == GsLock(t) \/ GsLoop(t) \/ GsCheck(t) \/ GsSleep(t)
OpStep(t) ==
    \/ CallOp(t) \/ Use(t) \/ CidLock(t) \/ CidCheck(t) \/ CidNew(t)
    \/ Notes(t) \/ Collect(t) \/ Transact(t)

Step(t) ==
    /\ ~crashed
    /\ \/ GsStep(t) /\ UNCHANGED <<envVars, cidVars, usedIds, appOpsToNote,
                                   crashed, opVars>>
       \/ OpStep(t) /\ UNCHANGED envVars

Env == ~crashed /\ (Publish \/ Die) /\ UNCHANGED <<cidVars, usedIds,
          appOpsToNote, crashed, pc, ret, gsVars, opVars>>

Next == Env \/ \E t \in Threads : Step(t)

\* Each thread's steps run when enabled; the service comes and goes at will.
Spec == Init /\ [][Next]_vars /\ \A t \in Threads : WF_vars(Step(t))

(***************************************************************************)
(* Properties.                                                             *)
(***************************************************************************)

\* getClientId() creates one BBinder however the threads race on it, so
\* every startOperation and finishOperation of the process passes the same
\* client token, and the service can pair a finish with its start.
ClientIdUnique == created <= 1 /\ Cardinality(usedIds) <= 1

\* Every operation returns, even when the service never comes back: the
\* getService() loop is bounded by its deadline and by the incarnations
\* (unless the process has crashed).
OpsReturn == \A t \in Threads : pc[t] # "idle" ~> (pc[t] = "idle" \/ crashed)

\* shouldCollectNotes() is only reached with a non-NULL service, so its
\* getService()->shouldCollectNotes(opcode) (line 196) is expected never
\* to dereference NULL.
NoNullServiceDeref == ~crashed

=============================================================================
