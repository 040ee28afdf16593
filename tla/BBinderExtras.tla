--------------------------- MODULE BBinderExtras ---------------------------
(***************************************************************************)
(* The side table of a local binder, src/libs/binder/Binder.cpp: class     *)
(* BBinder::Extras (lines 89-98) holds an unlocked mRequestingSid flag and *)
(* an ObjectManager of attached objects under mLock.  It is created lazily *)
(* by getOrCreateExtras (lines 303-320): every first user allocates its    *)
(* own Extras and tries to install it with compare_exchange_strong; a      *)
(* loser deletes its allocation and uses the winner's.  attachObject,      *)
(* findObject, detachObject, isRequestingSid, setRequestingSid and         *)
(* ~BBinder (lines 182-244) run on it from any thread.                     *)
(*                                                                         *)
(* The ObjectManager (BpBinder.cpp, outside this repository) is a map     *)
(* from key to slot; a call on it runs under mLock, so it is one step.     *)
(* Keys are unique per object (spec section 3), so a key is attached only  *)
(* when it is not attached and no other call on it is under way.          *)
(*                                                                         *)
(* An Extras allocation is named by the thread that made it: a thread      *)
(* allocates only while mExtras is null, and mExtras is never reset, so    *)
(* every thread makes at most one allocation that is ever installed.       *)
(***************************************************************************)
EXTENDS Naturals, FiniteSets

CONSTANTS
    Threads,    \* threads calling into the one BBinder
    Keys,       \* objectIDs passed to attachObject / findObject / detachObject
    NULL        \* the null Extras pointer

ASSUME NULL \notin Threads

VARIABLES
    mExtras,    \* std::atomic<Extras*>: NULL or the allocation of a thread
    ext,        \* ext[a]: the Extras allocated by thread a
    alive,      \* the BBinder has not been destroyed
    pc,         \* pc[t]: where thread t is in its call
    e,          \* e[t]: the local Extras* e of the call
    arg,        \* arg[t]: objectID of an attach, or the bool of setRequestingSid
    live,       \* history: keys whose attachObject returned and which were
                \* not detached since
    lastSid,    \* history: value of the last setRequestingSid that returned
    uaf         \* history: some thread touched an Extras after it was freed

vars == <<mExtras, ext, alive, pc, e, arg, live, lastSid, uaf>>

ExtrasState == [st : {"none", "alloc", "installed", "deleted"},
                objects : SUBSET Keys, sid : BOOLEAN]

PCs == {"idle", "attachLoad", "sidLoad", "new", "cas",
        "attachLocked", "sidWrite"}

TypeOK ==
    /\ mExtras \in Threads \cup {NULL}
    /\ ext \in [Threads -> ExtrasState]
    /\ alive \in BOOLEAN
    /\ pc \in [Threads -> PCs]
    /\ e \in [Threads -> Threads \cup {NULL}]
    /\ arg \in [Threads -> Keys \cup BOOLEAN]
    /\ live \in SUBSET Keys /\ lastSid \in BOOLEAN
    /\ uaf \in BOOLEAN
    \* a call past getOrCreateExtras goes on with an Extras
    /\ \A t \in Threads : pc[t] \in {"attachLocked", "sidWrite"} => e[t] # NULL

Init ==
    /\ mExtras = NULL
    /\ ext = [a \in Threads |-> [st |-> "none", objects |-> {}, sid |-> FALSE]]
    /\ alive = TRUE
    /\ pc = [t \in Threads |-> "idle"]
    /\ e = [t \in Threads |-> NULL]
    /\ arg = [t \in Threads |-> FALSE]
    /\ live = {} /\ lastSid = FALSE
    /\ uaf = FALSE

\* the continuation of a getOrCreateExtras call made by t
Continue(t) == IF arg[t] \in Keys THEN "attachLocked" ELSE "sidWrite"

\* The call of t goes on with Extras a; a freed Extras is recorded in uaf.
Touch(a) == uaf' = (uaf \/ ext[a].st = "deleted")

\* a key some call is already working on
Busy(k) == \E u \in Threads : pc[u] # "idle" /\ arg[u] = k

-----------------------------------------------------------------------------
(* attachObject: Extras* e = getOrCreateExtras(); if (!e) return;          *)
(* AutoMutex _l(e->mLock); e->mObjects.attach(...)                         *)
AttachObject(t, k) ==
    /\ alive /\ pc[t] = "idle" /\ k \notin live /\ ~Busy(k)
    /\ arg' = [arg EXCEPT ![t] = k] /\ pc' = [pc EXCEPT ![t] = "attachLoad"]
    /\ UNCHANGED <<mExtras, ext, alive, e, live, lastSid, uaf>>

\* getOrCreateExtras: e = mExtras.load(acquire); if (!e) e = new Extras
LoadExtras(t) ==
    /\ pc[t] \in {"attachLoad", "sidLoad"}
    /\ e' = [e EXCEPT ![t] = mExtras]
    /\ IF mExtras # NULL
         THEN pc' = [pc EXCEPT ![t] = Continue(t)]
         ELSE IF pc[t] = "sidLoad" /\ arg[t] = FALSE
              \* setRequestingSid(false) with no Extras: the default, return
              THEN /\ pc' = [pc EXCEPT ![t] = "idle"]
              ELSE pc' = [pc EXCEPT ![t] = "new"]
    /\ UNCHANGED <<mExtras, ext, alive, arg, uaf>>
    /\ IF pc[t] = "sidLoad" /\ mExtras = NULL /\ arg[t] = FALSE
         THEN lastSid' = FALSE /\ UNCHANGED live
         ELSE UNCHANGED <<live, lastSid>>

\* e = new Extras.  A failed allocation leaves e null and ext[t] "none";
\* the call still goes on to the compare_exchange below.
NewExtras(t) ==
    /\ pc[t] = "new"
    /\ \/ ext' = [ext EXCEPT ![t] = [st |-> "alloc", objects |-> {},
                                     sid |-> FALSE]]
       \/ UNCHANGED ext
    /\ pc' = [pc EXCEPT ![t] = "cas"]
    /\ UNCHANGED <<mExtras, alive, e, arg, live, lastSid, uaf>>

\* Mutant: the speculative Extras is installed with a plain store.
InstallExtrasStore(t) ==
    /\ pc[t] = "cas"
    /\ mExtras' = t
    /\ ext' = [ext EXCEPT ![t].st = "installed"]
    /\ e' = [e EXCEPT ![t] = t]
    /\ pc' = [pc EXCEPT ![t] = Continue(t)]
    /\ UNCHANGED <<alive, arg, live, lastSid, uaf>>

\* Mutant: a loser deletes its allocation but goes on with it (the
\* `e = expected` line is missing).
InstallExtrasKeepOwn(t) ==
    /\ pc[t] = "cas"
    /\ IF mExtras = NULL
         THEN /\ mExtras' = t
              /\ ext' = [ext EXCEPT ![t].st = "installed"]
         ELSE /\ ext' = [ext EXCEPT ![t].st = "deleted"]
              /\ UNCHANGED mExtras
    /\ e' = [e EXCEPT ![t] = t]
    /\ pc' = [pc EXCEPT ![t] = Continue(t)]
    /\ UNCHANGED <<alive, arg, live, lastSid, uaf>>

\* Mutant: a failed allocation is not caught by `if (e == nullptr) return`
\* and the call goes on without an Extras.
InstallExtrasNoNullCheck(t) ==
    /\ pc[t] = "cas"
    /\ LET failed == ext[t].st = "none" IN
       IF mExtras = NULL
         THEN /\ ext' = IF failed THEN ext
                                  ELSE [ext EXCEPT ![t].st = "installed"]
              /\ mExtras' = IF failed THEN NULL ELSE t
              /\ e' = [e EXCEPT ![t] = IF failed THEN NULL ELSE t]
              /\ pc' = [pc EXCEPT ![t] = Continue(t)]
         ELSE /\ ext' = IF failed THEN ext
                                  ELSE [ext EXCEPT ![t].st = "deleted"]
              /\ e' = [e EXCEPT ![t] = mExtras]
              /\ pc' = [pc EXCEPT ![t] = Continue(t)]
              /\ UNCHANGED mExtras
    /\ UNCHANGED <<alive, arg, live, lastSid, uaf>>

\* mExtras.compare_exchange_strong(expected = nullptr, e): the winner's
\* Extras is installed; a loser deletes its own and takes `expected`.  With
\* a failed allocation (ext[t] "none") a won exchange stores null again and
\* `if (e == nullptr) return` ends the call; a lost one takes the winner's.
InstallExtras(t) ==
    /\ pc[t] = "cas"
    /\ LET failed == ext[t].st = "none" IN
       IF mExtras = NULL
         THEN /\ ext' = IF failed THEN ext
                                  ELSE [ext EXCEPT ![t].st = "installed"]
              /\ mExtras' = IF failed THEN NULL ELSE t
              /\ e' = [e EXCEPT ![t] = IF failed THEN NULL ELSE t]
              /\ pc' = [pc EXCEPT ![t] = IF failed THEN "idle" ELSE Continue(t)]
         ELSE /\ ext' = IF failed THEN ext
                                  ELSE [ext EXCEPT ![t].st = "deleted"]
              /\ e' = [e EXCEPT ![t] = mExtras]
              /\ pc' = [pc EXCEPT ![t] = Continue(t)]
              /\ UNCHANGED mExtras
    /\ UNCHANGED <<alive, arg, live, lastSid, uaf>>

\* under e->mLock: e->mObjects.attach(objectID, ...)
AttachLocked(t) ==
    /\ pc[t] = "attachLocked"
    /\ LET a == e[t] IN
         /\ ext' = [ext EXCEPT ![a].objects = @ \cup {arg[t]}]
         /\ Touch(a)
    /\ live' = live \cup {arg[t]}
    /\ pc' = [pc EXCEPT ![t] = "idle"]
    /\ UNCHANGED <<mExtras, alive, e, arg, lastSid>>

(* findObject / detachObject: e = mExtras.load(acquire); if (!e) return;   *)
(* then the ObjectManager call under e->mLock.  One step: once installed,  *)
(* mExtras never changes while a call can run, and mLock makes the         *)
(* ObjectManager call atomic.  findObject changes no state; detach drops   *)
(* the key's slot.                                                         *)
DetachObject(t, k) ==
    /\ alive /\ pc[t] = "idle" /\ ~Busy(k)
    /\ IF mExtras = NULL
         THEN UNCHANGED <<ext, uaf>>
         ELSE /\ ext' = [ext EXCEPT ![mExtras].objects = @ \ {k}]
              /\ Touch(mExtras)
    /\ live' = live \ {k}
    /\ UNCHANGED <<mExtras, alive, pc, e, arg, lastSid>>

\* findObject(k) returns non-null
FindObject(k) == mExtras # NULL /\ k \in ext[mExtras].objects

\* isRequestingSid(): e && e->mRequestingSid
IsRequestingSid == mExtras # NULL /\ ext[mExtras].sid

(* setRequestingSid(b): e = mExtras.load(); if (!e) { if (!b) return;      *)
(* e = getOrCreateExtras(); if (!e) return; }  e->mRequestingSid = b,      *)
(* written without mLock.                                                  *)
SetRequestingSid(t, b) ==
    /\ alive /\ pc[t] = "idle"
    /\ arg' = [arg EXCEPT ![t] = b] /\ pc' = [pc EXCEPT ![t] = "sidLoad"]
    /\ UNCHANGED <<mExtras, ext, alive, e, live, lastSid, uaf>>

SidWrite(t) ==
    /\ pc[t] = "sidWrite"
    /\ ext' = [ext EXCEPT ![e[t]].sid = arg[t]]
    /\ Touch(e[t])
    /\ lastSid' = arg[t]
    /\ pc' = [pc EXCEPT ![t] = "idle"]
    /\ UNCHANGED <<mExtras, alive, e, arg, live>>

(* ~BBinder: if (e) delete e.  The last strong ref is gone, so no call is  *)
(* under way.                                                              *)
Destroy ==
    /\ alive /\ \A t \in Threads : pc[t] = "idle"
    /\ alive' = FALSE
    /\ IF mExtras = NULL
         THEN UNCHANGED <<ext>>
         ELSE /\ ext' = [ext EXCEPT ![mExtras].st = "deleted"]
    /\ UNCHANGED <<mExtras, pc, e, arg, live, lastSid, uaf>>

Next ==
    \/ Destroy
    \/ \E t \in Threads :
         \/ \E k \in Keys : AttachObject(t, k) \/ DetachObject(t, k)
         \/ \E b \in BOOLEAN : SetRequestingSid(t, b)
         \/ LoadExtras(t) \/ NewExtras(t) \/ InstallExtras(t)
         \/ AttachLocked(t) \/ SidWrite(t)

Spec == Init /\ [][Next]_vars

-----------------------------------------------------------------------------
Quiescent == \A t \in Threads : pc[t] = "idle"

(* The install race of getOrCreateExtras converges: at most one Extras is  *)
(* ever installed and it is the one mExtras points to, no call touches an  *)
(* Extras after it is freed, and once every call has returned each losing *)
(* allocation has been deleted (Binder.cpp:303-320).                       *)
ExtrasConverge ==
    /\ ~uaf
    /\ \A a \in Threads : ext[a].st = "installed" => a = mExtras
    /\ Quiescent =>
         \A a \in Threads : ext[a].st # "alloc"

(* What the callers did is what the object keeps: while the binder lives  *)
(* and no call is under way, findObject finds exactly the keys whose       *)
(* attachObject returned and that were not detached, and isRequestingSid  *)
(* returns the value of the last setRequestingSid -- whichever thread      *)
(* created the Extras and whichever lost the race (Binder.cpp:182-238).   *)
SlotsPreserved ==
    (alive /\ Quiescent) =>
        /\ \A k \in Keys : FindObject(k) <=> k \in live
        /\ IsRequestingSid = lastSid

=============================================================================
