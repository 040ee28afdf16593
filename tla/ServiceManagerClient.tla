------------------------ MODULE ServiceManagerClient ------------------------
(***************************************************************************)
(* The process-wide state of the service-manager client,                   *)
(* src/libs/binder/IServiceManager.cpp lines 34-123:                       *)
(*  - defaultServiceManager(): an unlocked fast-path read of               *)
(*    gDefaultServiceManager, then, under gDefaultServiceManagerLock, a    *)
(*    loop that asks ProcessState for the context object (sleeping 1 s     *)
(*    while there is none) and installs the one BpServiceManager;          *)
(*  - checkPermission(): a loop over the cached gPermissionController,     *)
(*    guarded by the same lock.  A "granted" answer is returned; a         *)
(*    "denied" answer is trusted only if the controller is still alive;    *)
(*    a dead controller is dropped from the cache only if it is still the  *)
(*    cached one, then "permission" is looked up again with                *)
(*    checkService, sleeping 1 s while it is not registered.               *)
(*                                                                         *)
(* Threads call both functions concurrently.  The environment is the       *)
(* context manager coming up, and a sequence of permission controllers     *)
(* registered under "permission", each of which may die.  Sleeps take no  *)
(* modelled time: a sleeping loop is a loop that waits.  Log lines and     *)
(* the startTime used only for them are left out.                          *)
(***************************************************************************)
EXTENDS Naturals, FiniteSets

CONSTANTS
    Threads,        \* client threads of the process
    Controllers,    \* permission controller instances, registered in turn
    MaxCalls,       \* calls each thread makes (bounds the model, not the code)
    NULL

ASSUME NULL \notin Threads \cup Controllers

VARIABLES
    gDefaultServiceManager,  \* NULL or the BpServiceManager (named by its creator)
    gPermissionController,   \* NULL or the cached controller
    lock,           \* holder of gDefaultServiceManagerLock, or NULL
    contextReady,   \* getContextObject(NULL) returns the context manager
    registry,       \* what checkService("permission") returns: NULL or a controller
    ctl,            \* ctl[c]: "unborn", "alive" or "dead"
    pc,             \* pc[t]: where thread t is
    cont,           \* cont[t]: where a defaultServiceManager() call returns to
    lp,             \* lp[t]: the local sp<IPermissionController> pc
    ans,            \* ans[t]: the last answer t got: "none", "grant",
                    \* "deny" (live controller) or "dead" (failed call)
    result,         \* result[t]: what t's last checkPermission returned
    smGot,          \* smGot[t]: what t's last defaultServiceManager returned
    created,        \* history: the BpServiceManager instances ever created
    calls           \* calls[t]: calls thread t has started

vars == <<gDefaultServiceManager, gPermissionController, lock, contextReady,
          registry, ctl, pc, cont, lp, ans, result, smGot, created, calls>>
envVars == <<contextReady, registry, ctl>>
callEnv == <<calls, contextReady, registry, ctl>>

DsmPCs == {"dsmFast", "dsmLock", "dsmLoop"}
CpPCs == {"cpStart", "cpAsk", "cpAlive", "cpDrop", "cpLookup", "cpInstall"}

TypeOK ==
    /\ gDefaultServiceManager \in Threads \cup {NULL}
    /\ gPermissionController \in Controllers \cup {NULL}
    /\ lock \in Threads \cup {NULL}
    /\ contextReady \in BOOLEAN
    /\ registry \in Controllers \cup {NULL}
    /\ ctl \in [Controllers -> {"unborn", "alive", "dead"}]
    /\ pc \in [Threads -> {"idle"} \cup DsmPCs \cup CpPCs]
    /\ cont \in [Threads -> {"idle", "cpLookup"}]
    /\ lp \in [Threads -> Controllers \cup {NULL}]
    /\ ans \in [Threads -> {"none", "grant", "deny", "dead"}]
    /\ result \in [Threads -> {"none", "granted", "denied"}]
    /\ smGot \in [Threads -> Threads \cup {NULL}]
    /\ created \in SUBSET Threads
    \* pc->checkPermission and the install are reached with a controller
    /\ \A t \in Threads : pc[t] \in {"cpAsk", "cpAlive", "cpInstall"} => lp[t] # NULL
    /\ calls \in [Threads -> 0..MaxCalls]

Init ==
    /\ gDefaultServiceManager = NULL /\ gPermissionController = NULL
    /\ lock = NULL /\ contextReady = FALSE
    /\ registry = NULL /\ ctl = [c \in Controllers |-> "unborn"]
    /\ pc = [t \in Threads |-> "idle"] /\ cont = [t \in Threads |-> "idle"]
    /\ lp = [t \in Threads |-> NULL] /\ ans = [t \in Threads |-> "none"]
    /\ result = [t \in Threads |-> "none"] /\ smGot = [t \in Threads |-> NULL]
    /\ created = {} /\ calls = [t \in Threads |-> 0]

Goto(t, where) == pc' = [pc EXCEPT ![t] = where]

\* Mutant: the loop asks its local pc without the `pc != NULL` test.
LoopTopNoNullCheck(t, local) ==
    Goto(t, "cpAsk") /\ UNCHANGED cont

\* the next turn of the checkPermission loop: `if (pc != NULL)` asks it,
\* otherwise defaultServiceManager()->checkService(_permission)
LoopTop(t, local) ==
    IF local # NULL
      THEN Goto(t, "cpAsk") /\ UNCHANGED cont
      ELSE Goto(t, "dsmFast") /\ cont' = [cont EXCEPT ![t] = "cpLookup"]

-----------------------------------------------------------------------------
(* defaultServiceManager()                                                 *)

\* a direct call of defaultServiceManager()
CallDefaultServiceManager(t) ==
    /\ pc[t] = "idle" /\ calls[t] < MaxCalls
    /\ calls' = [calls EXCEPT ![t] = @ + 1]
    /\ Goto(t, "dsmFast") /\ cont' = [cont EXCEPT ![t] = "idle"]
    /\ UNCHANGED <<gDefaultServiceManager, gPermissionController, lock,
                   lp, ans, result, smGot, created>> /\ UNCHANGED envVars

\* if (gDefaultServiceManager != NULL) return gDefaultServiceManager;
\* The read races with the store under the lock (no synchronisation): a
\* reader may still see NULL after the store.
DsmFast(t) ==
    /\ pc[t] = "dsmFast"
    /\ \E seen \in {NULL, gDefaultServiceManager} :
         IF seen # NULL
           THEN /\ smGot' = [smGot EXCEPT ![t] = seen]
                /\ Goto(t, cont[t])
           ELSE Goto(t, "dsmLock") /\ UNCHANGED smGot
    /\ UNCHANGED <<gDefaultServiceManager, gPermissionController, lock,
                   cont, lp, ans, result, created>> /\ UNCHANGED callEnv

\* AutoMutex _l(gDefaultServiceManagerLock)
DsmLock(t) ==
    /\ pc[t] = "dsmLock" /\ lock = NULL
    /\ lock' = t /\ Goto(t, "dsmLoop")
    /\ UNCHANGED <<gDefaultServiceManager, gPermissionController,
                   cont, lp, ans, result, smGot, created>> /\ UNCHANGED callEnv

\* Mutant: the creation is not re-checked under the lock (an `if` taken
\* on the unlocked read).
DsmLoopNoRecheck(t) ==
    /\ pc[t] = "dsmLoop" /\ contextReady
    /\ gDefaultServiceManager' = t /\ created' = created \cup {t}
    /\ smGot' = [smGot EXCEPT ![t] = t]
    /\ lock' = NULL /\ Goto(t, cont[t])
    /\ UNCHANGED <<gPermissionController, cont, lp, ans, result>>
    /\ UNCHANGED callEnv

\* Mutant: the lock is not released on the way out.
DsmLoopKeepLock(t) ==
    /\ pc[t] = "dsmLoop"
    /\ gDefaultServiceManager # NULL \/ contextReady
    /\ LET sm == IF gDefaultServiceManager # NULL
                   THEN gDefaultServiceManager ELSE t IN
         /\ gDefaultServiceManager' = sm
         /\ created' = IF gDefaultServiceManager = NULL
                         THEN created \cup {t} ELSE created
         /\ smGot' = [smGot EXCEPT ![t] = sm]
    /\ lock' = lock /\ Goto(t, cont[t])
    /\ UNCHANGED <<gPermissionController, cont, lp, ans, result>>
    /\ UNCHANGED callEnv

(* while (gDefaultServiceManager == NULL) { gDefaultServiceManager =       *)
(* interface_cast<IServiceManager>(getContextObject(NULL)); if NULL        *)
(* sleep(1); }  then the lock is released and the singleton returned.     *)
(* One turn that creates the instance and the exit test are one step; a    *)
(* turn that finds no context object changes nothing and is the wait.     *)
DsmLoop(t) ==
    /\ pc[t] = "dsmLoop"
    /\ gDefaultServiceManager # NULL \/ contextReady
    /\ LET sm == IF gDefaultServiceManager # NULL
                   THEN gDefaultServiceManager ELSE t IN
         /\ gDefaultServiceManager' = sm
         /\ created' = IF gDefaultServiceManager = NULL
                         THEN created \cup {t} ELSE created
         /\ smGot' = [smGot EXCEPT ![t] = sm]
    /\ lock' = NULL /\ Goto(t, cont[t])
    /\ UNCHANGED <<gPermissionController, cont, lp, ans, result>>
    /\ UNCHANGED callEnv

-----------------------------------------------------------------------------
(* checkPermission(permission, pid, uid), reached directly or through      *)
(* checkCallingPermission, which only reads the calling pid and uid.       *)

CallCheckPermission(t) ==
    /\ pc[t] = "idle" /\ calls[t] < MaxCalls
    /\ calls' = [calls EXCEPT ![t] = @ + 1]
    /\ Goto(t, "cpStart")
    /\ ans' = [ans EXCEPT ![t] = "none"]
    /\ result' = [result EXCEPT ![t] = "none"]
    /\ UNCHANGED <<gDefaultServiceManager, gPermissionController, lock,
                   cont, lp, smGot, created>> /\ UNCHANGED envVars

\* gDefaultServiceManagerLock.lock(); pc = gPermissionController; unlock()
CpStart(t) ==
    /\ pc[t] = "cpStart" /\ lock = NULL
    /\ lp' = [lp EXCEPT ![t] = gPermissionController]
    /\ LoopTop(t, gPermissionController)
    /\ UNCHANGED <<gDefaultServiceManager, gPermissionController, lock,
                   ans, result, smGot, created>> /\ UNCHANGED callEnv

\* bool res = pc->checkPermission(permission, pid, uid); if (res) return res;
\* A live controller grants or denies; a call on a dead one fails: false.
CpAsk(t) ==
    /\ pc[t] = "cpAsk"
    /\ \E a \in (IF ctl[lp[t]] = "alive" THEN {"grant", "deny"} ELSE {"dead"}) :
         /\ ans' = [ans EXCEPT ![t] = a]
         /\ IF a = "grant"
              THEN result' = [result EXCEPT ![t] = "granted"] /\ Goto(t, "idle")
              ELSE Goto(t, "cpAlive") /\ UNCHANGED result
    /\ UNCHANGED <<gDefaultServiceManager, gPermissionController, lock,
                   cont, lp, smGot, created>> /\ UNCHANGED callEnv

\* Mutant: a false answer is returned without asking whether the
\* controller is still alive.
CpAliveUnchecked(t) ==
    /\ pc[t] = "cpAlive"
    /\ result' = [result EXCEPT ![t] = "denied"] /\ Goto(t, "idle")
    /\ UNCHANGED <<gDefaultServiceManager, gPermissionController, lock,
                   cont, lp, ans, smGot, created>> /\ UNCHANGED callEnv

\* if (IInterface::asBinder(pc)->isBinderAlive()) return false;
CpAlive(t) ==
    /\ pc[t] = "cpAlive"
    /\ IF ctl[lp[t]] = "alive"
         THEN result' = [result EXCEPT ![t] = "denied"] /\ Goto(t, "idle")
         ELSE Goto(t, "cpDrop") /\ UNCHANGED result
    /\ UNCHANGED <<gDefaultServiceManager, gPermissionController, lock,
                   cont, lp, ans, smGot, created>> /\ UNCHANGED callEnv

\* Mutant: the dead controller is dropped from the cache without checking
\* that it is still the cached one.
CpDropUnconditional(t) ==
    /\ pc[t] = "cpDrop" /\ lock = NULL
    /\ gPermissionController' = NULL
    /\ Goto(t, "dsmFast") /\ cont' = [cont EXCEPT ![t] = "cpLookup"]
    /\ UNCHANGED <<gDefaultServiceManager, lock, lp, ans, result, smGot,
                   created>> /\ UNCHANGED callEnv

\* lock(); if (gPermissionController == pc) gPermissionController = NULL;
\* unlock(); then defaultServiceManager()->checkService(_permission)
CpDrop(t) ==
    /\ pc[t] = "cpDrop" /\ lock = NULL
    /\ gPermissionController' = IF gPermissionController = lp[t]
                                  THEN NULL ELSE gPermissionController
    /\ Goto(t, "dsmFast") /\ cont' = [cont EXCEPT ![t] = "cpLookup"]
    /\ UNCHANGED <<gDefaultServiceManager, lock, lp, ans, result, smGot,
                   created>> /\ UNCHANGED callEnv

\* binder = sm->checkService(_permission): NULL -> sleep(1) and loop;
\* otherwise pc = interface_cast<IPermissionController>(binder)
CpLookup(t) ==
    /\ pc[t] = "cpLookup"
    /\ IF registry = NULL
         THEN LoopTop(t, lp[t]) /\ UNCHANGED lp
         ELSE /\ lp' = [lp EXCEPT ![t] = registry]
              /\ Goto(t, "cpInstall") /\ UNCHANGED cont
    /\ UNCHANGED <<gDefaultServiceManager, gPermissionController, lock,
                   ans, result, smGot, created>> /\ UNCHANGED callEnv

\* lock(); gPermissionController = pc; unlock(); and try again
CpInstall(t) ==
    /\ pc[t] = "cpInstall" /\ lock = NULL
    /\ gPermissionController' = lp[t]
    /\ Goto(t, "cpAsk")
    /\ UNCHANGED <<gDefaultServiceManager, lock, cont, lp, ans, result,
                   smGot, created>> /\ UNCHANGED callEnv

-----------------------------------------------------------------------------
(* The environment.                                                        *)

\* the context manager (servicemanager) comes up
ContextUp ==
    /\ ~contextReady /\ contextReady' = TRUE
    /\ UNCHANGED <<registry, ctl>>

\* the next permission controller registers under "permission"
Register(c) ==
    /\ ctl[c] = "unborn" /\ registry = NULL
    /\ \A d \in Controllers : ctl[d] # "alive"
    /\ ctl' = [ctl EXCEPT ![c] = "alive"] /\ registry' = c
    /\ UNCHANGED contextReady

\* the controller's process dies; another one is still to come
Die(c) ==
    /\ ctl[c] = "alive" /\ \E d \in Controllers : ctl[d] = "unborn"
    /\ ctl' = [ctl EXCEPT ![c] = "dead"]
    /\ UNCHANGED <<contextReady, registry>>

\* servicemanager drops the dead entry on its death notification
Reap ==
    /\ registry # NULL /\ ctl[registry] = "dead"
    /\ registry' = NULL
    /\ UNCHANGED <<contextReady, ctl>>

Env == ContextUp \/ Reap \/ \E c \in Controllers : Register(c) \/ Die(c)

\* every step of a call under way
Step(t) ==
    \/ DsmFast(t) \/ DsmLock(t) \/ DsmLoop(t)
    \/ CpStart(t) \/ CpAsk(t) \/ CpAlive(t) \/ CpDrop(t)
    \/ CpLookup(t) \/ CpInstall(t)

Next ==
    \/ \E t \in Threads :
         CallDefaultServiceManager(t) \/ CallCheckPermission(t) \/ Step(t)
    \/ (Env /\ UNCHANGED <<gDefaultServiceManager, gPermissionController,
                           lock, pc, cont, lp, ans, result, smGot, created, calls>>)

EnvFair == ContextUp \/ Reap \/ \E c \in Controllers : Register(c)

(* Threads in a call are scheduled; the context manager comes up, and      *)
(* servicemanager reaps dead entries and the permission service is         *)
(* restarted -- what the code's unbounded loops wait for.  Deaths and new  *)
(* calls are not forced.                                                   *)
Fairness ==
    /\ \A t \in Threads : WF_vars(Step(t))
    /\ WF_vars(EnvFair /\ UNCHANGED <<gDefaultServiceManager,
                 gPermissionController, lock, pc, cont, lp, ans, result,
                 smGot, created, calls>>)

Spec == Init /\ [][Next]_vars /\ Fairness

-----------------------------------------------------------------------------
(* There is one service manager per process: however the unlocked fast     *)
(* path and the locked loop of defaultServiceManager interleave, at most   *)
(* one BpServiceManager is ever created and every caller got that one      *)
(* (IServiceManager.cpp:34-49).                                            *)
SingleServiceManager ==
    /\ Cardinality(created) <= 1
    /\ \A t \in Threads : smGot[t] \in {NULL, gDefaultServiceManager}

(* checkPermission returns false only when the controller it asked denied  *)
(* while alive, never because the controller died during the call          *)
(* (IServiceManager.cpp:80-95).                                            *)
DenialIsGenuine ==
    \A t \in Threads : result[t] = "denied" => ans[t] = "deny"

(* The cache is only ever emptied of a dead controller: a thread that      *)
(* found its own controller dead never drops a live one another thread     *)
(* installed meanwhile (IServiceManager.cpp:97-102).                       *)
CacheDropsOnlyDead ==
    [][gPermissionController' = NULL /\ gPermissionController # NULL
         => ctl[gPermissionController] = "dead"]_gPermissionController

(* Every call of defaultServiceManager and checkPermission returns, once   *)
(* the context manager is up and the permission service stays up: the     *)
(* loops do not spin forever on a stale or dead controller, and no caller  *)
(* waits forever on the shared lock (IServiceManager.cpp:34-123).          *)
CallsReturn == \A t \in Threads : pc[t] # "idle" ~> pc[t] = "idle"

=============================================================================
