-------------------------- MODULE MC_BinderObjects ---------------------------
(***************************************************************************)
(* A process hosting two binder objects: a plain BBinder (BBinderDispatch) *)
(* and the app-ops stub BnAppOpsService with the proxies that call it      *)
(* (IAppOpsService).  Each transaction goes to one of them; MaxTx bounds   *)
(* the transactions of both together, each being independent of the ones  *)
(* before it.                                                              *)
(***************************************************************************)
EXTENDS Integers, Sequences

CONSTANTS
    Uids, AID_SHELL, AID_ROOT, Strings, Binders, ArgCounts, MaxArgs,
    Opcodes, AppUids, Packages, Callbacks, Modes, MODE_ERRORED,
    MaxItems, MaxTx, NULL

VARIABLES
    log, crashed,   \* the BBinder's transactions
    alog            \* the app-ops stub's transactions

BBinder == INSTANCE BBinderDispatch
AppOps == INSTANCE IAppOpsService WITH log <- alog

vars == <<log, crashed, alog>>

Init == BBinder!Init /\ AppOps!Init
Next ==
    /\ Len(log) + Len(alog) < MaxTx
    /\ \/ BBinder!Next /\ UNCHANGED alog
       \/ AppOps!Next /\ UNCHANGED <<log, crashed>>
Spec == Init /\ [][Next]_vars

\* Small sets: callers shell, root and an app; two strings and one binder
\* for shell commands; op 1, uid 10 and modes 0 (allowed) and 1 (ignored),
\* distinct so that a swapped or misplaced read shows; argc values that
\* are negative, fit, or exceed the data.
CONSTANTS shell, root, app, s1, s2, b1, cb1
MCUids == {shell, root, app}
MCStrings == {s1, s2}
MCBinders == {b1}
MCArgCounts == {-1, 1, 3}
MCOpcodes == {1}
MCAppUids == {10}
MCModes == {0, 1}

\* The properties of the two objects, as stated in their modules.
ShellRoundTrip == BBinder!ShellRoundTrip
ArgsWithinData == BBinder!ArgsWithinData
RoundTrip == AppOps!RoundTrip
=============================================================================
