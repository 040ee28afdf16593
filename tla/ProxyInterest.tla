---------------------------- MODULE ProxyInterest ----------------------------
(***************************************************************************)
(* What a binder proxy promises about its interest in the remote object,  *)
(* stated without RefBase's counters (spec section 4.1 and section 5):     *)
(*  - the proxy is created once and deleted once;                          *)
(*  - it takes a strong reference on the remote only while the remote is   *)
(*    alive, and gives back only references it holds;                      *)
(*  - it is deleted holding at most the one reference it took when it was  *)
(*    created, which the deletion gives back;                              *)
(*  - the remote is freed exactly when neither the proxy nor the caller    *)
(*    that created the proxy holds a strong reference on it.               *)
(* BpRefBase refines this specification (see BpRefBase.tla).              *)
(***************************************************************************)
EXTENDS Naturals

VARIABLES
    proxy,  \* "none", "alive" or "deleted"
    held,   \* strong references on the remote held by the proxy
    ext,    \* the caller still holds its own strong reference
    alive   \* the remote has not been freed

absVars == <<proxy, held, ext, alive>>

\* The remote survives a step iff somebody still holds it afterwards.
StillHeld(h, e) == h > 0 \/ e

Init == proxy = "none" /\ held = 0 /\ ext = TRUE /\ alive = TRUE

\* Created from a null remote (h = 0) or with a provisional reference on a
\* live one (h = 1).
Create ==
    /\ proxy = "none" /\ proxy' = "alive"
    /\ \E h \in {0, 1} : /\ h = 1 => ext /\ alive
                         /\ held' = h
    /\ UNCHANGED <<ext, alive>>

Take ==
    /\ proxy = "alive" /\ alive
    /\ held' = held + 1
    /\ UNCHANGED <<proxy, ext, alive>>

Give ==
    /\ proxy = "alive" /\ held > 0
    /\ held' = held - 1
    /\ alive' = (alive /\ StillHeld(held - 1, ext))
    /\ UNCHANGED <<proxy, ext>>

Delete ==
    /\ proxy = "alive" /\ held <= 1
    /\ proxy' = "deleted" /\ held' = 0
    /\ alive' = (alive /\ StillHeld(0, ext))
    /\ UNCHANGED ext

Release ==
    /\ ext /\ ext' = FALSE
    /\ alive' = (alive /\ StillHeld(held, FALSE))
    /\ UNCHANGED <<proxy, held>>

Next == Create \/ Take \/ Give \/ Delete \/ Release

Spec == Init /\ [][Next]_absVars
=============================================================================
