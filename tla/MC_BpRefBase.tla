---------------------------- MODULE MC_BpRefBase ----------------------------
(* Model-checking instance of BpRefBase: three threads, the first of them   *)
(* the creator, each holding at most one sp<> and one wp<> of the proxy.    *)
EXTENDS BpRefBase

CONSTANTS t1, t2, t3

MCThreads == {t1, t2, t3}
MCCreator == t1
=============================================================================
