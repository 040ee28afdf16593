-------------------------- MODULE MC_BBinderExtras --------------------------
(* Model-checking instance of BBinderExtras: three threads racing to       *)
(* create the side table, two object keys.                                 *)
EXTENDS BBinderExtras

CONSTANTS t1, t2, t3, k1, k2

MCThreads == {t1, t2, t3}
MCKeys == {k1, k2}
=============================================================================
