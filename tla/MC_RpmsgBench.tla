---------------------------- MODULE MC_RpmsgBench ----------------------------
(* An instance of the rpmsg benchmark alone; the sizes are in
   MC_RpmsgBench_overflow.cfg: one failed recv in two calls.  The run
   without faults is in MC_Benchmarks. *)
EXTENDS RpmsgBench
=============================================================================
