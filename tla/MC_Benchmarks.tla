---------------------------- MODULE MC_Benchmarks ----------------------------
(* The benchmark programs of src/libs/binder/tests: the rpmsg socket echo  *)
(* (RpmsgBench) and the binder RPC set-ups (BinderRpcBench).  They share   *)
(* no state; one run checks both, each step being a step of one of them.  *)
(* The sizes are in the .cfg files:                                        *)
(*   MC_Benchmarks.cfg        TMPDIR set to "", builds with and without    *)
(*                            openssl, rpmsg buffers as MC_RpmsgBench.cfg; *)
(*   MC_Benchmarks_spawn.cfg  TMPDIR unset, as it usually is.              *)
EXTENDS Sequences
CONSTANTS BufSize, SockBuf, ServerBuf, SizeBits, MaxRounds, MaxFaults, Faults,
          TmpDirs, TlsBuilds, NULL
VARIABLES cpc, snd, sendsize, recvsize, off, got, overflow, round, c2s, s2c,
          spc, ssnd, faults, conn, srv,
          hasTls, env, sock, ppc, tries, child, root, bench,
          cpcSrv, cpcCli, cpcRoot

Rpmsg == INSTANCE RpmsgBench
Rpc == INSTANCE BinderRpcBench

rpmsgState == <<cpc, snd, sendsize, recvsize, off, got, overflow, round, c2s, s2c,
               spc, ssnd, faults, conn, srv>>
rpcState == <<hasTls, env, sock, ppc, tries, child, root, bench, cpcSrv,
             cpcCli, cpcRoot>>

Init == Rpmsg!Init /\ Rpc!Init
Next == (Rpmsg!Next /\ UNCHANGED rpcState) \/ (Rpc!Next /\ UNCHANGED rpmsgState)
allVars == <<rpmsgState, rpcState>>

\* Each program's fairness, for its own steps.
Fairness == Rpmsg!Fairness /\ Rpc!Fairness

Spec == Init /\ [][Next]_allVars /\ Fairness

TypeOK == Rpmsg!TypeOK /\ Rpc!TypeOK
EchoExact == Rpmsg!EchoExact
NoInbufOverflow == Rpmsg!NoInbufOverflow
TransDataCompletes == Rpmsg!TransDataCompletes
ConnectsToOwnServer == Rpc!ConnectsToOwnServer
SpawnedServerServes == Rpc!SpawnedServerServes
=============================================================================
