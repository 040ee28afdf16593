---------------------------- MODULE BinderRpcBench ----------------------------
(***************************************************************************)
(* Set-up and run of the binder RPC benchmarks:                            *)
(*  - binderRpcBenchmark (src/libs/binder/tests/binderRpcBenchmark.cpp),   *)
(*    one program that is both client and server: main (254-308) unlinks  *)
(*    the socket path, spawns itself as the server with posix_spawn        *)
(*    (spawnRpcServer, 232-242), connects with up to five tries            *)
(*    (setupClient, 244-252), and, with openssl, does the same for a TLS   *)
(*    server; the spawned copy's main dispatches on argv[1] and serves on  *)
(*    argv[2] (defaultRpcServer, 218-222).  Then the benchmarks run in     *)
(*    their registration order, each on getBinderForOptions (124-141).     *)
(*  - binderCpc (binderCpcServerBenchmark.cpp, binderCpcClientBenchmark.cpp)*)
(*    a server and a client started independently over an rpmsg socket.  *)
(*                                                                         *)
(* Paths are strings built as the code builds them.  The kernel transport *)
(* (__BIONIC__ only) is not in a NuttX build.  RpcServer and RpcSession    *)
(* are not in the repository: bind fails on a path that exists, connect    *)
(* succeeds on a path some process listens on with the same transport.    *)
(* A socket file may be left from an earlier run, with (orphan) or without *)
(* (dead) the server that made it: the spawned server never exits.        *)
(* Benchmark iterations on a connected binder all succeed and are not      *)
(* modelled one by one.                                                    *)
(***************************************************************************)
EXTENDS Integers, Sequences

CONSTANTS
    TmpDirs,   \* values getenv("TMPDIR") may return (strings, or NULL)
    TlsBuilds, \* values of __has_include(<openssl/base.h>) of the builds
    NULL

DEFAULT_RPC_BENCH_MARK == "/binderRpcBenchmark"
TLS_RPC_BENCH_MARK == "/binderRpcTlsBenchmark"
Marks == {DEFAULT_RPC_BENCH_MARK, TLS_RPC_BENCH_MARK}
\* std::string tmp = getenv("TMPDIR") ?: "/tmp";
Tmp(env) == IF env = NULL THEN "/tmp" ELSE env
Paths == {Tmp(e) \o m : e \in TmpDirs, m \in Marks} \cup Marks
\* for (size_t tries = 0; tries < 5; tries++)
SetupTries == 5
Sessions == {"rpc", "tls"}
\* kTransportList without KERNEL, in each benchmark's ArgsProduct order.
Benchmarks == <<"ping", "ping", "string", "string", "bytes", "bytes", "binder", "binder">>
Transports == <<"RPC", "RPC_TLS", "RPC", "RPC_TLS", "RPC", "RPC_TLS", "RPC", "RPC_TLS">>

VARIABLES
    hasTls,   \* the build has openssl
    env,      \* getenv("TMPDIR")
    sock,     \* sock[p]: "none", "dead", "orphan", or the transport of the
              \* server of this run listening on p ("rpc" or "tls")
    ppc,      \* the benchmark process
    tries,    \* setupClient's tries
    child,    \* child[s]: the process spawned for session s
    root,     \* root[s]: what s's getRootObject() returns (NULL or a sock value)
    bench,    \* index of the running benchmark
    cpcSrv,   \* binderCpc server: "start", "listening", "aborted"
    cpcCli,   \* binderCpc client: "start", "bench", "fatal", "done"
    cpcRoot   \* the client's getRootObject() is not NULL

vars == <<hasTls, env, sock, ppc, tries, child, root, bench, cpcSrv, cpcCli, cpcRoot>>
rpcVars == <<hasTls, env, sock, ppc, tries, child, root, bench>>
cpcVars == <<cpcSrv, cpcCli, cpcRoot>>

Addr == Tmp(env) \o DEFAULT_RPC_BENCH_MARK
TlsAddr == Tmp(env) \o TLS_RPC_BENCH_MARK
NoChild == [st |-> "unborn", argv1 |-> "", argv2 |-> "", kind |-> "none"]
ClientPath(s) == IF s = "rpc" THEN Addr ELSE TlsAddr

Init ==
    /\ hasTls \in TlsBuilds /\ env \in TmpDirs
    /\ sock \in [Paths -> {"none", "dead", "orphan"}]
    /\ ppc = "spawnRpc" /\ tries = 0
    /\ child = [s \in Sessions |-> NoChild]
    /\ root = [s \in Sessions |-> NULL]
    /\ bench = 1
    /\ cpcSrv = "start" /\ cpcCli = "start" /\ cpcRoot = FALSE

(***************************************************************************)
(* binderRpcBenchmark, the benchmark process.                              *)
(***************************************************************************)
\* Mutant: the socket path is not unlinked first.
SpawnNoUnlink(s, path, mark, next) ==
    /\ UNCHANGED sock
    /\ \/ child' = [child EXCEPT ![s] = [NoChild EXCEPT !.st = "start", !.argv1 = Addr, !.argv2 = mark]]
          /\ ppc' = next
       \/ ppc' = "aborted" /\ UNCHANGED child
    /\ UNCHANGED <<hasTls, env, tries, root, bench>>

\* (void)unlink(path); spawnRpcServer(argv[0], (char *)addr.c_str(), mark):
\* args are {name, type, addr}, so the child's argv[1] is addr and argv[2]
\* the mark.  posix_spawn failing is LOG(FATAL).
Spawn(s, path, mark, next) ==
    /\ sock' = [sock EXCEPT ![path] = "none"]
    /\ \/ child' = [child EXCEPT ![s] = [NoChild EXCEPT !.st = "start", !.argv1 = Addr, !.argv2 = mark]]
          /\ ppc' = next
       \/ ppc' = "aborted" /\ UNCHANGED child
    /\ UNCHANGED <<hasTls, env, tries, root, bench>>

SpawnRpc == ppc = "spawnRpc" /\ Spawn("rpc", Addr, DEFAULT_RPC_BENCH_MARK, "setupRpc")
SpawnTls == ppc = "spawnTls" /\ Spawn("tls", TlsAddr, TLS_RPC_BENCH_MARK, "setupTls")

\* What session s reaches by connecting to path, or NULL.
Connect(s, path) ==
    IF sock[path] = s \/ (sock[path] = "orphan" /\ s = "rpc") THEN sock[path] ELSE NULL

\* One try of setupClient: usleep(10000), setupUnixDomainClient(path); the
\* loop breaks on OK, and after the fifth failure CHECK_EQ aborts.
SetupTry(s, path, next) ==
    /\ root' = [root EXCEPT ![s] = Connect(s, path)]
    /\ \/ Connect(s, path) # NULL /\ ppc' = next /\ tries' = 0
       \/ Connect(s, path) = NULL /\ tries + 1 < SetupTries
          /\ tries' = tries + 1 /\ UNCHANGED ppc
       \/ Connect(s, path) = NULL /\ tries + 1 = SetupTries
          /\ ppc' = "aborted" /\ UNCHANGED tries
    /\ UNCHANGED <<hasTls, env, sock, child, bench>>

SetupRpc == ppc = "setupRpc" /\ SetupTry("rpc", Addr, IF hasTls THEN "spawnTls" ELSE "bench")
SetupTls == ppc = "setupTls" /\ SetupTry("tls", TlsAddr, "bench")

\* getBinderForOptions: RPC_TLS is in kTransportList in every build, but its
\* case only with openssl; otherwise the default case is LOG(FATAL).
BinderFor(t) == IF t = "RPC" THEN root["rpc"] ELSE root["tls"]

\* getBinderForOptions has a case for benchmark i's transport, and the
\* binder it returns is not NULL.
Found(i) == Transports[i] = "RPC" \/ hasTls
Usable(i) == Found(i) /\ BinderFor(Transports[i]) # NULL

\* One benchmark: getBinderForOptions, then ping calls binder->pingBinder()
\* unchecked, and the others CHECK the binder or its interface_cast and
\* abort on NULL; the last one ends RunSpecifiedBenchmarks.
RunBenchmark ==
    /\ ppc = "bench"
    /\ ppc' = IF ~Usable(bench) THEN "aborted"
              ELSE IF bench = Len(Benchmarks) THEN "done" ELSE "bench"
    /\ bench' = IF Usable(bench) /\ bench < Len(Benchmarks) THEN bench + 1 ELSE bench
    /\ UNCHANGED <<hasTls, env, sock, tries, child, root>>

(***************************************************************************)
(* binderRpcBenchmark, the spawned server process.                         *)
(***************************************************************************)
\* Serve(kind): defaultRpcServer(argv[2], ...): setupUnixDomainServer binds
\* argv[2], failing on an existing path, and CHECK_EQ aborts; else join().
Serve(s, kind) ==
    LET p == child[s].argv2 IN
    IF sock[p] = "none"
       THEN /\ sock' = [sock EXCEPT ![p] = kind]
            /\ child' = [child EXCEPT ![s].st = "serving", ![s].kind = kind]
       ELSE /\ child' = [child EXCEPT ![s].st = "aborted"] /\ UNCHANGED sock

\* main with argc == 3: argv[1] selects the server; any other argv[1] falls
\* through to benchmark::Initialize, and ReportUnrecognizedArguments makes
\* main return 1.
ServerKind(argv1) ==
    CASE argv1 = DEFAULT_RPC_BENCH_MARK -> "rpc"
      [] hasTls /\ argv1 = TLS_RPC_BENCH_MARK -> "tls"
      [] OTHER -> "none"

ChildMain(s) ==
    /\ child[s].st = "start"
    /\ IF ServerKind(child[s].argv1) = "none"
          THEN child' = [child EXCEPT ![s].st = "exited"] /\ UNCHANGED sock
          ELSE Serve(s, ServerKind(child[s].argv1))
    /\ UNCHANGED <<hasTls, env, ppc, tries, root, bench>>

(***************************************************************************)
(* binderCpc: server and client programs, started independently.          *)
(***************************************************************************)
\* defaultCpcServer: CHECK_EQ(OK, server->setupRpmsgSockServer("cpc")).
CpcServerMain ==
    /\ cpcSrv = "start"
    /\ cpcSrv' \in {"listening", "aborted"}
    /\ UNCHANGED <<cpcCli, cpcRoot>>

\* setupClient ignores what setupRpmsgSockClient returns.
CpcClientSetup ==
    /\ cpcCli = "start"
    /\ cpcRoot' = (cpcSrv = "listening")
    /\ cpcCli' = "bench"
    /\ UNCHANGED cpcSrv

\* BM_throughputForTransportAndBytes, for each size: a NULL root object is
\* LOG(FATAL).
CpcBench ==
    /\ cpcCli = "bench"
    /\ cpcCli' = IF cpcRoot THEN "done" ELSE "fatal"
    /\ UNCHANGED <<cpcSrv, cpcRoot>>

RpcStep ==
    /\ \/ SpawnRpc \/ SpawnTls \/ SetupRpc \/ SetupTls \/ RunBenchmark
       \/ \E s \in Sessions : ChildMain(s)
    /\ UNCHANGED cpcVars

CpcStep == (CpcServerMain \/ CpcClientSetup \/ CpcBench) /\ UNCHANGED rpcVars

Next == RpcStep \/ CpcStep

\* Every process runs while it can.
Fairness == WF_vars(RpcStep) /\ WF_vars(CpcStep)

Spec == Init /\ [][Next]_vars /\ Fairness

(***************************************************************************)
(* Properties.                                                             *)
(***************************************************************************)

TypeOK ==
    /\ hasTls \in TlsBuilds /\ env \in TmpDirs /\ sock \in [Paths -> {"none", "dead", "orphan", "rpc", "tls"}]
    /\ ppc \in {"spawnRpc", "setupRpc", "spawnTls", "setupTls", "bench", "aborted", "done"}
    /\ tries \in 0..SetupTries - 1
    /\ \A s \in Sessions : child[s].st \in {"unborn", "start", "serving", "aborted", "exited"}
    /\ root \in [Sessions -> {NULL, "rpc", "tls", "orphan"}]
    /\ bench \in 1..Len(Benchmarks)
    /\ cpcSrv \in {"start", "listening", "aborted"} /\ cpcRoot \in BOOLEAN
    /\ cpcCli \in {"start", "bench", "fatal", "done"}

\* A session of the benchmark is connected only to the server this run
\* spawned for it, never to a server or socket file an earlier run left
\* behind at the same path, nor to one of the other transport.
ConnectsToOwnServer == \A s \in Sessions : root[s] \in {NULL, s}

\* The copy main spawns for a session serves that session: it takes the
\* server branch of main and listens, with the session's transport, on the
\* path setupClient connects to.
SpawnedServerServes ==
    \A s \in Sessions :
        child[s].st \notin {"unborn", "start"} =>
            /\ child[s].st = "serving" /\ child[s].kind = s
            /\ child[s].argv2 = ClientPath(s)
=============================================================================
