# TLA+ models of the binder core, the service-manager and app-ops clients, dumpsys and the benchmarks

These modules model the concurrent parts of `src/` in TLA+ and check them
with TLC. They cover `libs/binder` (Binder.cpp, IServiceManager.cpp,
AppOpsManager.cpp and IAppOpsService.cpp), `cmds/dumpsys`, and the rpmsg
socket benchmark, binderRpcBenchmark and the binderCpc benchmarks in
`libs/binder/tests`. Every
action is translated from the code, and its `map` entry in `PROJECT.json`
names the lines it models. Code this repository only calls is modelled from
`spec.md` and marked `spec_modelled` in the map: RefBase in libutils, the
ObjectManager, the servicemanager server, ProcessState, the Parcel
reads and RpcSession's connect.

## 1. The system and how its parts interact

| Part | Source | State | Operations | Interacts with |
|---|---|---|---|---|
| BpRefBase (proxy reference core) | Binder.cpp:324-367 | `mRemote`, `mRefs`, `mState` (kRemoteAcquired); the RefBase counts `mStrong`/`mWeak` of the proxy | ctor, dtor, onFirstRef, onLastStrongRef, onIncStrongAttempted (hooks called by RefBase's incStrong/decStrong/decWeak/attemptIncStrong) | the remote IBinder's strong/weak counts |
| BBinder side table | Binder.cpp:89-104, 182-244, 303-320 | `mExtras` (atomic pointer), Extras{`mRequestingSid`, `mLock`, `mObjects`} | attachObject, findObject, detachObject, isRequestingSid, setRequestingSid, ~BBinder, getOrCreateExtras (CAS) | the ObjectManager (attached objects) |
| BBinder dispatcher | Binder.cpp:68-180, 248-301 | none besides the Parcels | transact, onTransact, shellCommand, pingBinder, dump | the caller's identity (uid) and Parcels |
| Service-manager client state | IServiceManager.cpp:34-123 | `gDefaultServiceManager`, `gPermissionController`, `gDefaultServiceManagerLock` | defaultServiceManager, checkPermission, checkCallingPermission | ProcessState's context object; the permission controller registered as "permission" |
| Directory calls | IServiceManager.cpp:127-190 | none on the client; the server's registry | getService, checkService, addService, listServices | servicemanager (not in src) |
| AppOpsManager | AppOpsManager.cpp | `mService` under `mLock`, `gClientId`, `appOpsToNote[]` | getService, checkOp, noteOp, startOpNoThrow, finishOp, watching, shouldCollectNotes | the "appops" service via IAppOpsService |
| IAppOpsService marshaling | IAppOpsService.cpp | none | proxy methods, BnAppOpsService::onTransact | Parcels; BBinder::onTransact for unknown codes; the Java implementation behind the stub |
| rpmsg benchmark | tests/rpmsgClientBench.cpp:29-147, tests/rpmsgServerBench.cpp:34-161 | `sockfd`; transData's `snd`, `sendsize`, `recvsize`, `tmp`; the listening socket; the echo thread's `buf` and `snd` | rpsock_stream_client (socket, connect, poll), transData (send loop, receive loop), BM_throughputSendAndRecv, rpsock_stream_server (socket, bind, listen, accept loop), rpsock_thread | each other, over one rpmsg stream socket |
| binderRpcBenchmark | tests/binderRpcBenchmark.cpp:68-308 | the socket paths, the spawned server processes, `gSession`, `gSessionTls` | main (unlink, spawnRpcServer, setupClient), the spawned copy's main and defaultRpcServer, the benchmarks through getBinderForOptions | its own spawned copies, over unix sockets; files left by earlier runs |
| binderCpc benchmarks | tests/binderCpcServerBenchmark.cpp, tests/binderCpcClientBenchmark.cpp | `gRpcSession` | the server's main, the client's setupClient and benchmark | each other over an rpmsg socket |
| dumpsys | cmds/dumpsys/dumpsys.cpp | argument vectors, a socketpair and a dump thread per service | main | the directory (listServices, checkService) and each service's dump |

The hard behaviours are these:

- Threads interleave on RefBase's atomics. A weak promotion can race the
  last strong release.
- `mExtras` is created lazily by a CAS. The loser of a creation race must
  switch to the winner's Extras.
- `mRequestingSid` is written without a lock. In C++ that is a data race,
  and it is modelled as racing writes.
- The unlocked fast-path read of `gDefaultServiceManager` is also a data
  race. It is modelled as a read that may still see NULL after the store.
- checkPermission loops with no bound. It asks a cached controller that may
  die at any moment, and clears the cache only by compare-and-clear.
- getService retries a fixed 5 times.
- listServices paginates over transactions that other registrations can
  interleave.
- dumpsys races a dump against a deadline, then joins or detaches the dump
  thread.
- transact is reached both through the driver, with a fresh Parcel, and by
  a direct call on a local BBinder, with the caller's Parcel as written.
  The argument count in a parcel comes from the caller.
- AppOpsManager's getService sleeps with `mLock` held and gives up after
  10 s. The service it returns can die before it is used. shouldCollectNotes
  calls getService a second time.
- The rpmsg client and server are started in either order. The client's
  non-blocking connect may still be in progress when the benchmark
  starts, and neither main checks that its set-up succeeded.
- The rpmsg client sends a whole buffer before it reads. It counts
  received bytes in a `size_t` that recv's -1 can wrap. Its recvs write at
  `inbuf + recvsize` whatever the socket holds, up to a buffer's worth.
- binderRpcBenchmark spawns itself as its own server and races the
  server's bind with five 10 ms connect tries. The socket path may hold a
  file, or a live server, from an earlier run.

### Correctness properties per part

- **BpRefBase.** The remote strong count stays balanced: the provisional
  reference is handed over or dropped exactly once. A promoted sp<> never
  points at a freed remote. The proxy is eventually released. Abstractly,
  the proxy takes a remote reference only while the remote lives, and it
  gives back only what it holds. It is deleted holding at most the
  provisional one (`ProxyInterest`).
- **Side table.** The CAS race converges on one Extras, also when an
  allocation fails and the failed caller must use the winner's. No
  attachment or SID flag is lost.
- **Client state.** There is one service manager per process. Only genuine
  denials are returned. A live cached controller is never dropped. Every
  call returns once the environment settles.
- **Directory.** getService makes exactly 5 checks. An undisturbed
  listServices returns the directory exactly. Every call returns.
- **Dispatcher.** What shellCommand sends is what onTransact decodes. A crafted argc never makes
  the handler collect more than the parcel holds.
- **IAppOpsService.** A proxy call reaches the implementation with the
  caller's arguments, and its mode comes back unchanged.
- **rpmsg benchmark.** transData returns having received exactly its echo,
  with nothing left in flight. No recv writes outside inbuf. The client
  connects and every call returns, whichever main starts first.
- **AppOpsManager.** There is one client token. Every operation returns,
  with mLock held through getService's sleeps.
- **dumpsys.** All data is copied before EOF. The tool terminates, since a
  hung dump is detached, never joined.
- **binderRpcBenchmark.** A session connects only to the server spawned for it. The spawned copy serves the
  path its session connects to.

## 2. Modules, runs and bounds

| Module | Models | MC module / cfg | Run(s) |
|---|---|---|---|
| `BpRefBase` | BpRefBase plus RefBase's counting around it | `MC_BpRefBase` / `MC_BpRefBase.cfg` | `bprefbase` |
| `BBinderExtras` | the BBinder side table | `MC_BBinderExtras` / `MC_BBinderExtras.cfg` | `bbinder_extras` |
| `ServiceManagerClient` | defaultServiceManager plus checkPermission, which share one lock | `MC_ServiceManagerClient` / `.cfg` | `sm_client` |
| `ServiceDirectory` | the BpServiceManager calls against a server | `MC_ServiceDirectory` / `.cfg` | `sm_directory` |
| `ProxyInterest` | the abstract promise of a proxy about its remote reference; BpRefBase refines it | (instantiated in `BpRefBase` as `Abs`) | `bprefbase` |
| `BBinderDispatch` | shellCommand, transact, onTransact | `MC_BinderObjects` / `.cfg` | `bbinder_dispatch` |
| `IAppOpsService` | the app-ops proxy and stub | `MC_BinderObjects` / `.cfg` | `bbinder_dispatch` |
| `RpmsgBench` | transData against the echo thread | `MC_RpmsgBench` / `_overflow.cfg`; `MC_Benchmarks` / `.cfg` | `rpmsg_inbuf_overflow`, `benchmarks` |
| `BinderRpcBench` | binderRpcBenchmark's set-up and benchmarks, binderCpc's server and client | `MC_Benchmarks` / `.cfg`, `_spawn.cfg` | `benchmarks`, `rpc_spawn_args` |
| `AppOpsManager` | AppOpsManager with the proxy calls it makes | `MC_AppOpsManager` / `.cfg`, `_deref.cfg` | `appops`, `appops_null_deref` |
| `Dumpsys` | dumpsys main | `MC_Dumpsys` / `MC_Dumpsys.cfg` | `dumpsys` |

### BpRefBase (run `bprefbase`)

**State.**
- `obj` is none, alive or deleted. `mRemote` is non-null or not. `mStrong`,
  `mWeak` and `mState` are the proxy's counts.
- `rStrong`, `rWeak` and `rFreed` belong to the remote.
- `sp[t]` and `wp[t]` are the references each thread holds. `pc[t]` and
  `cur[t]` mark the step of a RefBase call in flight.
- `owed` is a history variable: the remote strong references the proxy
  holds.

**Actions.**
- Every atomic read-modify-write of a RefBase count is one step, and every
  callback into BpRefBase is a step of its own. Threads interleave exactly
  where the C++ code can. For example, DecStrong does the `fetch_sub`, then
  OnLastStrongRef calls `mRemote->decStrong`, then DecWeak does the
  `fetch_sub` on mWeak and, at zero, `~BpRefBase` (DestroyRemoteRefs).
- Promote, OnIncStrongAttempted, Grab, ExtraRef and FixInitial are the
  branches of `attemptIncStrong`.

**Bounds.** 3 threads and `MaxRefs = 1` reference per thread per kind. That
is enough for a promoter, a releaser and the creator to race. The INITIAL
branch of IncStrong cannot fire, because only the constructor's sp<> sees
INITIAL. The run reaches 307,448 states in about 13 s.

**Properties.**
- `RemoteRefBalance`: the remote references owed are never negative, are
  zero once the proxy is deleted, and equal the provisional reference plus
  the one for a live strong count when no call is in flight.
- `StrongProxyHasLiveRemote`: whoever holds an sp<> of the proxy has a live
  remote.
- `ProxyCountsExact`: mWeak equals the sp<> and wp<> held, and nobody holds
  a deleted proxy.
- `ProxyEventuallyReleased`: once unreferenced, the proxy is deleted having
  given back everything.

**Fairness.** Weak fairness applies only to the steps of a call already
begun. A thread inside a RefBase call runs to its end. Taking and dropping
references is up to the program.

**Refinement.** `ProxyInterest` states what a proxy promises about the
remote, without RefBase's counters. Its state has four parts: the proxy
(none, alive or deleted), the references it `held`, whether the caller
still holds its own (`ext`), and whether the remote is `alive`. It has five
actions:
- Create takes a provisional reference, or none for a null remote.
- Take needs a live proxy and a live remote.
- Give needs `held > 0`.
- Delete needs `held <= 1` and gives it back.
- Release drops the caller's reference.

Under Give, Delete and Release the remote stays alive exactly while
somebody holds it. `BpRefBase` instantiates it as `Abs` with
`proxy <- obj`, `held <- owed`, `ext <- extHeld` and `alive <- ~rFreed`.
The `bprefbase` run then checks `ProxyInterestRefined == Abs!Spec` as a
PROPERTY. Every concrete step is either one abstract step or none:
- Construct is Create.
- A promotion's `mRemote->attemptIncStrong` is Take.
- onLastStrongRef and the extra ref given back in attemptIncStrong are
  Give.
- The last decWeak is Delete.
- Every counter step of RefBase leaves the abstract state alone.

A promotion whose extra reference is never given back leaves a deleted
proxy holding two. The mutant `GrabNoGiveBack` does this, and TLC reports
the refinement violated.

### BBinderExtras (run `bbinder_extras`)

**State.**
- `mExtras` names the thread whose allocation won.
- `ext[a]` is each thread's allocation: none, alloc, installed or deleted,
  with its object keys and SID flag.
- `pc`, `e` and `arg` are per-call locals.
- History variables: `live` (the keys whose attach returned and were not
  detached), `lastSid`, and `uaf` (a freed Extras was touched).

**Actions.**
- attachObject is split into LoadExtras, NewExtras (which allocates or
  fails), InstallExtras (the CAS) and AttachLocked. A failed allocation
  still runs the CAS, as Binder.cpp:308-316 does: losing it hands the
  caller the winner's Extras, winning it stores null again and the call
  returns.
- setRequestingSid is split into LoadExtras, the same creation steps, and
  SidWrite, the unlocked store.
- detachObject is one step, since `mLock` makes the ObjectManager call
  atomic. The ObjectManager's cleanup callbacks are outside this
  repository and are not modelled.
- Destroy is ~BBinder.

**Bounds.** 3 threads make a 3-way CAS race possible. There are 2 keys. The
run reaches 247,417 states in about 5 s. There is no fairness, because
only safety is checked.

### ServiceManagerClient (run `sm_client`)

**State.**
- The globals, and `lock`, the holder of `gDefaultServiceManagerLock`.
- Per thread: `pc`, `cont` (where a nested defaultServiceManager call
  returns to), `lp` (the local `pc` of checkPermission), `ans` (the last
  answer) and `result`.
- The environment: `contextReady`, `registry` (what
  `checkService("permission")` returns) and `ctl[c]` (unborn, alive or
  dead).

**Actions.**
- DsmFast is the unlocked read. It may see NULL after the store.
- DsmLock, then DsmLoop: the wait for the context object, with the lock
  held.
- CpStart, CpAsk, CpAlive, CpDrop, CpLookup and CpInstall are the
  statements of checkPermission's loop.
- Sleeps take no modelled time.
- The environment: ContextUp, Register, Die and Reap. Die may happen only
  while another controller is still to come, so the permission service
  eventually stays up.

**Bounds.** 2 threads, 2 controllers and `MaxCalls = 2` calls per thread.
`MaxCalls` is needed because `std::mutex` is not fair: a thread that calls
forever could starve the other at the lock. The run reaches 126,906 states
in about 14 s.

**Fairness.** Weak fairness on every step of a call in progress. Weak
fairness on the environment's ContextUp, Register and Reap, which the
code's unbounded loops wait for. Deaths are not forced.

### ServiceDirectory (run `sm_directory`)

**State.**
- `dir` is the server's names in its own order.
- Per thread: `pc`, `name`, `n` (attempt or index), `res`, `out` and
  `listed`.
- History variables: `checks`, `sleeps`, and `clean` (the directory did not
  change and no transaction failed during a listing).

**Actions.**
- Any transaction may fail in transport (`delivered`).
- The server may put a new name at any position.
- ServiceDied removes a name.

**Bounds.** 2 threads, 2 names and 2 calls per thread. With these, a
registration can land before or after the listing's cursor. The run reaches
65,152 states.

### Dumpsys (run `dumpsys`)

**State.**
- `argv` is one of 11 command lines: none, `--help`, `-l`, `--skip 2`,
  `--skip 1,2`, `--skip ""`, `1`, `3`, `1 --help`, `-l 1` and `--skip`.
- Main: `pc`, `services`, `skippedServices`, `i`.
- The current dump thread: `th`, `cur`, `hangs`, `quota`, `sent`, the
  socket (`buf`, `closed`), `joinable` (the std::thread is not yet joined
  or detached).
- The deadline: `left` (what `time_left_ms()` returns, in ticks), set
  when the thread starts and never reset.

**Actions.**
- Start does the argument handling and listServices followed by the sort.
- Loop is the head of the per-service loop: skip, checkService, socketpair,
  thread start.
- Poll, Read and Write are the three system calls with their error
  branches. End is the detach (after a timeout or an error) or the join,
  which waits for the thread to exit.
- DumpWrite and DumpReturn belong to the dump thread and the service behind
  it. Tick is the clock. Die is a service dying.

**Bounds.** `Timeout = 2` ticks and at most 2 chunks per dump, so data can
arrive before, at and after the deadline. There are 2 services. The run
reaches 22,230 states.

**Fairness.** Weak fairness on main, on the dump thread and on the clock. A
hanging dump is not forced to return.

### BBinderDispatch and IAppOpsService (run `bbinder_dispatch`)

`MC_BinderObjects` is one process hosting two binder objects: a plain
BBinder (`BBinderDispatch`) and the app-ops stub with its proxies
(`IAppOpsService`). It instantiates both, and each transaction goes to one
of them. `MaxTx` bounds the transactions of both together.

**BBinderDispatch state.** `log` records each transaction: the caller's
uid, the code, what shellCommand sent (or `raw`), the parcel size, the
status, which handler ran, the arguments it decoded and the result
receiver it called. `crashed` records a write through a NULL reply. The
dispatcher itself keeps no state, and every log entry is built by one
operator, so the run states no type invariant.

**Parcels.** A Parcel is a sequence of typed items (descriptor, int32,
string, binder, and for app-ops the interface token). A read of the wrong
type gives that type's failure value and moves past the item. A read at
the end gives the failure value and stays put. `ReadArgs` is the
`argc`/`dataAvail()` loop as a RECURSIVE operator.

**BBinderDispatch actions.**
- RemoteCall is a caller in another process. It sends either a
  shellCommand parcel or any crafted parcel of up to 4 items, with any
  code. The parcel arrives at position 0, with a reply.
- LocalCall is a caller in this process. shellCommand hands over its parcel
  positioned after what it wrote. Other local calls may pass
  `reply == nullptr`.
- Transact is the whole of `BBinder::transact`: the rewind, the gate, PING,
  and onTransact.

**IAppOpsService.** `alog` records each transaction on the stub: the
code, the parcel sent, who sent it (a proxy method with its arguments, or
`raw`), the mode the implementation answered, whether the service was
alive, the status, the implementation method called with its arguments,
and what the proxy returned. `ProxyData` is each BpAppOpsService method's
data parcel. `ProxyResult` is its reply decoding. `OnTransact` is every
case of BnAppOpsService::onTransact, with one token check standing for each
case's CHECK_INTERFACE, the reads in the code's order, `writeNoException` and the result. Unknown codes go to
BBinder::onTransact, which `BBinderDispatch` models.
- ProxyCall is a method called through the proxy, on a live or a dead
  service. A dead service leaves the reply empty, and the proxy answers
  MODE_ERRORED.
- RawCall is any process sending any code with any parcel of up to 4
  items.
- The implementation is the Java service, which is not in this repository.
  It answers any mode.

**Bounds.**
- Three uids: shell, root and an app. Two strings, one binder. Shell
  commands of up to 2 arguments. argc is one of -1, 1 and 3.
- App-ops values: op code 1, uid 10 and modes 0 and 1. They are distinct,
  so a swapped or misplaced read shows.
- One transaction per behaviour is enough, because no transaction depends
  on an earlier one. The run has 65,739 states.

**Fairness.** None is needed: every property is an invariant.

### RpmsgBench (runs `benchmarks`, `rpmsg_inbuf_overflow`)

**State.**
- Set-up: `conn`, the client socket (none, connection in progress, up,
  failed), and `srv`, the server's main (before listen, listening, past
  the one accept, exited).
- Client: `cpc` (socket, connect, connect poll, send loop, receive loop,
  returned), `snd`, `sendsize`,
  `recvsize` and `off` (that is, `tmp - inbuf`), and `round` (which call
  of transData this is).
- Ghost state: `got` (the bytes this call really received) and `overflow`
  (a recv wrote outside inbuf).
- Server: the echo thread's `spc` (not yet created, receiving, sending,
  gone with its process), and `ssnd` (what is left of buf to send
  back).
- The stream: `c2s` and `s2c`, the bytes in flight each way, each bounded
  by the receiver's socket buffer `SockBuf`.

The bytes are all 'A', so they are counted, not listed. `recvsize` is kept
modulo `2^SizeBits`, as a `size_t` is. `off` is a plain integer.

**Actions.**
- ClientSocket, ClientConnect and ClientConnectPoll are
  rpsock_stream_client. connect returns 0 once the server listens, or
  EINPROGRESS, and then the client polls for POLLOUT. Establish is the
  socket layer completing a connection in progress to a listener.
- ServerSetup is socket, bind and listen. ServerListen is one turn of the
  accept loop: poll, accept, malloc and the detached echo thread. A failure
  of any of them ends main, and the process exits with its echo thread.
- Each set-up call may fail when `Faults` holds `"setup"`. A failed socket
  leaves the client's later polls and sends spinning without progress, so
  they are stutters.
- ClientSend is poll(POLLOUT) and one send. It needs the connection up.
- ClientRecv is poll(POLLIN) and one recv. Its results are 1 to bufsize
  bytes, or -1 when a fault may happen. The -1 is added to `recvsize` and
  `tmp`, as line 81 does.
- NextCall is the benchmark loop calling transData again.
- ServerRecv is the echo thread's recv into its 255-byte buf (`ServerBuf`).
- ServerSend is its send. A result of 0 or an error breaks the send loop
  and drops the rest of buf.

A send or recv failing with EAGAIN only loops back to poll, so it is a
stutter.

**Bounds.**
- `benchmarks` has bufsize 5, three calls and no faults. Up to 3 + 2 + 3
  bytes fit in flight, so the client can send a whole buffer before it
  reads. Splits of 1 to 3 bytes happen at every send and recv. `SizeBits =
  3` is enough, because 2^3 exceeds bufsize.
- `rpmsg_inbuf_overflow` allows one failed recv in two calls.
- With bufsize 4 and one byte of room in each buffer, the same model shows
  client and server both waiting in poll forever (see the deadlock hazard).

**Fairness.** Weak fairness on the set-up steps of both mains, on the two
threads' sends and receives and on the benchmark loop, since the scheduler
keeps every thread running. The socket layer completing a connection to a
listener is fair too.
Faults are not fair. The benchmark ends after `MaxRounds` calls with the
server waiting in poll, so deadlock is not checked.

### BinderRpcBench and MC_Benchmarks (runs `benchmarks`, `rpc_spawn_args`)

**State.**
- The build and the environment: `hasTls` (openssl present) and `env`
  (`getenv("TMPDIR")`, a string or NULL). Both are chosen in Init, so one
  run covers several builds and environments.
- `sock[p]` for every path the code can build: nothing, a dead socket
  file, a file with a server from an earlier run still listening
  (`orphan`), or this run's server with its transport.
- The benchmark process: `ppc`, setupClient's `tries`, `root[s]` (what
  session `s`'s getRootObject returns) and `bench` (the running
  benchmark).
- `child[s]`: the copy spawned for session `s`, with its argv[1] and
  argv[2].
- binderCpc: `cpcSrv`, `cpcCli` and `cpcRoot`.

Paths are strings, built with `\o` as the code builds them, so that the
swapped arguments of spawnRpcServer are seen as the strings they are.

**Actions.**
- SpawnRpc and SpawnTls are main's unlink plus spawnRpcServer, with the
  arguments main passes. posix_spawn failing is LOG(FATAL).
- SetupRpc and SetupTls are one try of setupClient each: connect, break on
  success, or CHECK_EQ after the fifth failure.
- RunBenchmark is one registered benchmark: getBinderForOptions (LOG(FATAL)
  on RPC_TLS without openssl), then ping's unchecked call or the others'
  CHECKs.
- ChildMain is the spawned copy's main: the argv dispatch, then
  defaultRpcServer's bind and its CHECK.
- CpcServerMain, CpcClientSetup and CpcBench are the two binderCpc
  programs.

**Composition.** `MC_Benchmarks` instantiates `RpmsgBench` and
`BinderRpcBench` side by side, with each step of one leaving the other's
variables unchanged. The two benchmarks share nothing, so the product
checks both in one run.

**Bounds.**
- `benchmarks` sets `TMPDIR` to `""`, the one environment in which the
  spawned server starts, and tries both builds. Every path starts empty,
  dead or orphaned, so stale files meet the unlink. It reaches 283,503
  states.
- `rpc_spawn_args` leaves `TMPDIR` unset, as it usually is, with the
  rpmsg part at its smallest.

**Fairness.** Weak fairness on each program's steps. Every process runs
while it can. A spawned server serves forever and the benchmark process
ends, so deadlock is not checked.

### AppOpsManager (runs `appops`, `appops_null_deref`)

**State.**
- Client: `mService`, `mLock`, `gClientId`, `gClientIdMutex`,
  `appOpsToNote`.
- Per thread: `pc`, the operation and opcode, getService's locals `got`,
  `waited` (startTime set) and `elapsed` (sleeps since the first miss), and
  the operation's `service`.
- The service: its latest incarnation `svc` and whether it is `up`.

**Actions.**
- GsLock, GsLoop, GsCheck and GsSleep are the getService loop.
- CallOp, Use and Transact are the operation around it. The one-call
  operations are grouped as `check`.
- CidLock, CidCheck and CidNew are getClientId.
- Notes and Collect are shouldCollectNotes with its second getService.
- Publish and Die are the service.

**Time.** Time is counted in sleeps. Past the deadline every count is the
same to the code, so the count stops at `GiveUpAfter + 1`.

**Dead service.** A transaction on a dead service fails and leaves the
reply empty. libbinder's `readExceptionCode` turns the short read into
EX_TRANSACTION_FAILED, so the proxy returns MODE_ERRORED
(IAppOpsService.cpp:48).

**Bounds.**
- 2 threads, one opcode and 2 incarnations, so a service can die while a
  thread holds it.
- A deadline of one sleep.
- One operation per thread. Two per thread reach 2.6 M states, which is
  too slow for the mutant runs.

**Fairness.** Weak fairness on each thread. The service is not fair. Each
thread makes a bounded number of calls, so the unfair `mLock` cannot starve
anyone forever.

## 3. What the runs show

- **`bprefbase`, `bbinder_extras`, `bbinder_dispatch`, `sm_client`,
  `sm_directory`, `appops`, `dumpsys` and `benchmarks` pass.** `bprefbase`
  also shows that BpRefBase implements `ProxyInterest`. Each of their properties is broken by a mutant in
  `PROJECT.json` that mimics a plausible code bug. Examples: a promotion
  that ignores the remote's strong count; a destructor that always drops
  the provisional ref; a plain store in place of the CAS; a failed
  allocation that goes on without an Extras; an `if` in place of the `while`
  re-check under the lock; a denial returned without `isBinderAlive`; a
  cache clear without the comparison; a lock not released; a 6th
  getService check; a skipped listing index; a listing that retries on
  error; a join after a timeout; EOF taken before the
  buffered data; a transact without the rewind; an argument loop without
  `dataAvail()`; getClientId without its mutex; a getService that never
  gives up; a proxy that reads the mode where the exception code is; a
  server recv larger than its buf; a receive loop that
  counts the bytes asked for; a send loop that counts sends instead of
  bytes; a loop exit one byte late; a spawn without the unlink.
- **`appops_null_deref` is violated.** noteOp gets a live service. The
  service dies. shouldCollectNotes' second getService waits out the
  deadline and returns NULL, and line 196 dereferences it.
- **`rpc_spawn_args` is violated.** spawnRpcServer's parameters are
  `(name, type, addr)`, and main calls it with the socket path as `type`
  and the mark as `addr` (binderRpcBenchmark.cpp:297). The child's argv[1]
  is then `/tmp/binderRpcBenchmark`, which is not the mark its main tests,
  so it returns 1 from ReportUnrecognizedArguments. The parent's
  setupClient aborts after five tries. Only with `TMPDIR=""` are path and
  mark equal. Even then the TLS spawn (line 303) passes the raw path, the
  child serves a raw server on the TLS path, and the TLS setupClient
  aborts; the `benchmarks` run reaches that abort.
- **`rpmsg_inbuf_overflow` is violated.** In the first call, a recv at
  recvsize 0 fails. recvsize wraps to 7, which is `SIZE_MAX` for 3 bits,
  and transData returns with the echo still in the socket. The second
  call's first recv takes part of the stale echo. Its next recv asks for
  bufsize bytes at `inbuf + recvsize`, and it gets more than the space
  left (rpmsgClientBench.cpp:75-82). The heap buffer overflows.

## 4. Not modelled, and why

- **A NULL reply for INTERFACE_TRANSACTION.** BBinder::onTransact writes
  the descriptor through `reply` without the NULL check that transact
  makes (Binder.cpp:253). The model records that write in `crashed`, and
  TLC reaches it with a local `transact(INTERFACE_TRANSACTION, data,
  nullptr)`. No run checks it: no caller in this repository passes a NULL
  reply for that code, and the runs are kept for the hazards callers meet.
- **The racing writes to `appOpsToNote`.** They are modelled, but nothing
  the code promises depends on which write wins. The answer comes from
  `IAppOpsService::shouldCollectNotes`, which is not in this repository:
  IAppOpsService.cpp has no such method, and its noteOperation and
  startOperation take fewer arguments than AppOpsManager.cpp passes.
- **dumpsys' idle deadline.** The spec's §6 says dumpsys reads "until EOF
  or a 10-second idle deadline". The code fixes one deadline when the
  thread starts (dumpsys.cpp:178-179), and the model keeps the code's
  deadline. A dump that writes just before the deadline is abandoned
  after less time than 10 s of silence, and one that always has data
  ready is never cut off. No run states the spec's form, which this code
  does not claim to implement.
- **Checks that would restate one step of a model.** The shell-command
  gate (Binder.cpp:137-141), addService's status (IServiceManager.cpp:172),
  the stub's CHECK_INTERFACE (IAppOpsService.cpp:113-166), getService's
  give-up test (AppOpsManager.cpp:86) and setupClient's CHECK_EQ
  (binderRpcBenchmark.cpp:251) are each one guard of one action. They are
  modelled, and the hazards that name them say so, but no run states them
  as properties: a property would only repeat the guard.
- **The ObjectManager's cleanup callbacks.** detachObject and ~BBinder hand
  them to the ObjectManager, which is not in this repository.
- **The reply rewind in transact.** It is modelled as part of the step. No
  property reads the reply.
- **Set-up faults of the rpmsg benchmark in a run.** They are in the model
  (`Faults` holding `"setup"`), but no run enables them. Neither main
  recovers from a failed set-up, so the client can only wait forever. The
  rpmsg socket layer (how connect completes) is not in this repository.
  Only one client connection is modelled, as the client's main makes one.
- **Server-send faults in a run.** ServerSend's failure results are in the
  model, but no run enables them. With a lost echo the client can only
  hang, and the deadlock hazard's note says so.
- **main.cpp of dumpsys.** It calls a `Dumpsys` class that is not in this
  repository.
- **What dumpsys prints.** Only the data copied is counted.
- **Detached dump threads.** After detach they no longer touch main's
  state, so they are dropped from the model.
- **MemoryBase, Utils and the NDK headers.** These are accessors, I/O
  helpers and declarations with no state worth checking.
- **The benchmarks' timed iterations and the kernel transport.** Each
  iteration on a connected binder is a call that succeeds; the model runs
  a benchmark in one step. The kernel transport is built only with
  `__BIONIC__`, and its spawn (binderRpcBenchmark.cpp:283) does not
  compile.
- **binderCpc's client before its server.** The client has no retry and
  its LOG(FATAL) on a NULL root is the code's own check. The model reaches
  it, and no property asks for more.
- **RefBase, the ObjectManager, servicemanager and ProcessState.** These
  are outside `src/` and appear only as the behaviour the spec gives them.

## 5. Further work

1. A liveness property for the abstract `ProxyInterest`. It cannot be
   stated from the abstract state alone: the proxy gives its reference
   back only after the program drops its sp<> and wp<>, and the code does
   not make that fair. It would need those references in the abstraction.
2. The reply half of `BBinder::transact` (the rewind and its use by
   callers), if a caller in the repository reads a reply before its
   position is reset.
3. Larger bounds for `appops` (two operations per thread). Symmetry of
   the threads is not sound with the liveness property `OpsReturn`, and
   without it the run reaches 2.6 M states.
