------------------------------ MODULE Dumpsys ------------------------------
(***************************************************************************)
(* main() of src/cmds/dumpsys/dumpsys.cpp: parse the arguments, list and   *)
(* sort the services (or take the one named), then, for each service that *)
(* is not skipped and is found, open a socketpair, run                      *)
(* service->dump(remote_end, args) on a thread of its own, and copy what   *)
(* arrives on local_end to stdout until EOF, an error, or the deadline     *)
(* 10 s after the thread was started; the thread is joined after EOF and   *)
(* detached otherwise.                                                     *)
(*                                                                         *)
(* Time is counted in ticks: `left` is what time_left_ms() would return.  *)
(* Service names are numbers, so that sort_func can order them; the flags *)
(* "--help", "-l" and "--skip" are model values.  What is printed is    *)
(* left out; what is copied to stdout is counted in chunks.  A service's *)
(* dump writes `quota` chunks and returns, or hangs after writing them     *)
(* until its process dies.                                                 *)
(***************************************************************************)
EXTENDS Naturals, Sequences, SequencesExt, TLC

CONSTANTS
    Services,       \* names of the services registered at the start
    HELP, LIST, SKIP,   \* argv strings "--help", "-l", "--skip"
    ArgvSet,        \* the command lines tried: argv[1..argc-1]; the
                    \* argument of --skip is given as its strtok tokens
    Timeout,        \* ticks of the 10 s deadline
    MaxChunks       \* most chunks a dump writes

VARIABLES
    argv,
    pc,             \* main: "start", "loop", "poll", "read", "write",
                    \* "end" or "exit"
    exitCode,
    dir,            \* services still registered
    services, skippedServices, i,
    th,             \* the current dump thread: "none", "running", "exited"
    cur,            \* the service it dumps
    hangs, quota, sent,
    buf,            \* chunks in the socket not yet read
    closed,         \* remote_end closed: EOF once buf is drained
    joinable,       \* the std::thread is neither joined nor detached
    left, timed_out, error,
    written         \* chunks of the current dump copied to stdout

vars == <<argv, pc, exitCode, dir, services, skippedServices, i, th, cur, hangs,
          quota, sent, buf, closed, joinable, left, timed_out, error,
          written>>
dumpVars == <<th, cur, hangs, quota, sent, buf, closed, joinable, left,
              timed_out, error, written>>

Flags == {HELP, LIST, SKIP}

TypeOK ==
    /\ argv \in ArgvSet
    /\ pc \in {"start", "loop", "poll", "read", "write", "end", "exit"}
    /\ exitCode \in {0, -1}
    /\ dir \in SUBSET Services
    /\ services \in Seq(Nat \cup Flags)
    /\ skippedServices \in Seq(Nat)
    /\ i \in Nat
    /\ th \in {"none", "running", "exited"} /\ cur \in Nat \cup Flags
    /\ hangs \in BOOLEAN /\ quota \in 0..MaxChunks /\ sent \in 0..MaxChunks
    /\ buf \in 0..MaxChunks /\ closed \in BOOLEAN /\ joinable \in BOOLEAN
    /\ left \in 0..Timeout
    /\ timed_out \in BOOLEAN /\ error \in BOOLEAN
    /\ written \in 0..MaxChunks

\* IsSkipped(skipped, service): some candidate equals service
RECURSIVE IsSkippedFrom(_, _, _)
IsSkippedFrom(skipped, service, k) ==
    IF k > Len(skipped) THEN FALSE
    ELSE skipped[k] = service \/ IsSkippedFrom(skipped, service, k + 1)
IsSkipped(skipped, service) == IsSkippedFrom(skipped, service, 1)

\* services.sort(sort_func): ascending by name
SortServices(s) == SortSeq(s, LAMBDA a, b : a < b)

Init ==
    /\ argv \in ArgvSet
    /\ pc = "start" /\ exitCode = 0
    /\ dir = Services
    /\ services = <<>> /\ skippedServices = <<>> /\ i = 1
    /\ th = "none" /\ cur = 0 /\ hangs = FALSE /\ quota = 0 /\ sent = 0 /\ buf = 0
    /\ closed = FALSE /\ joinable = FALSE /\ left = 0
    /\ timed_out = FALSE /\ error = FALSE /\ written = 0

-----------------------------------------------------------------------------
(* Argument handling, dumpsys.cpp:76-134: --help prints usage; -l lists    *)
(* only; --skip S dumps all but the tokens of S; no argument dumps all;    *)
(* otherwise argv[1] names the one service, unless it is --skip or -l,     *)
(* which is a usage error.  Listing all is sm->listServices() (any order   *)
(* the directory returns) sorted.  The "Currently running services" pass   *)
(* only prints, and -l returns after it.                                   *)
Start ==
    /\ pc = "start"
    /\ LET argc == Len(argv) + 1
           help == argc = 2 /\ argv[1] = HELP
           listOnly == argc = 2 /\ argv[1] = LIST
           skipped == IF argc = 3 /\ argv[1] = SKIP THEN argv[2] ELSE <<>>
           dumpAll == argc = 1
       IN
       CASE help ->
              pc' = "exit" /\ exitCode' = 0
              /\ UNCHANGED <<services, skippedServices>>
         [] dumpAll \/ skipped # <<>> \/ listOnly ->
              /\ \E listed \in SetToSeqs(dir) :
                   services' = SortServices(listed)
              /\ skippedServices' = skipped
              /\ pc' = IF listOnly THEN "exit" ELSE "loop"
              /\ exitCode' = 0
         [] argv[1] \in {SKIP, LIST} ->
              pc' = "exit" /\ exitCode' = -1
              /\ UNCHANGED <<services, skippedServices>>
         [] OTHER ->
              /\ services' = <<argv[1]>> /\ skippedServices' = <<>>
              /\ pc' = "loop" /\ exitCode' = 0
    /\ UNCHANGED <<argv, dir, i>> /\ UNCHANGED dumpVars

(* One turn of the per-service loop, dumpsys.cpp:136-162: skip a skipped   *)
(* service; checkService; "Can't find service"; socketpair failure;        *)
(* otherwise start the dump thread and the 10 s deadline.                   *)
Loop ==
    /\ pc = "loop"
    /\ IF i > Len(services)
         THEN pc' = "exit" /\ UNCHANGED i /\ UNCHANGED dumpVars
         ELSE LET s == services[i] IN
              IF IsSkipped(skippedServices, s) \/ s \notin dir
                THEN i' = i + 1 /\ UNCHANGED pc
                     /\ UNCHANGED dumpVars
                ELSE
                \/ i' = i + 1 /\ UNCHANGED pc  \* socketpair fails
                   /\ UNCHANGED dumpVars
                \/ /\ th' = "running" /\ cur' = s /\ joinable' = TRUE
                   /\ hangs' \in BOOLEAN /\ quota' \in 0..MaxChunks
                   /\ sent' = 0 /\ buf' = 0 /\ closed' = FALSE
                   /\ left' = Timeout
                   /\ timed_out' = FALSE /\ error' = FALSE /\ written' = 0
                   /\ pc' = "poll" /\ UNCHANGED i
    /\ UNCHANGED <<argv, exitCode, dir, services, skippedServices>>

Readable == buf > 0 \/ closed

\* rc = poll(&pfd, 1, time_left_ms()): ready, 0 at the deadline, or < 0
Poll ==
    /\ pc = "poll"
    /\ \/ Readable /\ pc' = "read" /\ UNCHANGED <<timed_out, error>>
       \/ ~Readable /\ left = 0 /\ timed_out' = TRUE /\ pc' = "end"
          /\ UNCHANGED error
       \/ error' = TRUE /\ pc' = "end" /\ UNCHANGED timed_out
    /\ UNCHANGED <<argv, exitCode, dir, services, skippedServices, i, th, cur,
                   hangs, quota, sent, buf, closed, joinable, left,
                   written>>

\* Mutant: a hang-up is taken for EOF before the data still buffered.
ReadHupFirst ==
    /\ pc = "read"
    /\ \/ buf > 0 /\ ~closed /\ buf' = buf - 1 /\ pc' = "write"
          /\ UNCHANGED error
       \/ closed /\ pc' = "end" /\ UNCHANGED <<buf, error>>
       \/ error' = TRUE /\ pc' = "end" /\ UNCHANGED buf
    /\ UNCHANGED <<argv, exitCode, dir, services, skippedServices, i, th, cur,
                   hangs, quota, sent, closed, joinable, left, timed_out,
                   written>>

\* rc = read(local_end, buf, 4096): data, 0 at EOF, or < 0
Read ==
    /\ pc = "read"
    /\ \/ buf > 0 /\ buf' = buf - 1 /\ pc' = "write"
          /\ UNCHANGED error
       \/ buf = 0 /\ closed /\ pc' = "end" /\ UNCHANGED <<buf, error>>
       \/ error' = TRUE /\ pc' = "end" /\ UNCHANGED buf
    /\ UNCHANGED <<argv, exitCode, dir, services, skippedServices, i, th, cur,
                   hangs, quota, sent, closed, joinable, left, timed_out,
                   written>>

\* WriteFully(STDOUT_FILENO, buf, rc), which fails if stdout is gone
Write ==
    /\ pc = "write"
    /\ \/ written' = written + 1 /\ pc' = "poll" /\ UNCHANGED error
       \/ error' = TRUE /\ pc' = "end" /\ UNCHANGED written
    /\ UNCHANGED <<argv, exitCode, dir, services, skippedServices, i, th, cur,
                   hangs, quota, sent, buf, closed, joinable, left,
                   timed_out>>

\* Mutant: the thread is joined after a timeout too.
EndAlwaysJoin ==
    /\ pc = "end"
    /\ th = "exited"
    /\ joinable' = FALSE
    /\ i' = i + 1 /\ pc' = "loop"
    /\ UNCHANGED <<argv, exitCode, dir, services, skippedServices, th, cur,
                   hangs, quota, sent, buf, closed, left, timed_out,
                   error, written>>

(* if (timed_out || error) dump_thread.detach(); else dump_thread.join();  *)
(* join waits for the thread to end.  Then local_end is closed; a          *)
(* detached thread goes on alone and no longer touches main's state.       *)
End ==
    /\ pc = "end"
    /\ \/ timed_out \/ error              \* detach
       \/ ~(timed_out \/ error) /\ th = "exited"   \* join returns
    /\ joinable' = FALSE
    /\ i' = i + 1 /\ pc' = "loop"
    /\ UNCHANGED <<argv, exitCode, dir, services, skippedServices, th, cur,
                   hangs, quota, sent, buf, closed, left, timed_out,
                   error, written>>

-----------------------------------------------------------------------------
(* The dump thread, dumpsys.cpp:162-175, and the service behind it.        *)

\* the service writes a chunk to its end of the socket
DumpWrite ==
    /\ th = "running" /\ sent < quota /\ cur \in dir
    /\ sent' = sent + 1 /\ buf' = buf + 1
    /\ UNCHANGED <<argv, pc, exitCode, dir, services, skippedServices, i,
                   th, cur, hangs, quota, closed, joinable, left,
                   timed_out, error, written>>

\* service->dump returns -- when done, or failed because the service
\* died -- then remote_end.clear()
DumpReturn ==
    /\ th = "running"
    /\ (sent = quota /\ ~hangs) \/ cur \notin dir
    /\ th' = "exited" /\ closed' = TRUE
    /\ UNCHANGED <<argv, pc, exitCode, dir, services, skippedServices, i,
                   cur, hangs, quota, sent, buf, joinable, left,
                   timed_out, error, written>>

\* Mutant: time_left_ms() without the std::max(..., 0) clamp.
TickNoClamp ==
    /\ pc \in {"poll", "read", "write"}
    /\ left' = left - 1
    /\ UNCHANGED <<argv, pc, exitCode, dir, services, skippedServices, i,
                   th, cur, hangs, quota, sent, buf, closed, joinable,
                   timed_out, error, written>>

\* a tick of steady_clock while main copies a dump
Tick ==
    /\ pc \in {"poll", "read", "write"} /\ left > 0
    /\ left' = left - 1
    /\ UNCHANGED <<argv, pc, exitCode, dir, services, skippedServices, i,
                   th, cur, hangs, quota, sent, buf, closed, joinable,
                   timed_out, error, written>>

\* a registered service's process dies
Die(s) ==
    /\ s \in dir /\ dir' = dir \ {s}
    /\ UNCHANGED <<argv, pc, exitCode, services, skippedServices, i>>
    /\ UNCHANGED dumpVars

Main == Start \/ Loop \/ Poll \/ Read \/ Write \/ End
Thread == DumpWrite \/ DumpReturn

Next == Main \/ Thread \/ Tick \/ \E s \in Services : Die(s)

(* main, the dump thread and the clock are scheduled; a dump that hangs    *)
(* is not forced to return, and deaths are not forced.                      *)
Spec == Init /\ [][Next]_vars /\ WF_vars(Main) /\ WF_vars(Thread)
            /\ WF_vars(Tick)

-----------------------------------------------------------------------------
(* dumpsys always finishes: a hanging dump is abandoned at the deadline,   *)
(* and main never joins a thread that may not end (dumpsys.cpp:177-235).   *)
DumpsysTerminates == <>(pc = "exit")

(* After EOF every chunk the service wrote has been copied to stdout,      *)
(* exactly once, before the thread is joined (dumpsys.cpp:188-225).        *)
EOFCopiesAll ==
    pc = "end" /\ ~timed_out /\ ~error => written = sent

=============================================================================
