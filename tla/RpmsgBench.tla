----------------------------- MODULE RpmsgBench ------------------------------
(***************************************************************************)
(* The rpmsg socket throughput benchmark: the client's transData           *)
(* (src/libs/binder/tests/rpmsgClientBench.cpp:32-87), called again and    *)
(* again by BM_throughputSendAndRecv (121-134), against the server's       *)
(* per-connection echo thread rpsock_thread (rpmsgServerBench.cpp:34-94).  *)
(* Before them, the two mains set up the connection: the client's         *)
(* rpsock_stream_client (rpmsgClientBench.cpp:89-119, 138-147) and the     *)
(* server's rpsock_stream_server (rpmsgServerBench.cpp:96-161), started in *)
(* either order.                                                           *)
(*                                                                         *)
(* transData sends all bufsize bytes (waiting for POLLOUT before each      *)
(* send), then receives into inbuf until recvsize >= sendsize, each recv   *)
(* asking for bufsize bytes at inbuf + recvsize.  The echo thread receives *)
(* up to 255 bytes and sends them back before it receives again.  Bytes   *)
(* are all 'A' and are abstracted to counts: c2s and s2c are the bytes in  *)
(* the two directions of the stream, bounded by the receiving socket's     *)
(* buffer.  recvsize is a size_t, kept modulo 2^SizeBits; the write        *)
(* offset tmp - inbuf is a plain integer.                                  *)
(*                                                                         *)
(* Faults: a recv that returns -1 (errno EINTR, ECONNRESET, ...), a server *)
(* send that returns 0 or fails with an errno other than EAGAIN, and a     *)
(* failed socket, bind, listen, connect, poll, accept or malloc of the     *)
(* set-up.  The rpmsg socket layer is not in the repository: a             *)
(* non-blocking connect returns 0 or EINPROGRESS, and the connection is    *)
(* established once the server listens.                                    *)
(* A send that fails with EAGAIN and a recv that fails with EAGAIN only    *)
(* loop back to poll, leaving the state as it was, so they are stuttering. *)
(***************************************************************************)
EXTENDS Integers

CONSTANTS
    BufSize,     \* bufsize of transData
    SockBuf,     \* bytes the receiving side of a socket holds
    ServerBuf,   \* sizeof(buf) of rpsock_thread (255)
    SizeBits,    \* width of size_t
    MaxRounds,   \* transData calls the benchmark makes
    MaxFaults,   \* faults in a behaviour
    Faults       \* fault kinds that may happen: subset of {"recv", "send", "setup"}

ASSUME BufSize > 0 /\ SockBuf > 0 /\ ServerBuf > 0 /\ 2^SizeBits > BufSize

VARIABLES
    cpc,        \* client: "send" loop, "recv" loop, "done" (returned)
    snd,        \* transData's snd
    sendsize,   \* transData's sendsize
    recvsize,   \* transData's recvsize (size_t)
    off,        \* tmp - inbuf in the receive loop
    got,        \* bytes really received in this call
    overflow,   \* a recv wrote outside inbuf[0 .. bufsize-1]
    round,      \* number of the current transData call
    c2s, s2c,   \* bytes in flight client -> server and server -> client
    spc,        \* echo thread: "none" (not created), "recv", "send", "gone"
    ssnd,       \* rpsock_thread's snd: bytes of buf still to send back
    faults,
    conn,       \* client socket: "none", "pending", "up", "failed"
    srv         \* server main: "start", "listening", "accepted", "exited"

vars == <<cpc, snd, sendsize, recvsize, off, got, overflow, round, c2s, s2c,
          spc, ssnd, faults, conn, srv>>

SizeT(n) == n % (2^SizeBits)
MinOf(a, b) == IF a < b THEN a ELSE b

\* Both mains start; transData's locals are those of its first call.
Init ==
    /\ cpc = "socket" /\ snd = BufSize /\ sendsize = 0 /\ recvsize = 0 /\ off = 0
    /\ got = 0 /\ overflow = FALSE /\ round = 1
    /\ c2s = 0 /\ s2c = 0 /\ spc = "none" /\ ssnd = 0 /\ faults = 0
    /\ conn = "none" /\ srv = "start"

\* What a set-up call returns: success, or failure while a fault may still
\* happen.
SetupResults == {TRUE} \cup (IF "setup" \in Faults /\ faults < MaxFaults THEN {FALSE} ELSE {})
Faulted(ok) == IF ok THEN faults ELSE faults + 1
Listening == srv \in {"listening", "accepted"}

transVars == <<snd, sendsize, recvsize, off, got, overflow, round, c2s, s2c, ssnd>>

(***************************************************************************)
(* Set-up: the client's and the server's main.  A socket that failed, or   *)
(* whose peer is gone, makes the later polls and sends return at once and  *)
(* fail, so transData's loops spin without progress: they stutter here.    *)
(***************************************************************************)
\* rpsock_stream_client: sockfd = socket(...); on failure it returns and
\* main runs the benchmark on sockfd < 0.
ClientSocket ==
    /\ cpc = "socket"
    /\ \E ok \in SetupResults :
         /\ cpc' = IF ok THEN "connect" ELSE "send"
         /\ faults' = Faulted(ok)
    /\ UNCHANGED <<transVars, spc, conn, srv>>

\* ret = connect(sockfd, ...): 0 once the server listens, or -1 with
\* EINPROGRESS, and then poll(POLLOUT, -1); any other failure is logged.
\* Either way the return value is ignored and the benchmark starts.
ConnectResults ==
    (IF Listening THEN {"ok"} ELSE {}) \cup {"inprogress"}
    \cup (IF "setup" \in Faults /\ faults < MaxFaults THEN {"fail"} ELSE {})

ClientConnect ==
    /\ cpc = "connect"
    /\ \E r \in ConnectResults :
         /\ conn' = CASE r = "ok" -> "up" [] r = "inprogress" -> "pending" [] OTHER -> "failed"
         /\ cpc' = IF r = "inprogress" THEN "poll" ELSE "send"
         /\ faults' = IF r = "fail" THEN faults + 1 ELSE faults
    /\ UNCHANGED <<transVars, spc, srv>>

\* poll(&pfd, 1, -1) returns once the connection is writable, or fails and
\* the failure is logged.
ClientConnectPoll ==
    /\ cpc = "poll"
    /\ \E ok \in SetupResults :
         /\ ok => conn = "up"
         /\ cpc' = "send"
         /\ faults' = Faulted(ok)
    /\ UNCHANGED <<transVars, spc, conn, srv>>

\* The socket layer completes a connection in progress to a listener.
Establish ==
    /\ conn = "pending" /\ Listening
    /\ conn' = "up"
    /\ UNCHANGED <<cpc, transVars, spc, faults, srv>>

\* rpsock_stream_server: socket, bind and listen; a failure returns from
\* main.
ServerSetup ==
    /\ srv = "start"
    /\ \E ok \in SetupResults :
         /\ srv' = IF ok THEN "listening" ELSE "exited"
         /\ faults' = Faulted(ok)
    /\ UNCHANGED <<cpc, transVars, spc, conn>>

\* One turn of the accept loop: poll(POLLIN, -1) on listensd, accept, malloc
\* the thread's args, pthread_create and pthread_detach.  A failed poll,
\* accept or malloc breaks the loop and main returns: the process exits
\* and takes the echo thread with it.
ServerListen ==
    /\ Listening
    /\ \E ok \in SetupResults :
         /\ ok => (srv = "listening" /\ conn = "up")
         /\ srv' = IF ok THEN "accepted" ELSE "exited"
         /\ spc' = IF ok THEN "recv" ELSE IF spc = "none" THEN "none" ELSE "gone"
         /\ faults' = Faulted(ok)
    /\ UNCHANGED <<cpc, transVars, conn>>

(***************************************************************************)
(* Client, transData.                                                      *)
(***************************************************************************)
\* Mutant: the loop ends only once more than sendsize has arrived.
AfterRecvLate(rs) == IF rs > sendsize THEN "done" ELSE "recv"

\* The receive loop's exit test, made after every recv.
AfterRecv(rs) == IF rs >= sendsize THEN "done" ELSE "recv"

\* Mutant: snd goes down by one per send, whatever send returned.
ClientSendCountsOne ==
    /\ cpc = "send" /\ conn = "up" /\ c2s < SockBuf
    /\ \E k \in 1..MinOf(snd, SockBuf - c2s) :
         /\ c2s' = c2s + k
         /\ sendsize' = sendsize + k
         /\ snd' = snd - 1
         /\ cpc' = IF snd - 1 > 0 THEN "send" ELSE "recv"
    /\ UNCHANGED <<recvsize, off, got, overflow, round, s2c, spc, ssnd, faults, conn, srv>>

\* poll(POLLOUT) returns once the server's socket has room; send hands over
\* part of what is left.  When snd reaches 0 the receive loop starts with
\* recvsize = 0 and tmp = inbuf.
ClientSend ==
    /\ cpc = "send" /\ conn = "up" /\ c2s < SockBuf
    /\ \E k \in 1..MinOf(snd, SockBuf - c2s) :
         /\ c2s' = c2s + k
         /\ sendsize' = sendsize + k
         /\ snd' = snd - k
         /\ cpc' = IF snd - k > 0 THEN "send" ELSE "recv"
    /\ UNCHANGED <<recvsize, off, got, overflow, round, s2c, spc, ssnd, faults, conn, srv>>

\* What recv returns on a readable socket: up to bufsize of the bytes
\* there, or -1 (errno set) while a fault may still happen.
RecvResults == (1..MinOf(s2c, BufSize))
               \cup (IF "recv" \in Faults /\ faults < MaxFaults THEN {-1} ELSE {})
Delivered(act) == IF act > 0 THEN act ELSE 0

\* Mutant: recvsize counts the bytes asked for, not the bytes returned.
ClientRecvCountsAsked ==
    /\ cpc = "recv" /\ s2c > 0
    /\ \E act \in RecvResults :
         /\ s2c' = s2c - Delivered(act)
         /\ got' = got + Delivered(act)
         /\ overflow' = (overflow \/ (act > 0 /\ (off < 0 \/ off + act > BufSize)))
         /\ faults' = IF act < 0 THEN faults + 1 ELSE faults
         /\ off' = off + act
         /\ recvsize' = SizeT(recvsize + BufSize)
         /\ cpc' = AfterRecv(SizeT(recvsize + BufSize))
    /\ UNCHANGED <<snd, sendsize, round, c2s, spc, ssnd, conn, srv>>

\* poll(POLLIN) returns once echoed bytes are there; act = recv(sockfd,
\* tmp, bufsize) copies up to bufsize of them to inbuf + (tmp - inbuf).
\* act == -EAGAIN never holds for a failed recv, which returns -1; the
\* failure is logged and act is still added to recvsize and tmp.
ClientRecv ==
    /\ cpc = "recv" /\ s2c > 0
    /\ \E act \in RecvResults :
         /\ s2c' = s2c - Delivered(act)
         /\ got' = got + Delivered(act)
         /\ overflow' = (overflow \/ (act > 0 /\ (off < 0 \/ off + act > BufSize)))
         /\ faults' = IF act < 0 THEN faults + 1 ELSE faults
         /\ off' = off + act
         /\ recvsize' = SizeT(recvsize + act)
         /\ cpc' = AfterRecv(SizeT(recvsize + act))
    /\ UNCHANGED <<snd, sendsize, round, c2s, spc, ssnd, conn, srv>>

\* while (state.KeepRunning()) transData(bufsize, inbuf, outbuf);
NextCall ==
    /\ cpc = "done" /\ round < MaxRounds
    /\ round' = round + 1
    /\ cpc' = "send" /\ snd' = BufSize /\ sendsize' = 0
    /\ recvsize' = 0 /\ off' = 0 /\ got' = 0
    /\ UNCHANGED <<overflow, c2s, s2c, spc, ssnd, faults, conn, srv>>

(***************************************************************************)
(* Server, rpsock_thread.                                                  *)
(***************************************************************************)
\* Mutant: recv is asked for more than sizeof(buf).
ServerRecvPastBuf ==
    /\ spc = "recv" /\ c2s > 0
    /\ \E k \in 1..c2s :
         /\ c2s' = c2s - k
         /\ ssnd' = k
         /\ spc' = "send"
    /\ UNCHANGED <<cpc, snd, sendsize, recvsize, off, got, overflow, round, s2c, faults, conn, srv>>

\* poll(POLLIN), then recv(fd, buf, sizeof(buf)).  The client never closes
\* the socket, so the ret == 0 exit is not reached.
ServerRecv ==
    /\ spc = "recv" /\ c2s > 0
    /\ \E k \in 1..MinOf(c2s, ServerBuf) :
         /\ c2s' = c2s - k
         /\ ssnd' = k
         /\ spc' = "send"
    /\ UNCHANGED <<cpc, snd, sendsize, recvsize, off, got, overflow, round, s2c, faults, conn, srv>>

\* poll(POLLOUT), then ret = send(fd, tmp, snd): ret > 0 bytes go out;
\* ret == 0, or a failure with an errno other than EAGAIN, breaks the send
\* loop and the outer loop receives again, dropping what was left of buf.
SendResults ==
    (1..MinOf(ssnd, SockBuf - s2c))
    \cup (IF "send" \in Faults /\ faults < MaxFaults THEN {0, -1} ELSE {})

ServerSend ==
    /\ spc = "send" /\ s2c < SockBuf
    /\ \E ret \in SendResults :
         IF ret > 0
            THEN /\ s2c' = s2c + ret
                 /\ ssnd' = ssnd - ret
                 /\ spc' = IF ssnd - ret > 0 THEN "send" ELSE "recv"
                 /\ UNCHANGED faults
            ELSE /\ ssnd' = 0 /\ spc' = "recv"
                 /\ faults' = faults + 1
                 /\ UNCHANGED s2c
    /\ UNCHANGED <<cpc, snd, sendsize, recvsize, off, got, overflow, round, c2s, conn, srv>>

Next ==
    \/ ClientSocket \/ ClientConnect \/ ClientConnectPoll \/ Establish
    \/ ServerSetup \/ ServerListen
    \/ ClientSend \/ ClientRecv \/ NextCall
    \/ ServerRecv \/ ServerSend

\* Both are threads the scheduler keeps running, and the socket layer
\* completes a connection to a listener; faults are not fair.
Fairness ==
    /\ WF_vars(ClientSocket) /\ WF_vars(ClientConnect) /\ WF_vars(ClientConnectPoll)
    /\ WF_vars(Establish) /\ WF_vars(ServerSetup) /\ WF_vars(ServerListen)
    /\ WF_vars(ClientSend) /\ WF_vars(ClientRecv) /\ WF_vars(NextCall)
    /\ WF_vars(ServerRecv) /\ WF_vars(ServerSend)

Spec == Init /\ [][Next]_vars /\ Fairness

(***************************************************************************)
(* Properties.                                                             *)
(***************************************************************************)

TypeOK ==
    /\ cpc \in {"socket", "connect", "poll", "send", "recv", "done"}
    /\ spc \in {"none", "recv", "send", "gone"}
    /\ conn \in {"none", "pending", "up", "failed"}
    /\ srv \in {"start", "listening", "accepted", "exited"}
    /\ snd \in 0..BufSize /\ sendsize \in Nat /\ recvsize \in 0..(2^SizeBits - 1)
    /\ off \in Int /\ got \in Nat /\ overflow \in BOOLEAN /\ round \in 1..MaxRounds
    /\ c2s \in 0..SockBuf /\ s2c \in 0..SockBuf /\ ssnd \in 0..ServerBuf
    /\ faults \in 0..MaxFaults

\* When transData returns, the call has received back exactly the bytes it
\* sent and none of them is still in a socket or in the server's buf, so
\* the next call starts from a clean stream.  Broken by the receive loop
\* counting something other than the bytes recv delivered.
EchoExact ==
    cpc = "done" => (got = sendsize /\ c2s = 0 /\ ssnd = 0 /\ s2c = 0)

\* Every recv writes inside inbuf: the bytes it delivers fit between
\* inbuf + (tmp - inbuf) and inbuf + bufsize, across all the benchmark's
\* calls of transData.
NoInbufOverflow == ~overflow

\* The client connects and every call of transData returns, whichever main
\* starts first: neither the connect poll, the send loops nor the receive
\* loop waits in poll forever.
TransDataCompletes == cpc # "done" ~> cpc = "done"
=============================================================================
