\* rpmsg: bufsize 5, three calls, 3 + 2 + 3 bytes in flight (as in
\* MC_RpmsgBench.cfg).  binderRpc: TMPDIR set to the empty string, the one
\* value for which the spawned copy takes the server branch; builds with
\* and without openssl; any mix of stale socket files at the paths.
CONSTANTS
    BufSize = 5
    SockBuf = 3
    ServerBuf = 2
    SizeBits = 3
    MaxRounds = 3
    MaxFaults = 0
    Faults = {}
    TmpDirs = {""}
    TlsBuilds = {FALSE, TRUE}
    NULL = NULL
SPECIFICATION Spec
INVARIANT TypeOK
INVARIANT EchoExact
INVARIANT NoInbufOverflow
INVARIANT ConnectsToOwnServer
PROPERTY TransDataCompletes
\* Every program ends: transData after MaxRounds calls with the echo
\* thread in poll, the RPC benchmark aborted or done, the servers in join().
CHECK_DEADLOCK FALSE
