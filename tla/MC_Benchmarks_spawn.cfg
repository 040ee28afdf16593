\* binderRpc with TMPDIR unset, so tmp is "/tmp", in a build without
\* openssl; the rpmsg part as small as it goes.
CONSTANTS
    BufSize = 1
    SockBuf = 1
    ServerBuf = 1
    SizeBits = 2
    MaxRounds = 1
    MaxFaults = 0
    Faults = {}
    TmpDirs = {NULL}
    TlsBuilds = {FALSE}
    NULL = NULL
SPECIFICATION Spec
INVARIANT SpawnedServerServes
CHECK_DEADLOCK FALSE
