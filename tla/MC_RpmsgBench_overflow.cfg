\* One failed recv in the first of two calls of transData.
CONSTANTS
    BufSize = 3
    SockBuf = 2
    ServerBuf = 2
    SizeBits = 3
    MaxRounds = 2
    MaxFaults = 1
    Faults = {"recv"}
SPECIFICATION Spec
INVARIANT NoInbufOverflow
CHECK_DEADLOCK FALSE
