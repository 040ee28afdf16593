\* Two services, so that one is dumped after the other was abandoned; a
\* deadline of 2 ticks and dumps of up to 2 chunks, so that data can arrive
\* before, at and after the deadline.
CONSTANTS
    HELP_ = HELP_
    LIST_ = LIST_
    SKIP_ = SKIP_
    HELP <- HELP_
    LIST <- LIST_
    SKIP <- SKIP_
    Services <- MCServices
    ArgvSet <- MCArgvSet
    Timeout = 2
    MaxChunks = 2
SPECIFICATION Spec
INVARIANT TypeOK
INVARIANT EOFCopiesAll
PROPERTY DumpsysTerminates
\* main returns at the end; nothing runs after the process exits.
CHECK_DEADLOCK FALSE
