\* Two threads that race on getService(), getClientId() and the one
\* opcode's appOpsToNote entry; two service incarnations, so one can die
\* while a thread holds it; a deadline of one sleep.
CONSTANTS
    t1 = t1
    t2 = t2
    o1 = o1
    NULL = NULL
    MaxIncarnations = 2
    GiveUpAfter = 1
    MaxCalls = 1
    Threads <- MCThreads
    Opcodes <- MCOpcodes
SPECIFICATION Spec
INVARIANT TypeOK
INVARIANT ClientIdUnique
PROPERTY OpsReturn
\* Each thread makes MaxCalls calls, and a crash ends the process.
CHECK_DEADLOCK FALSE
