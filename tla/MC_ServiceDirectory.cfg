\* Two threads, so that a registration or a death can fall inside another
\* thread's getService or listServices; two names, so that a new name can
\* go before or after one the listing has already read.
CONSTANTS
    t1 = t1
    t2 = t2
    s1 = s1
    s2 = s2
    NULL = NULL
    MaxCalls = 2
    Threads <- MCThreads
    Names <- MCNames
SPECIFICATION Spec
INVARIANT TypeOK
INVARIANT GetServiceRetryBound
PROPERTY ListingExact
PROPERTY DirectoryCallsReturn
\* Each thread makes MaxCalls calls; then only deaths remain, and after
\* them nothing.
CHECK_DEADLOCK FALSE
