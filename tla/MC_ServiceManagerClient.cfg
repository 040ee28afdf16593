\* Two client threads; two permission controllers, so that one can die
\* and be replaced while the other thread still holds it.
CONSTANTS
    t1 = t1
    t2 = t2
    c1 = c1
    c2 = c2
    NULL = NULL
    MaxCalls = 2
    Threads <- MCThreads
    Controllers <- MCControllers
SPECIFICATION Spec
INVARIANT TypeOK
INVARIANT SingleServiceManager
INVARIANT DenialIsGenuine
PROPERTY CacheDropsOnlyDead
PROPERTY CallsReturn
\* Each thread makes MaxCalls calls; when all have returned and the
\* environment has settled, nothing is left to do.
CHECK_DEADLOCK FALSE
