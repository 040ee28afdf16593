\* Proxy lifetime under every interleaving of three threads.
CONSTANTS
    t1 = t1
    t2 = t2
    t3 = t3
    Threads <- MCThreads
    Creator <- MCCreator
    MaxRefs = 1

SPECIFICATION Spec

INVARIANT TypeOK
INVARIANT RemoteRefBalance
INVARIANT StrongProxyHasLiveRemote
INVARIANT ProxyCountsExact

PROPERTY ProxyEventuallyReleased
PROPERTY ProxyInterestRefined

\* Once every reference is dropped and the proxy deleted, the program has
\* nothing left to do with it: the final state has no successor.
CHECK_DEADLOCK FALSE
