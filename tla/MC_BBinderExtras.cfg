\* The lazy Extras creation race with three threads and two keys.
CONSTANTS
    t1 = t1
    t2 = t2
    t3 = t3
    k1 = k1
    k2 = k2
    NULL = NULL
    Threads <- MCThreads
    Keys <- MCKeys

SPECIFICATION Spec

INVARIANT TypeOK
INVARIANT ExtrasConverge
INVARIANT SlotsPreserved

\* ~BBinder ends the object's life: nothing can be called on it afterwards.
CHECK_DEADLOCK FALSE
