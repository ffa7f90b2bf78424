SPECIFICATION Spec
CONSTANTS
    Producers = {p1, p2, p3}
    Elements = {e1, e2, e3}
    MaxList = 2
    HEAD = HEAD
    NULL = NULL
    NOTQUEUED = NOTQUEUED
INVARIANTS
    TypeOK
    LateLinkSafe
    WaitHasEnqueuer
PROPERTIES
    ImplementsFifo
    DequeueEnds
    RestoreEnds
