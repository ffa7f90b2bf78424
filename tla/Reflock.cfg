SPECIFICATION Spec
CONSTANTS
    Threads = {t1, t2, t3}
    Handles = {h1, h2, h3}
    MaxWaiters = 3
    MaxRefcount = 3
    None = None
INVARIANTS
    TypeOK
    NoPanic
    NoLostWakeup
    NoUseAfterFree
    CountersExact
    RefcountHalted
PROPERTIES
    WaitReturns
