SPECIFICATION MutexSpec
CONSTANTS
    Threads = {t1, t2, t3}
    Ids = {mutex}
    Objects = {1, 2, 3, 4, 5, 6}
    MaxEpoch = 4
    INVALID = INVALID
    None = None
    mutex = mutex
    Rounds <- MCRounds
    again = t1
INVARIANTS
    WakePending
PROPERTIES
    AllFinish
