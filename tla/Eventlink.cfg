SPECIFICATION Spec
CONSTANTS
    w1 = w1
    w2 = w2
    c = c
    Threads = {w1, w2, c}
    Calls <- MCCalls
    MaxSync = 2
    MAX = 5
    WILD = WILD
    None = None
INVARIANTS
    TypeOK
    SignalsExact
    BaseSafe
PROPERTIES
    EverythingReturns
