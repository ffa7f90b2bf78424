SPECIFICATION Spec
CONSTANTS
    Threads = {t1, t2, t3}
    Ids = {a, b}
    Objects = {1, 2, 3, 4, 5, 6}
    MaxEpoch = 1
    INVALID = INVALID
    None = None
INVARIANTS
    TypeOK
    ObjectsSafe
    NoMissedWake
SYMMETRY Symmetry
