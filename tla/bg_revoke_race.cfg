SPECIFICATION Spec
CONSTANTS
    Holders = {h1}
    Threads = {t1}
    Grace = 1
    RotateEvery = 2
    IdleTimeout = 4
    AbsoluteTTL = 5
    DegradedTTL = 2
    Retention = 1
    SlowRequests = FALSE
    MaxJti = 2
    MaxTime = 3
SYMMETRY RequestSymmetry
CHECK_DEADLOCK FALSE
INVARIANT CutFinal
