SPECIFICATION Spec
CONSTANTS
    Holders = {h1, h2}
    Threads = {t1}
    Grace = 1
    RotateEvery = 2
    IdleTimeout = 4
    AbsoluteTTL = 5
    DegradedTTL = 2
    Retention = 0
    SlowRequests = TRUE
    MaxJti = 3
    MaxTime = 6
SYMMETRY RequestSymmetry
CHECK_DEADLOCK FALSE
INVARIANT QuietCutFinal
INVARIANT AbsoluteExpiry
INVARIANT ChainLinked
