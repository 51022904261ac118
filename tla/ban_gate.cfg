SPECIFICATION GateSpec
CONSTANTS
    i1 = i1
    u1 = u1
    vip = vip
    Ips = {i1}
    Users = {u1, vip}
    Allowlisted = {vip}
    Clients <- BrowseAndLogin
    Requests = {q1, q2, q3}
    PoolSize = 2
    Lifters = {l1}
    Banners = {b1}
    Threshold <- GateThreshold
    Window <- OneTick
    Ttl <- OneMinute
    PermanentRules = {}
    ConcurrentLimit = 1
    Ladder <- TwoStepLadder
    PermanentAfter = 3
    MaxLines = 0
    MaxEvents = 3
    MaxBans = 1
    MaxTime = 1
CHECK_DEADLOCK FALSE
SYMMETRY RequestSymmetry
INVARIANT CounterExact
INVARIANT ConcurrentBound
