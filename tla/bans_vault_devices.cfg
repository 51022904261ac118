SPECIFICATION BvdSpec
CONSTANTS
    i1 = i1
    u1 = u1
    vip = vip
    Ips = {i1}
    Users = {u1}
    Allowlisted = {}
    Clients <- OneClient
    Requests = {}
    PoolSize = 0
    Lifters = {l1}
    Banners = {b1}
    Threshold <- BanThreshold
    Window <- OneTick
    Ttl <- OneMinute
    PermanentRules = {}
    ConcurrentLimit = 0
    Ladder <- TwoStepLadder
    PermanentAfter = 3
    MaxLines = 2
    MaxEvents = 2
    MaxBans = 3
    MaxTime = 3
    Columns = {c1, c2}
    Rotators = {r1, r2}
    Writers = {w1}
    EnvKeyPresent = FALSE
    ActivationFaults = TRUE
    MaxVersion = 3
    MaxKeys = 4
    MaxCrashes = 1
    MaxWrites = 1
    Mailboxes = {m1, m2}
    Legacy = Legacy
    LegacyOwner = m1
    SyncThreads = {t1, t2}
    Deciders = {d1, d2}
    MaxRows = 2
    MaxSightings = 4
    MaxDevFaults = 0
CHECK_DEADLOCK FALSE
SYMMETRY BvdSymmetry
PROPERTY LadderClimbed
PROPERTY FailBansEarned
INVARIANT RowsRecoverable
INVARIANT PointerResolves
INVARIANT BvdTypeOK
INVARIANT LockBites
INVARIANT CountHonest
