SPECIFICATION PortalSpec
CONSTANTS
    Holders = {h1}
    Threads = {t1, t2}
    Grace = 1
    RotateEvery = 2
    IdleTimeout = 3
    AbsoluteTTL = 4
    DegradedTTL = 2
    Retention = 1
    SlowRequests = FALSE
    MaxJti = 3
    MaxTime = 5
    Endpoints = {p1}
    NoEndpoint = NoEndpoint
    Admins = {a1, a2}
    HotThreads = {t1, t2}
    MaxHotRows = 1
    MaxHotFaults = 1
    People = {p1, p2}
    AccessRequests = {q1, q2, q3}
    Submitters = {s1, s2}
    Rejecters = {j1}
    Coroutines = {t1, t2}
    MaxPendingPerIp = 1
    MaxAccounts = 2
    MaxUsers = 2
    MaxAccFaults = 1
    NAccounts = 1
    Runs = {j1}
    Editors = {e1}
    InactivityDays = 2
    WarnDays = {1}
    PasswordMaxAge = 2
    PasswordWarn = 1
    MaxDay = 4
    MaxTroubles = 2
    Logins = {t1, t2}
    Revokers = {d1}
    Attempts = {a1}
    Jtis = {t1, t2}
    MaxOtpFailures = 2
    MaxLoginFailures = 3
    MaxSignFaults = 1
    Challenges = {c1, c2, c3}
    PassKeys = {t1, t2}
    Enrollers = {e1, e2}
    Verifiers = {t1, t2}
    TotpThreads = {t1, t2}
    MaxUses = 2
    MaxSecrets = 2
    Clients = {u1, u2}
    RenewalRuns = {r1, r2}
    HourlyRun = r1
    Savers = {v1}
    Provisioners = {n1}
    RenewalBatch = 2
    MaxCredFaults = 1
CHECK_DEADLOCK FALSE
SYMMETRY PortalSymmetry
INVARIANT PortalTypeOK
INVARIANT NoFalseReplay
INVARIANT ServedAligned
INVARIANT MigratedRowsStay
INVARIANT PendingBound
INVARIANT StatusHonest
PROPERTY NoPartialDelete
PROPERTY ApprovedOnAccount
INVARIANT DisabledAtKeycloak
INVARIANT GuessesBounded
INVARIANT ChallengeOnce
INVARIANT HandlesAgree
INVARIANT VaultOpensApp
