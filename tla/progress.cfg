SPECIFICATION ProgressSpec
CONSTANTS
    Events = {v1, v2}
    Enqueuers = {e1, e2}
    Capacity = 1
    Batch = 2
    None = None
    MaxFaults = 2
    Endpoints = {p1}
    NoEndpoint = NoEndpoint
    Admins = {a1}
    HotThreads = {t1, t2}
    MaxHotRows = 0
    MaxHotFaults = 1
    NAccounts = 1
    Runs = {j1}
    Editors = {d1}
    InactivityDays = 2
    WarnDays = {1}
    PasswordMaxAge = 2
    PasswordWarn = 1
    MaxDay = 4
    MaxTroubles = 1
    Clients = {u1, u2}
    RenewalRuns = {r1}
    HourlyRun = r1
    Savers = {}
    Provisioners = {}
    RenewalBatch = 1
    MaxCredFaults = 1
CHECK_DEADLOCK FALSE
PROPERTY QueueDrains
PROPERTY SwitchTakesEffect
PROPERTY IdleEndsDisabled
PROPERTY StaleRenewed
