SPECIFICATION OutboxFilesSpec
CONSTANTS
    Events = {x1, x2, x3}
    Enqueuers = {t1, t2}
    Capacity = 1
    Batch = 2
    None = None
    MaxFaults = 1
    Columns = {c1, c2}
    Rotators = {r1, r2}
    Writers = {w1}
    EnvKeyPresent = TRUE
    ActivationFaults = TRUE
    MaxVersion = 3
    MaxKeys = 3
    MaxCrashes = 1
    MaxWrites = 1
    Labels = {l1}
    Uploaders = {t1, t2}
    MaxFiles = 1
    MaxVersions = 3
    MaxNumber = 2
    MaxCreated = 2
    MaxEdits = 1
    MaxRekeys = 0
    MaxFileFaults = 1
    Folders = {x1, x2, x3}
    Documents = {f1}
    Top = Home
    MaxLevels = 2
CHECK_DEADLOCK FALSE
SYMMETRY OutboxFilesSymmetry
INVARIANT OutboxFilesTypeOK
INVARIANT QueueBound
INVARIANT Accounted
INVARIANT NoDuplicate
PROPERTY ImplementsForwardQueue
INVARIANT SingleKey
INVARIANT AtRestReadable
INVARIANT GrantsMeant
INVARIANT BlobPresent
PROPERTY LatestServed
INVARIANT BrowsingExact
