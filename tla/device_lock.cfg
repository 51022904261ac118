SPECIFICATION DevSpec
CONSTANTS
    Mailboxes = {m1, m2}
    Legacy = Legacy
    LegacyOwner = m1
    SyncThreads = {t1, t2}
    Deciders = {d1, d2}
    MaxRows = 2
    MaxSightings = 3
    MaxDevFaults = 0
CHECK_DEADLOCK FALSE
PROPERTY LockKept
