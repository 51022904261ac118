SPECIFICATION FilesSpec
CONSTANTS
    Labels = {l1}
    Uploaders = {t1}
    MaxFiles = 1
    MaxVersions = 1
    MaxNumber = 1
    MaxCreated = 1
    MaxEdits = 0
    MaxRekeys = 1
    MaxFileFaults = 0
CHECK_DEADLOCK FALSE
INVARIANT StoredFilesOpen
