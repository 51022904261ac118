SPECIFICATION RotationSpec
CONSTANTS
    Columns = {c1, c2}
    Rotators = {r1}
    Writers = {}
    EnvKeyPresent = TRUE
    ActivationFaults = TRUE
    MaxVersion = 2
    MaxKeys = 2
    MaxCrashes = 0
    MaxWrites = 0
CHECK_DEADLOCK FALSE
PROPERTY DeletesOnlyOrphans
