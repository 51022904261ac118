SPECIFICATION LcSpec
CONSTANTS
    NAccounts = 1
    Runs = {j1}
    Editors = {e1}
    InactivityDays = 2
    WarnDays = {1}
    PasswordMaxAge = 2
    PasswordWarn = 1
    MaxDay = 4
    MaxTroubles = 0
CHECK_DEADLOCK FALSE
PROPERTY NeverDisabledUnwarned
