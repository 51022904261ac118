SPECIFICATION SignInSpec
CONSTANTS
    Logins = {k1, k2}
    Revokers = {d1}
    Attempts = {a1}
    Jtis = {j1, j2}
    MaxOtpFailures = 2
    MaxLoginFailures = 3
    MaxSignFaults = 0
CHECK_DEADLOCK FALSE
PROPERTY DisconnectCuts
