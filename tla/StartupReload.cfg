SPECIFICATION StartupSpec
CONSTANTS
    Unset = Unset
    Renewals = 1
PROPERTY ReloadsEverySource
CHECK_DEADLOCK FALSE
