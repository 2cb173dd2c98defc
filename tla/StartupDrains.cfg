SPECIFICATION StartupSpec
CONSTANTS
    Unset = Unset
    Renewals = 1
INVARIANT ExitDrainsAll
CHECK_DEADLOCK FALSE
