SPECIFICATION Spec
CONSTANTS
    Transfers <- MCTransfers
    Unreadable <- MCUnreadable
    PipeCap = 1
    MaxFaults = 0
INVARIANT WarningsAreHarmless
CHECK_DEADLOCK FALSE
