SPECIFICATION FairSpec
CONSTANTS
    Transfers <- MCTransfers
    Unreadable <- MCUnreadable
    PipeCap = 1
    MaxFaults = 1
INVARIANT DrivenAsInProcess
PROPERTY SessionEnds
CHECK_DEADLOCK FALSE
