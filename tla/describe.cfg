SPECIFICATION DescribeSpec
CONSTANTS
    None = None
    Byte <- MCByte
    Gear <- MCGear
    Width = 6
    MinChunkSize = 4
    MaxChunkSize = 16
    Small <- MCSmall
    Large <- MCLarge
    Huge <- MCHuge
    LargeFileThreshold = 10
    HugeFileThreshold = 14
    Streams <- MCStreams
    Requests = {}
    Path <- MCPath
    Name <- MCName
    BlobWeight = 4
    ModelWeight = 10
    MaxCount = 8
    MaxLength = 63
    Commands <- MCCommands
    Dotted = {".o"}
    Remote <- Elsewhere
    Damaged <- MCDamaged
INVARIANT CutsAreCanonical
INVARIANT NothingWraps
INVARIANT LoadedIsOldOrNew
INVARIANT DamageIsTold
INVARIANT BuiltIsAccepted
INVARIANT SidesCutAlike
INVARIANT CompareIsExact
INVARIANT CompleteIsComplete
INVARIANT OrderTellsIncomplete
CHECK_DEADLOCK FALSE
