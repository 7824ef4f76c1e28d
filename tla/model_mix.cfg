SPECIFICATION TransferSpec
CONSTANTS
    c1 = c1
    c2 = c2
    c3 = c3
    Path <- MCPath
    Chunk <- MCChunk
    Hole = Hole
    None = None
    Time <- MCTime
    Now = 0
    MaxLen = 2
    MaxPending = 3
    MaxUnsettled = 0
    MaxUnread = 0
    Manifests <- MCManifests
    Trees <- MCTrees
    Options <- ModelOptions
    ByPath <- MCByPath
    MaxFaults = 0
    MaxChanges = 0
INVARIANT NeverMixed
