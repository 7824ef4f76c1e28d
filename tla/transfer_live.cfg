SPECIFICATION FairTransferSpec
CONSTANTS
    c1 = c1
    c2 = c2
    c3 = c3
    Path <- MCPath
    Chunk <- MCChunk
    Hole = Hole
    None = None
    Time <- MCTime
    Now = 0
    MaxLen = 2
    MaxPending = 3
    MaxUnsettled = 1
    MaxUnread = 0
    Manifests <- MCManifests
    Trees <- MCTrees
    Options <- LiveOptions
    ByPath <- MCByPath
    MaxFaults = 1
    MaxChanges = 1
PROPERTY EventuallyArrives
