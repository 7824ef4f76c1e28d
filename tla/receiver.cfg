SPECIFICATION Spec
CONSTANTS
    c1 = c1
    c2 = c2
    Path <- MCPath
    Chunk <- MCChunk
    Hole = Hole
    None = None
    Time <- MCTime
    Now = 0
    MaxLen = 2
    MaxPending = 2
    MaxUnsettled = 1
    MaxUnread = 0
    Manifests <- MCManifests
    Trees <- MCTrees
    Options <- MCOptions
    ByPath <- MCByPath
INVARIANT TypeOK
INVARIANT VisibleIsDurable
INVARIANT PendingIsWhole
PROPERTY ReplacedOnlyByWanted
