SPECIFICATION FairSpec
CONSTANTS
    w1 = w1
    w2 = w2
    Length = 4
    Worker <- MCWorker
    Depth = 1
    WithFileDigest = TRUE
    WithSink = TRUE
INVARIANT NoReuseUnderReader
INVARIANT SignatureIsWhole
INVARIANT ErrorIsCause
PROPERTY Returns
CHECK_DEADLOCK FALSE
