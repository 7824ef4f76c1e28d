SPECIFICATION FairVerifySpec
CONSTANTS
    a = a
    b = b
    None = None
    Follow = Follow
    Path <- MCPath
    Rank <- MCRank
    Chunk <- MCChunk
    StateDir = ".modelmove"
    HiddenNames <- MCHiddenNames
    Forms <- MCForms
    Directories <- MCDirectories
    BuildOptions <- MCBuildOptions
    VerifyOptions <- MCVerifyOptions
    MaxChanges = 1
    Jobs = 2
INVARIANT TimeTellsContent
INVARIANT ManifestIsSnapshot
INVARIANT BuildErrorIsCause
INVARIANT VerdictIsExact
PROPERTY BothReturn
CHECK_DEADLOCK FALSE
