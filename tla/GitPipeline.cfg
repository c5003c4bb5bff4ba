SPECIFICATION Spec
CONSTANTS
    a = a
    b = b
    prot = prot
    bad = bad
    Paths <- MCPaths
    Blobs = {0, 1}
    UnsafePaths = {bad}
    ProtectedPaths = {prot}
    Key <- MCKey
    Sources <- MCSources
    Texts <- MCTexts
    Leftovers <- MCLeftovers
    MaxPatch = 2
    MaxChanged = 3
    Absent = Absent
    Keep = Keep
INVARIANTS
    AppliedIsExact
    AppliedObeysPolicy
    EvidenceIsTrue
    BlameIsFair
