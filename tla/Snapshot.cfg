SPECIFICATION Spec
CONSTANTS
    f1 = f1
    f2 = f2
    root = root
    sub = sub
    a = a
    b = b
    Files = {f1, f2}
    Dirs = {root, sub}
    Root = root
    Home <- Nested
    Parent <- InRoot
    Values = {a, b}
    Contents <- OneChunk
    MaxChunks = 1
    MaxFiles = 2
    OneDrift = TRUE
    CoarseClock = FALSE
    Absent = Absent
    Link = Link
    Unread = Unread
    NoFile = NoFile
SYMMETRY Symmetric
INVARIANTS
    QuietPackIsAccepted
    SnapshotIsOneInstant
    ChecksumIsOfTheSource
PROPERTY SnapshotEnds
