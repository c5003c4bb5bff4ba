SPECIFICATION Spec
CONSTANTS
    Runs = {r1, r2}
    Long = {r1}
    c1 = c1
    c2 = c2
    c3 = c3
    Passes <- OneColumnEach
    V2Pass = 3
    Base = {c1, c2}
    MaxSecond = 1
    Nil = Nil
INVARIANTS
    BundleIsOneRun
    EvidencePrecedesPointers
    VersionMeansMigrated
PROPERTY MigrationRecovers
