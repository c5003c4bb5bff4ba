SPECIFICATION Spec
CONSTANTS
    Jobs = {j1, j2, j3, j4}
    Handlers = {h1, h2}
    MaxPending = 2
    MaxFinished = 1
    NoJob = NoJob
INVARIANTS
    ExactlyOnceHandOver
    BoundedTable
    RecentJobsAreKept
PROPERTIES
    ImplementsLedger
    AnswersMoveForward
