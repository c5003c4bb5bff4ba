SPECIFICATION Spec
CONSTANTS
    NumCases = 2
    DockerCases = {2}
    WallBudgets = {NoLimit, 5}
    CostBudgets = {NoLimit, 0, 1}
    NoLimit = NoLimit
    Second = 2
    Timeout = 4
    Commands = 2
    Grace = 1
    RmTimeout = 1
    MaxProbe = 1
    MaxSkew = 1
    MaxReview = 1
    MaxPatch = 1
    Outcomes <- StatusOutcomes
INVARIANTS
    CasesAccountedFor
    WallOverrunIsOneCase
    RankedRunsAreTrustworthy
PROPERTIES
    DriftedRunsPublishNothing
    RunEnds
