SPECIFICATION CertifySpec
CONSTANTS
    NumCases = 2
    MaxMutants = 2
    DeterminismRuns = {1, 2, 3}
INVARIANT RungsAreEarned
