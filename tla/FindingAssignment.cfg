SPECIFICATION Spec
CONSTANTS
    Bugs = 3
    Findings = 2
    Values = {0, 1, 2}
    None = None
    Forbidden = 100
    Inf = 1000
INVARIANTS
    PotentialsCertifyTheMatching
    MaximumWeight
    TiesTakeTheFirstFinding
