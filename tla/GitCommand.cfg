SPECIFICATION CommandSpec
CONSTANTS
    Cap = 2
    Chunk = 2
    MaxWrite = 4
INVARIANTS
    RetainedIsBounded
    ReturnedOutputIsWhole
PROPERTY CommandReturns
