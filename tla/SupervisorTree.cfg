SPECIFICATION Spec
CONSTANTS
    Procs = {leader, child}
    Leader = leader
    Limit = 2
    Chunk = 1
    MaxOutput = 5
INVARIANT TimeoutKillsTheTree
