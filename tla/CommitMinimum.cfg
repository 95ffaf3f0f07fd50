\* Two ranks on one node; one fails while the other is a checkpoint ahead.
CONSTANTS
    r1 = r1
    r2 = r2
    r3 = r3
    n1 = n1
    n2 = n2
    n3 = n3
    Ranks = {r1, r2}
    Nodes = {n1}
    NodeOf <- SharedNode
    LastEpoch = 1
    MaxFaults = 1
    Lockstep = TRUE
    FailWhen = "any"
SPECIFICATION Spec
CHECK_DEADLOCK FALSE
INVARIANTS
    CommitReachedByAll
