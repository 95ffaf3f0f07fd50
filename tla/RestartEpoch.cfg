\* One rank per node; a rank fails a checkpoint ahead of the other.
CONSTANTS
    r1 = r1
    r2 = r2
    r3 = r3
    n1 = n1
    n2 = n2
    n3 = n3
    Ranks = {r1, r2}
    Nodes = {n1, n2}
    NodeOf <- OneRankPerNode
    LastEpoch = 2
    MaxFaults = 1
    Lockstep = TRUE
    FailWhen = "any"
SPECIFICATION Spec
CHECK_DEADLOCK FALSE
PROPERTIES
    RestartInAgreedEpoch
