\* Two ranks on one node, two failures, each while everybody computes.
CONSTANTS
    r1 = r1
    r2 = r2
    r3 = r3
    n1 = n1
    n2 = n2
    n3 = n3
    Ranks = {r1, r2}
    Nodes = {n1}
    NodeOf <- SharedNode
    LastEpoch = 1
    MaxFaults = 2
    Lockstep = TRUE
    FailWhen = "quiet"
SPECIFICATION Spec
CHECK_DEADLOCK FALSE
INVARIANTS
    RestartOnlyTerminated
