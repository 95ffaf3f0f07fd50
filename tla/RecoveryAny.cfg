\* One rank per node, no synchronisation, one failure at any time. The application may
\* hang or a daemon raise (a rank that finishes during a recovery), so deadlock is off.
CONSTANTS
    r1 = r1
    r2 = r2
    r3 = r3
    n1 = n1
    n2 = n2
    n3 = n3
    Ranks = {r1, r2, r3}
    Nodes = {n1, n2, n3}
    NodeOf <- OneRankPerNode
    LastEpoch = 2
    MaxFaults = 1
    Lockstep = FALSE
    FailWhen = "any"
SYMMETRY Interchangeable
SPECIFICATION Spec
CHECK_DEADLOCK FALSE
INVARIANTS
    ReportedEpochIsDurable
    RecoveryEpochsAgree
    CommitReachedByAll
PROPERTIES
    ImplementsBarrier
