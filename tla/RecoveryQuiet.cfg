\* Three ranks on two nodes, a synchronising application, one failure between
\* checkpoints: the case the runtime is built for.
CONSTANTS
    r1 = r1
    r2 = r2
    r3 = r3
    n1 = n1
    n2 = n2
    n3 = n3
    Ranks = {r1, r2, r3}
    Nodes = {n1, n2}
    NodeOf <- SharedNode
    LastEpoch = 2
    MaxFaults = 1
    Lockstep = TRUE
    FailWhen = "quiet"
SPECIFICATION FairSpec
INVARIANTS
    TypeOK
    NoDaemonRaises
    RestartOnlyTerminated
    ShutdownOnlyAfterSuccess
PROPERTIES
    RestartInAgreedEpoch
    OneProcessPerRank
    ImplementsBarrier
    JobCompletes
