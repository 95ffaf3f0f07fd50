\* Three ranks: every pair of collectives, every operator, and programs that duplicate
\* communicators around a checkpoint to which all return when rank 1 or 2 fails. Five
\* ranks: every reduction. A program comes to its end, after which nothing moves;
\* ProgramCompletes says that nothing stops before.
CONSTANTS
    Sizes = {2, 3, 5}
    ArenaSize = 1
    Width = 8
    AnySource = any
    AnyTag = any
    Programs <- Applications
    MayFail <- RankOne
    MaxRestarts = 1
SPECIFICATION FairSpec
INVARIANTS
    TypeOK
    CallsDoNotMix
    BarrierSynchronises
    ResultsCorrect
    PoolsIntact
    NothingLeaks
    DupReturnsNew
PROPERTIES
    ProgramCompletes
CHECK_DEADLOCK FALSE
