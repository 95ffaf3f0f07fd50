\* Rank 0, which hands out the contexts, fails.
CONSTANTS
    Sizes = {2}
    ArenaSize = 1
    Width = 8
    AnySource = any
    AnyTag = any
    Programs <- OnlyDup
    MayFail <- Zero
    MaxRestarts = 1
SPECIFICATION Spec
INVARIANTS
    DupReturnsNew
