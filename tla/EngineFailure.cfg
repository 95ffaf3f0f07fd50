\* A failure elsewhere interrupts the user's thread at any place; the application may
\* recover. The process may stop for ever: the handler waits for the progress thread
\* and this for a guard that the interrupted user holds.
CONSTANTS
    p1 = p1
    t1 = t1
    Self = self
    Peers = {p1}
    Tags = {t1}
    CleanupTag = cleanup
    AnySource = any
    AnyTag = any
    Receives <- AnyTagByName
    Sends = TRUE
    MaxRequests = 3
    MaxMessages = 1
    MaxEpoch = 1
    MaxSignals = 1
    SignalPoints <- Places
SPECIFICATION FairSpec
INVARIANTS
    TypeOK
    RequestInUse
    SuccessHasMessage
    CleanupNotReceived
PROPERTIES
    FailureEndsWait
CHECK_DEADLOCK FALSE
