\* The signal arrives while the user sleeps in MPI_Wait.
CONSTANTS
    p1 = p1
    t1 = t1
    Self = self
    Peers = {p1}
    Tags = {t1}
    CleanupTag = cleanup
    AnySource = any
    AnyTag = any
    Receives <- ByTag
    Sends = FALSE
    MaxRequests = 3
    MaxMessages = 1
    MaxEpoch = 0
    MaxSignals = 1
    SignalPoints = {"asleep"}
SPECIFICATION FairSpec
PROPERTIES
    WaiterIsNotified
CHECK_DEADLOCK FALSE
