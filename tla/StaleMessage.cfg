\* A message queued before a recovery and the receive posted after it.
CONSTANTS
    p1 = p1
    t1 = t1
    Self = self
    Peers = {p1}
    Tags = {t1}
    CleanupTag = cleanup
    AnySource = any
    AnyTag = any
    Receives <- ByTag
    Sends = FALSE
    MaxRequests = 3
    MaxMessages = 1
    MaxEpoch = 1
    MaxSignals = 1
    SignalPoints <- Places
SPECIFICATION Spec
INVARIANTS
    OnlyNewMessages
CHECK_DEADLOCK FALSE
