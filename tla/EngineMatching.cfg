\* A process with a peer that sends two messages, nobody fails: matching.
CONSTANTS
    p1 = p1
    t1 = t1
    Self = self
    Peers = {p1}
    Tags = {t1, t2}
    CleanupTag = cleanup
    AnySource = any
    AnyTag = any
    Receives <- ByTagOrAny
    Sends = TRUE
    MaxRequests = 3
    MaxMessages = 2
    MaxEpoch = 1
    MaxSignals = 0
    SignalPoints <- Places
SPECIFICATION FairSpec
INVARIANTS
    NonOvertaking
PROPERTIES
    ReceivesOneMessage
    MatcherCatchesUp
