SPECIFICATION MCSpec
CONSTANTS
    ExpiryTimeout = 0
    RetransmitTimeout = 0
    N = 2
    Callers = {c1}
    Calls = {"store"}
    QoS = {0, 2}
    In = {1, 2}
    InQoS <- QoSBoth
    V5 = TRUE
    LongMessages = TRUE
    receive_maximum = 0
    outbox_limit = 0
    MayExpire = FALSE
    ReportsDeleted = FALSE
    MaxBreaks = 1
    MaxPackets = 1
    MaxCount = 3
INVARIANTS DeliveredAtMostOnce CompletedWasReceived NothingForgotten EnqueuedInOrder AcknowledgedWasDelivered
PROPERTIES FlowsComplete
CHECK_DEADLOCK FALSE
