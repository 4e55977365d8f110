\* Identifiers are drawn at random and may collide.
SPECIFICATION ClientSpec
CONSTANTS
    ExpiryTimeout = 1
    RetransmitTimeout = 0
    MaxMessages = 2
    MaxInFlight = 2
    IdChoices <- AnyIds
INVARIANT AckedWereReceived
