\* Identifiers do not collide; every message has time to be sent,
\* retransmitted, acknowledged late and expired.
SPECIFICATION ClientSafety
CONSTANTS
    ExpiryTimeout = 1
    RetransmitTimeout = 0
    MaxMessages = 3
    MaxInFlight = 2
    IdChoices <- DistinctIds
INVARIANTS ConnectionAgreement AckedWereReceived NoSilentLoss OneUnflaggedCopy
