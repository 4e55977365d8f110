\* The same client under fair scheduling.
SPECIFICATION ClientSpec
CONSTANTS
    ExpiryTimeout = 1
    RetransmitTimeout = 0
    MaxMessages = 2
    MaxInFlight = 1
    IdChoices <- DistinctIds
PROPERTIES LinkRestored OutboxDrains
