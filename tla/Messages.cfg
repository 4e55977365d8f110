SPECIFICATION MCSpec
CONSTANTS
    buffer_length = 16
    TopicLengths <- TwoTopics
    DataLengths <- Payloads
    ControlLengths <- Controls
    MaxQueue = 1
    MinOffset <- Lowest
    Links <- AllLinks
    DeviceIds <- SomeIds
    Floats <- SomeFloats
    Uptimes <- SomeUptimes
INVARIANTS HeaderAnnouncesBody StoredWhole BrokerUnderstands ClientUnderstands HandledAsSent IngestedAsMeasured
PROPERTIES AllHandled
CHECK_DEADLOCK FALSE
