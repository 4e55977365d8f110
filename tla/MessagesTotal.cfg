\* Does a total outlive its message?
SPECIFICATION MCSpec
CONSTANTS
    buffer_length = 16
    TopicLengths <- TwoTopics
    DataLengths <- Payloads
    ControlLengths <- Controls
    MaxQueue = 1
    MinOffset <- Lowest
    Links <- AllLinks
    DeviceIds <- SomeIds
    Floats <- SomeFloats
    Uptimes <- SomeUptimes
INVARIANT ZeroForAllOther
CHECK_DEADLOCK FALSE
