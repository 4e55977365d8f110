SPECIFICATION MCSpec
CONSTANTS
    t1 = t1
    t2 = t2
    Tasks = {t1, t2}
    NoTask = NoTask
    App = App
    Manners <- SomeManners
    Configs <- SomeConfigs
    Uris <- UriChanges
    Malformed = TRUE
    OutOfMemory = {"strings"}
    Unsupported = {"ecdsa"}
    Callers = {t1}
    Properties <- AllProperties
    Announcements <- AllLimits
    Messages <- SomeMessages
    Topics = {}
    AliasMaxima = {}
    MaxConnects = 2
    Calls = {"set", "copy", "read", "get"}
    Copied = "connect"
    Arrays <- SomeArrays
    AllocFails = TRUE
    MaxItems = 4

PROPERTIES OmittedAreDefault
CHECK_DEADLOCK FALSE
