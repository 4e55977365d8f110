\* Three records, one of them malformed, and signals, lost connections and
\* messages at any time.
SPECIFICATION GatewaySpec
CONSTANTS
    Main = Main
    Worker = Worker
    Paho = Paho
    Pushers = {Paho}
    Poppers = {Worker}
    Aborters = {Main}
    Records = {good1, good2, bad}
    Malformed = {bad}
    Nullopt = Nullopt
    NoItem = NoItem
    NoThread = NoThread
    MaxPushes = 3
INVARIANTS QueueOutlivesItsUsers IngestedInOrder
PROPERTIES SignalEndsProcess EveryRecordHandled
