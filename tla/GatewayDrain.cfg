\* Does the worker leave records behind?
SPECIFICATION GatewaySpec
CONSTANTS
    Main = Main
    Worker = Worker
    Paho = Paho
    Pushers = {Paho}
    Poppers = {Worker}
    Aborters = {Main}
    Records = {good1, good2, bad}
    Malformed = {bad}
    Nullopt = Nullopt
    NoItem = NoItem
    NoThread = NoThread
    MaxPushes = 2
PROPERTY WorkerStopsOnEmptyQueue
