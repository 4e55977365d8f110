\* Two threads of each role at the queue, so that notify_one has a choice and
\* spurious wakeups compete with real ones, and an abort at any time.
SPECIFICATION MCSpec
CONSTANTS
    Pushers = {p1, p2}
    Poppers = {c1, c2}
    Aborters = {a1}
    Records = {r1, r2}
    Nullopt = Nullopt
    NoItem = NoItem
    NoThread = NoThread
    MaxPushes = 2
INVARIANTS FrontDefined NoLostWakeup
PROPERTIES ImplementsChannel NodeComesUp RadioRecovers NoReadingStuck ServesAgain
CHECK_DEADLOCK FALSE
