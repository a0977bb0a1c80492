SPECIFICATION Spec
CONSTANTS
    MaxLosses = 1
    Ids = {r1, r2}
    MaxInflight = 1
    PeerLimits = {1, 2}
    CacheLimit = 1
    Uses = {1, 2}
    MaxMessages = 2
    QueueLimit = 2
INVARIANTS
    ExecutedOnce
    RefusedNotRun
    NoFalseUnknown
PROPERTIES
    Relayed
    EveryRequestAnswered
    MessagesSettle
CHECK_DEADLOCK FALSE
