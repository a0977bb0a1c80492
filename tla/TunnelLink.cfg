SPECIFICATION Spec
CONSTANTS
    Stoppers = {u1, u2}
INVARIANTS
    HelloFirst
    HeartbeatNotFooled
    EndsClean
PROPERTIES
    StopStops
    DeadLinkReplaced
CHECK_DEADLOCK FALSE
