SPECIFICATION PtyFairSpec
CONSTANTS
    Terminals = {"s1"}
PROPERTIES
    OutcomeFinal
    FoundLoopIsStopped
CHECK_DEADLOCK FALSE
