SPECIFICATION FairSpec
CONSTANTS
    Bodies = {3, 4}
    Window = 2
    MaxBody = 3
    MaxDrops = 1
INVARIANTS
    BodyInOrderOnce
    NothingCut
    OffsetsNeverBlamed
PROPERTIES
    StreamEnds
CHECK_DEADLOCK FALSE
