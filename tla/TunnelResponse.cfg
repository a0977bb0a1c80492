SPECIFICATION FairSpec
CONSTANTS
    Chunks = 4
    Window = 3
    Forms = {"http_req", "http_req_begin"}
    MaxDrops = 1
INVARIANTS
    RetainsUnreceived
PROPERTIES
    ResponseEnds
CHECK_DEADLOCK FALSE
