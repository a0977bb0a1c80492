SPECIFICATION ApiSpec
CONSTANTS
    Callers = {"c1", "c2"}
    CreateMax = 3
    DeleteMax = 3
    Calls = {1, 2}
    MaxAttempts = 3
INVARIANTS
    DeletedIsGone
    PauseIsOwn
    LastReturnedHolds
PROPERTIES
    KeptUntilKill
    ClosedReleases
CHECK_DEADLOCK FALSE
