SPECIFICATION ProcessSpec
CONSTANTS
    Timeout = 5
    Interval = 2
    RetryDelay = 1
    MaxErrors = 3
    Slowest = 6
    MaxSessions = 2
    Runs = {r1, r2}
INVARIANTS
    OverrunIsOneAnswer
    AnswerIsOwn
    SessionsReachable
CHECK_DEADLOCK FALSE
