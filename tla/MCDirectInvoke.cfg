SPECIFICATION InvokeSpec
CONSTANTS
    c1 = c1
    c2 = c2
    Calls = {c1, c2}
    Bounded = {c1}
    MaxAttempts = 2
    MissBudget = 1
INVARIANTS
    ReplayNeedsDoubt
