SPECIFICATION InvokeSpec
CONSTANTS
    c1 = c1
    c2 = c2
    Calls = {c1}
    Bounded = {}
    MaxAttempts = 3
    MissBudget = 3
INVARIANTS
    NeverExecutedTwice
