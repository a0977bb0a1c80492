SPECIFICATION Spec
CONSTANTS
    p1 = p1
    p2 = p2
    l1 = l1
    l2 = l2
    t1 = t1
    NoPid = NoPid
    Procs = {p1, p2}
    Root = p1
    Leases = {l1, l2}
    Targets = {t1}
    TargetOf <- MCOneTarget
INVARIANTS
    ReferencesExact
    OneClientPerTarget
PROPERTIES
    NoInheritedClientUsed
CHECK_DEADLOCK FALSE
