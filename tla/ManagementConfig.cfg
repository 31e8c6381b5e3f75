SPECIFICATION Spec
CONSTANTS
    Platforms = {p1, p2}
    Owned = {p1, p2}
    Replicas = {nas}
    Policies = {q1}
    Threads = {t1, t2}
    Nothing = Nothing
    Torn = Torn
    MaxRequests = 2
    MaxFaults = 2
SYMMETRY Symmetric
INVARIANTS LiveLoads ScopeKept TimersMatch
CHECK_DEADLOCK FALSE
