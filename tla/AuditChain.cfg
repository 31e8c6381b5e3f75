SPECIFICATION AuditSpec
CONSTANTS
    Procs = {p1, p2}
    Bodies = {x, y}
    Null = Null
    Legacy = 2
    MaxEvents = 4
    MaxAlterations = 1
SYMMETRY Symmetric
INVARIANTS ChainValid AlteredReported EventsLinked
PROPERTIES HashesKept
CHECK_DEADLOCK FALSE
