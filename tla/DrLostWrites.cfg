SPECIFICATION Spec
CONSTANTS
    Runners = {p1}
    Workloads = {w1}
    AutoFailover = TRUE
    Threshold = 1
    MaxRuns = 2
    MaxWrites = 2
    MaxFaults = 0
INVARIANTS FailbackKeepsWrites
CHECK_DEADLOCK FALSE
