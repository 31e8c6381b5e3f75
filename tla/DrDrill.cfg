SPECIFICATION FairSpec
CONSTANTS
    Runners = {p1}
    Workloads = {w1, w2}
    AutoFailover = TRUE
    Threshold = 1
    MaxRuns = 2
    MaxWrites = 1
    MaxFaults = 2
INVARIANTS OneOwner OneCopy ActiveServes FailbackKeepsBase
           RunningHasRunner
PROPERTIES RunSettles
CHECK_DEADLOCK FALSE
