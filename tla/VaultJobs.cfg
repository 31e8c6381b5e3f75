SPECIFICATION FairSpec
CONSTANTS
    Snaps = {s1, s2}
    VMs = {v1}
    Workers = {daily, failback}
    Unlocked = {failback}
    Holders = {}
    Replicas = {cloud}
    Retention = retention
    Nil = Nil
    KeepWithin = 1
    MinRestorePoints = 1
    PolicyDays = {1}
    PreserveSuspicious = 2
    HoldDays = {1}
    VerifyAfterBackup = TRUE
    Span = 0
    MaxTime = 0
    MaxJobs = 2
    MaxFaults = 1
INVARIANTS JobTruthful RunningHasWorker
PROPERTIES JobSettles
CHECK_DEADLOCK FALSE
