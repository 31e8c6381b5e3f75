SPECIFICATION Spec
CONSTANTS
    Snaps = {s1, s2}
    VMs = {v1}
    Workers = {daily}
    Unlocked = {}
    Holders = {h1}
    Replicas = {}
    Retention = retention
    Nil = Nil
    KeepWithin = 3
    MinRestorePoints = 1
    PolicyDays = {4}
    PreserveSuspicious = 4
    HoldDays = {2}
    VerifyAfterBackup = FALSE
    Span = 1
    MaxTime = 4
    MaxJobs = 2
    MaxFaults = 0
PROPERTIES HeldNeverForgotten
CHECK_DEADLOCK FALSE
