SPECIFICATION FairSpec
CONSTANTS
    Writers = {sync}
    Backup = backup
    Nil = Nil
    PolicyDays = {1, 3}
    KeepWithin = 2
    LockDays = 2
    MaxPoints = 2
    MaxTime = 1
    MaxFaults = 1
    MaxInits = 1
INVARIANTS CopyLocked VerifiedLocked
PROPERTIES NeverShortened DrCaughtUp
CHECK_DEADLOCK FALSE
