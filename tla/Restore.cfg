SPECIFICATION FairSpec
CONSTANTS
    Requests = {r1}
    Users = {alice, bob}
    Requesters = {alice}
    Approvers = {a1, a2}
    Executors = {e1, e2}
    Nil = Nil
    FourEyes = TRUE
    KeepStaging = FALSE
    AutoCleanup = TRUE
    MaxCrashes = 1
INVARIANTS FourEyesHeld RunningHasExecutor
    ImportedVerified ImportOnce OutcomeTruthful
PROPERTIES RestoreSettles
CHECK_DEADLOCK FALSE
