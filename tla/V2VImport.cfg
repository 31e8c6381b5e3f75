SPECIFICATION Spec
CONSTANTS
    Imports = {i1, i2}
    Vmids = {v1, v2}
    NDisks = 2
    Waived = {"suspicious"}
    Foreign = Foreign
    Nil = Nil
    MaxFaults = 1
SYMMETRY Symmetric
INVARIANTS DoneIsComplete FailedLeavesNothing
PROPERTIES OthersUntouched ImportsAtomic
CHECK_DEADLOCK FALSE
