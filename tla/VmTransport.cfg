SPECIFICATION Spec
CONSTANTS
    Blocks = {b1, b2}
    Targets = {t1}
    Settings <- AllSettings
    Nothing = Nothing
    Lost = Lost
    MaxWrites = 2
    MaxExports = 3
    MaxFaults = 1
SYMMETRY Symmetric
INVARIANTS QuiescenceProven SuccessLeavesNothing
PROPERTIES PointsAreSnapshots
CHECK_DEADLOCK FALSE
