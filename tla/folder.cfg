SPECIFICATION Spec
CONSTANTS
    Items = {i1, i2}
    MaxChildren = 2
    MaxVersion = 2
    MaxEdits = 1
    MaxRuns = 2
    MaxCrashes = 1
    MaxFaults = 1
SYMMETRY ItemSymmetry
INVARIANTS SnapshotCovered SummaryComplete
CHECK_DEADLOCK FALSE
