SPECIFICATION Spec
CONSTANTS
    Nodes = {0, 1, 2}
    None = None
    MAX = 3
    MaxMetric = 6
    Origin = 0
    Scenarios <- Revived
CHECK_DEADLOCK FALSE
INVARIANTS NoCountToInfinity
