SPECIFICATION FairSpec
CONSTANTS
    Nodes = {0, 1, 2}
    None = None
    MAX = 3
    MaxMetric = 6
    Origin = 0
    Scenarios <- Disrupted
CHECK_DEADLOCK FALSE
INVARIANTS LoopFree DistanceKept NothingOwed NoInflation
PROPERTIES Converges
