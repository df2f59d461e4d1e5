SPECIFICATION Spec
CONSTANTS
    Daemon = {1, 2, 3}
    MaxConns = 3
    Setups <- LineOnly
    MaxBreaks = 1
    MaxCrashes = 0
    Data = {1, 2}
    DataOf <- SameData
INVARIANTS
    MissingReverseEdgeIsStale
CHECK_DEADLOCK FALSE
