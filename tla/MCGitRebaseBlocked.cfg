SPECIFICATION RebaseSpec
CONSTANTS
    Replay <- ReplayOrder
    g1 = g1
    g2 = g2
    g3 = g3
    Upstream = Upstream
    Nothing = Nothing
    NoState = NoState
    MaxInterrupted = 0
    MaxConflicts = 0
    MaxBlocked = 1
CHECK_DEADLOCK FALSE
INVARIANT RewordsAlwaysArrive
