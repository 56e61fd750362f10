SPECIFICATION FairSpec
CONSTANTS
    Conns = {c1}
    Workers = {w1}
    ConnLimit = 1
    PendingWork = 1
    MaxStops = 1
    None = None
PROPERTIES
    StopReturns
CHECK_DEADLOCK FALSE
