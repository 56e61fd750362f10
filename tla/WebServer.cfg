SPECIFICATION Spec
CONSTANTS
    Conns = {c1, c2, c3}
    Workers = {w1, w2}
    ConnLimit = 2
    PendingWork = 2
    MaxStops = 2
    None = None
SYMMETRY Symmetry
INVARIANTS
    OneHandlerAtATime
    CountsAreExact
    OkMeansQuiet
CHECK_DEADLOCK FALSE
