SPECIFICATION Spec
CONSTANTS
    Strings = {s, t, u}
    Objects = {}
    None = None
    MaxBlocks = 2
    MaxReads = 1
    Ops = {"make", "load", "release", "phi"}
    MaxSize = 4
SYMMETRY Symmetry
INVARIANT
    NothingReadsConsumed
CHECK_DEADLOCK FALSE
