SPECIFICATION Spec
CONSTANTS
    Strings = {s, t}
    Objects = {}
    None = None
    MaxBlocks = 3
    MaxSize = 3
    MaxReads = 1
    Ops = {"make", "retain", "read", "release", "store", "phi"}
SYMMETRY Symmetry
INVARIANTS
    NoReferenceLeaks
    ConsumedIsHeld
    NoReadAfterConsume
    ReadsAreDefined
CHECK_DEADLOCK FALSE
