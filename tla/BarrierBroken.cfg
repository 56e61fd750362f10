SPECIFICATION Spec
CONSTANTS
    Waiters = {a, b, c}
    Parties = 3
    MaxGeneration = 3
    None = None
CHECK_DEADLOCK FALSE
INVARIANT
    BrokenRoundTimesOutForAll
