SPECIFICATION Spec
CONSTANTS
    Keys = {1}
    Burst = 2
    Rate = 600
    MaxKeys = 1
    Steps = {1}
    MaxNow = 6
INVARIANT
    GrantsKeepTheRate
CHECK_DEADLOCK FALSE
