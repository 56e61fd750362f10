SPECIFICATION Spec
CONSTANTS
    Requests = {r1, r2}
    Ids = {s1, s2, s3}
    Capacity = 3
    Idle = 2
    MaxNow = 0
    NoId = NoId
INVARIANT
    EndForgetsTheSession
CHECK_DEADLOCK FALSE
