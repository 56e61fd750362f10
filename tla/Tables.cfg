SPECIFICATION TablesSpec
CONSTANTS
    MaxObjects = 3
    MaxStrong = 2
    GenMod = 5
    FirstGen = 4
    Requests = {r1, r2}
    Ids = {s1, s2, s3}
    Capacity = 2
    Idle = 2
    MaxNow = 2
    NoId = NoId
    Keys = {1, 2, 3}
    Burst = 2
    Rate = 300
    MaxKeys = 2
    Steps = {1, 3}
    MaxClock = 9
SYMMETRY Symmetry
INVARIANTS
    FreedExactlyOnce
    OldIdsStayDead
    CountsMatchReferences
    OnlyEscapedSelfBreaks
    RetiredStaysDead
    OneHome
    ValuesFollowTheSession
    NoRequestIsStarved
CHECK_DEADLOCK FALSE
