SPECIFICATION AllFairSpec
CONSTANTS
    Waiters = {a, b, c, d}
    Parties = 3
    MaxGeneration = 2
    None = None
    Callers = {p, q, r}
    Permits = 2
    MaxCount = 2
    Workers = {w1, w2, w3}
    Tasks = {k1, k2, k3}
    Streams = {"stdout", "stderr"}
    PipeSize = 1
    Limit = 1
    MaxWritten = 3
    Tickets = {t1, t2}
    Clients = {c1}
    QueueWorkers = {v1}
    QueueCallers = {c1, v1}
    MaxPending = 1
    NoTicket = NoTicket
    NoThread = NoThread
CHECK_DEADLOCK FALSE
INVARIANTS
    ArrivedCountsRound
    ResultsTellTheRound
    NoStrandedSleeper
    HolderStillRuns
    ResultIsComplete
    NoChildLeft
PROPERTIES
    TimedCallsReturn
    TicketsEnd
    WritersAreServed
