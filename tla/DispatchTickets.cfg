SPECIFICATION TicketsSpec
CONSTANTS
    Tickets = {t1, t2}
    Clients = {c1}
    Workers = {w1, w2}
    Callers = {c1, w1, w2}
    MaxPending = 1
    NoTicket = NoTicket
    NoThread = NoThread
    Main = main
    None = None
    MaxOutput = 1
    Codes = {"another code"}
SYMMETRY Symmetry
CHECK_DEADLOCK FALSE
INVARIANTS
    NoSleepOnEndedTicket
    NoPendingAfterSweep
    NoLostJob
    ClosedIsQuiet
    WaitTellsTheTask
    TextIsInOnePlace
    AnswersTellTheTask
PROPERTIES
    JoinOkMeansTerminal
    LifecycleRefined
    OnlyAClosingTicketIsUnknown
