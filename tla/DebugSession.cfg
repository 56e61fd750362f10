SPECIFICATION FairSpec
CONSTANTS
    Sites <- TwoSites
    MaxDepth = 2
    MaxRequests = 4
    None = None
CHECK_DEADLOCK FALSE
INVARIANTS
    EventsTellThePause
    StepStopsAsAsked
PROPERTIES
    PauseIsObeyed
    SessionCloses
