SPECIFICATION Spec
CONSTANTS
    Tasks = {t1, t2}
    Main = main
    None = None
    Codes = {"code 3", "another code"}
INVARIANT
    CancelledMeansCancelled
CHECK_DEADLOCK FALSE
