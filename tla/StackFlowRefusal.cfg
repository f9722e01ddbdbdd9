SPECIFICATION NodeSpec
CONSTANTS
    NumPorts = 4
    MaxUnits = 2
    MayExhaust = FALSE
    TaskCount = 1
    Urls = {1}
    MaxRequests = 2
    MayTimeout = FALSE
    MayStop = FALSE
    Leaving = {}
INVARIANTS RefusalAnswered
CHECK_DEADLOCK FALSE
