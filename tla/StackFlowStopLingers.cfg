SPECIFICATION NodeSpec
CONSTANTS
    NumPorts = 4
    MaxUnits = 2
    MayExhaust = FALSE
    TaskCount = 1
    Urls = {1, 2}
    MaxRequests = 2
    MayTimeout = FALSE
    MayStop = TRUE
    Leaving = {1}
PROPERTIES StopEndsNode
CHECK_DEADLOCK FALSE
