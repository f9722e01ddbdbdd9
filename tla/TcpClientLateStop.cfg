SPECIFICATION FairSpec
CONSTANTS
    MaxSockets = 2
    KeepSession = FALSE
    Retry = TRUE
    MaxConnects = 1
    MaxStops = 1
    MaxDisconnects = 1
    LoopCalls = {}
    UserCalls = {"connect", "stop"}
    LoopOps = {"forceClose"}
    DestroyWhen = "never"
PROPERTIES StopPreventsConnection
CHECK_DEADLOCK FALSE
