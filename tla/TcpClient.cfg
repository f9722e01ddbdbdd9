SPECIFICATION FairSpec
CONSTANTS
    MaxSockets = 2
    KeepSession = FALSE
    Retry = TRUE
    MaxConnects = 1
    MaxStops = 2
    MaxDisconnects = 2
    LoopCalls = {"disconnect", "stop"}
    UserCalls = {"connect", "stop"}
    LoopOps = {"forceClose", "send"}
    DestroyWhen = "settled"
INVARIANTS NoClientAssertFails SocketsOwned
PROPERTIES StopEndsAttempt DestroyedClientDisconnects
