SPECIFICATION FairSpec
CONSTANTS
    MaxSockets = 2
    KeepSession = FALSE
    Retry = FALSE
    MaxConnects = 1
    MaxStops = 1
    MaxDisconnects = 1
    LoopCalls = {"connect"}
    UserCalls = {}
    LoopOps = {}
    DestroyWhen = "any"
INVARIANTS NoClientAssertFails
CHECK_DEADLOCK FALSE
