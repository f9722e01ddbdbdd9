SPECIFICATION FairSpec
CONSTANTS
    MaxSockets = 2
    KeepSession = FALSE
    Retry = FALSE
    MaxConnects = 2
    MaxStops = 1
    MaxDisconnects = 1
    LoopCalls = {"connect"}
    UserCalls = {}
    LoopOps = {}
    DestroyWhen = "never"
INVARIANTS NoClientAssertFails
CHECK_DEADLOCK FALSE
