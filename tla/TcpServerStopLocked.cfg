SPECIFICATION FairSpec
CONSTANTS
    NumThreads = 1
    MaxConns = 1
    MaxUserCalls = 0
    LoopOps = {}
    UserOps = {}
    KeepSession = TRUE
    MayDestroy = TRUE
    SignalAt = {"lock"}
PROPERTIES DestructorReturns
CHECK_DEADLOCK FALSE
