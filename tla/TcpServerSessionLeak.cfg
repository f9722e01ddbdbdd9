SPECIFICATION FairSpec
CONSTANTS
    NumThreads = 1
    MaxConns = 1
    MaxUserCalls = 0
    LoopOps = {}
    UserOps = {}
    KeepSession = TRUE
    MayDestroy = FALSE
    SignalAt = {"poll"}
PROPERTIES ClosedIsDestroyed
