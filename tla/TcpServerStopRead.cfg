SPECIFICATION Spec
CONSTANTS
    NumThreads = 1
    MaxConns = 1
    MaxUserCalls = 1
    LoopOps = {"stopRead"}
    UserOps = {"forceClose"}
    KeepSession = FALSE
    MayDestroy = FALSE
    SignalAt = {"poll"}
INVARIANTS ClosedOnce
