SPECIFICATION Spec
CONSTANTS
    NumThreads = 1
    MaxConns = 1
    MaxUserCalls = 1
    LoopOps = {}
    UserOps = {"forceClose"}
    KeepSession = FALSE
    MayDestroy = FALSE
    SignalAt = {"poll"}
INVARIANTS RemovedOnce
