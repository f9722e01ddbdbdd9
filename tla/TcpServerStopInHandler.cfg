SPECIFICATION Spec
CONSTANTS
    NumThreads = 0
    MaxConns = 1
    MaxUserCalls = 0
    LoopOps = {}
    UserOps = {}
    KeepSession = TRUE
    MayDestroy = TRUE
    SignalAt = {"handle"}
INVARIANTS ClosedCleanly
