SPECIFICATION Spec
CONSTANTS
    NumThreads = 1
    MaxConns = 1
    MaxUserCalls = 0
    LoopOps = {"shutdown"}
    UserOps = {}
    KeepSession = FALSE
    MayDestroy = TRUE
    SignalAt = {"poll"}
INVARIANTS RemovedChannelIsQuiet RemoveOnLiveServer DiesDisconnected
