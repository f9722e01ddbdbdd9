SPECIFICATION FairSpec
CONSTANTS
    NumThreads = 2
    MaxConns = 2
    MaxUserCalls = 0
    LoopOps = {"send", "shutdown", "forceClose"}
    UserOps = {}
    KeepSession = FALSE
    MayDestroy = FALSE
    SignalAt = {"poll"}
INVARIANTS NoAssertFails DiesDisconnected CallbacksPaired OutputWatched ShutdownCompletes
PROPERTIES ClosedIsDestroyed
