SPECIFICATION FairSpec
CONSTANTS
    NumThreads = 2
    MaxConns = 2
    MaxUserCalls = 1
    LoopOps = {}
    UserOps = {"send"}
    KeepSession = TRUE
    MayDestroy = TRUE
    SignalAt = {"poll", "run"}
INVARIANTS BareFunctorsAlive ClosedCleanly
PROPERTIES DestructorReturns
