SPECIFICATION FairSpec
CONSTANTS
    Threads = {t1, t2}
    LoopThread = loop
    Functors = {f1, f2, f3}
    IoChannels = {c1}
    WakeupChannel = wakeup
    None = none
INVARIANTS TypeOK NoLostWakeup FunctorsInOrder
PROPERTIES FunctorsRun QuitStopsLoop ImplementsFunctorQueue
