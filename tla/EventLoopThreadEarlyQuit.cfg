SPECIFICATION ThreadSpec
CONSTANTS
    Threads = {owner}
    Owner = owner
    LoopThread = loop
    Functors = {f1, f2, f3}
    IoChannels = {c1}
    WakeupChannel = wakeup
    None = none

PROPERTIES DestructorJoins
