SPECIFICATION Spec
CONSTANTS
    NumConns = 4
    NumLoops = 2
    MinPort = 0
    MaxPort = 1
    MaxRequests = 1
    MayCollide = FALSE
    MayDie = TRUE
CHECK_DEADLOCK FALSE
INVARIANTS
    CounterBounded
    AnswersToAsker
PROPERTY CallbacksEnd
