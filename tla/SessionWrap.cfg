SPECIFICATION Spec
CONSTANTS
    NumConns = 4
    NumLoops = 2
    MinPort = 0
    MaxPort = 1
    MaxRequests = 1
    MayCollide = TRUE
    MayDie = FALSE
CHECK_DEADLOCK FALSE
INVARIANT AnswersToAsker
