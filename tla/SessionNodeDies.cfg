SPECIFICATION Spec
CONSTANTS
    NumConns = 2
    NumLoops = 2
    MinPort = 0
    MaxPort = 2
    MaxRequests = 1
    MayCollide = FALSE
    MayDie = TRUE
CHECK_DEADLOCK FALSE
PROPERTY CallsTimeOut
