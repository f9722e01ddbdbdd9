SPECIFICATION NodeSpec
CONSTANTS
    NumPorts = 6
    MaxUnits = 3
    MayExhaust = FALSE
    TaskCount = 1
    Urls = {1, 2}
    MaxRequests = 3
    MayTimeout = TRUE
    MayStop = TRUE
    Leaving = {1}
INVARIANTS NodeSurvives UnitsOwned SubscribersBacked
PROPERTIES RequestsAnswered RemoteCallReturns DestructorEnds
CHECK_DEADLOCK FALSE
