SPECIFICATION Spec
CONSTANTS
    NumPorts = 5
    MaxUnits = 2
    MayExhaust = FALSE
INVARIANTS PushFailureReported PushedUnitAlive
