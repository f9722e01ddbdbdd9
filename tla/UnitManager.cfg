SPECIFICATION Spec
CONSTANTS
    NumPorts = 5
    MaxUnits = 4
    MayExhaust = FALSE
INVARIANTS PortsOwned TableAlive
