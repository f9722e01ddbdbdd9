SPECIFICATION Spec
CONSTANTS
    NumPorts = 5
    MaxUnits = 3
    MayExhaust = TRUE
INVARIANTS PortsConfigured
