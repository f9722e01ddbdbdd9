SPECIFICATION Spec
CONSTANTS
    Limit = 4
    MaxPeers = 4
    Stealing = TRUE
PROPERTY BacklogServed
