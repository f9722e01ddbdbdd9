SPECIFICATION Spec
CONSTANTS
    Limit = 4
    MaxPeers = 4
    Stealing = FALSE
PROPERTY BacklogServed
