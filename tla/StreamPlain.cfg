SPECIFICATION Spec
CONSTANTS
    Clients = {"c1"}
    Tasks = {"t1"}
    Plain = {"t1"}
    Words = {"x"}
    Numerals = {"0", "1", "2"}
    MaxText = 2
    MaxPieces = 2
    MaxStreams = 2
    AnyText = FALSE
    Mixing = FALSE
    LoseFinish = FALSE
CHECK_DEADLOCK FALSE
INVARIANT PlainAnswered
