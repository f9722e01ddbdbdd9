SPECIFICATION Spec
CONSTANTS
    Clients = {"c1"}
    Tasks = {"t1"}
    Plain = {}
    Words = {"q", "b", "x"}
    Numerals = {"0", "1", "2"}
    MaxText = 2
    MaxPieces = 1
    MaxStreams = 2
    AnyText = TRUE
    Mixing = FALSE
    LoseFinish = FALSE
CHECK_DEADLOCK FALSE
INVARIANT AnswersWhole
