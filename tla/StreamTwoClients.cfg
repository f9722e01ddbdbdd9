SPECIFICATION Spec
CONSTANTS
    Clients = {"c1", "c2"}
    Tasks = {"t1"}
    Plain = {}
    Words = {"x"}
    Numerals = {"0", "1", "2"}
    MaxText = 2
    MaxPieces = 2
    MaxStreams = 2
    AnyText = FALSE
    Mixing = TRUE
    LoseFinish = FALSE
CHECK_DEADLOCK FALSE
INVARIANT AnswersWhole
