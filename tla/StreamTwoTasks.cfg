SPECIFICATION Spec
CONSTANTS
    Clients = {"c1", "c2"}
    Tasks = {"t1", "t2"}
    Plain = {}
    Words = {"x"}
    Numerals = {"0", "1", "2"}
    MaxText = 2
    MaxPieces = 1
    MaxStreams = 2
    AnyText = FALSE
    Mixing = FALSE
    LoseFinish = FALSE
CHECK_DEADLOCK FALSE
INVARIANT AnswersWhole
