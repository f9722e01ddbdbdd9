SPECIFICATION Spec
CONSTANTS
    Clients = {"c1", "c2"}
    Tasks = {"t1"}
    Plain = {}
    Words = {"index", "o", "c"}
    Numerals = {"0", "1", "2"}
    MaxText = 2
    MaxPieces = 2
    MaxStreams = 2
    AnyText = FALSE
    Mixing = FALSE
    LoseFinish = FALSE
CHECK_DEADLOCK FALSE
INVARIANTS
    AnswersWhole
    DiesOfLossOnly
PROPERTY StreamsAnswered
