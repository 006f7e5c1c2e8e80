\* Nothing fails and the server answers: two requests, one after the other.
SPECIFICATION ServedSpec
CONSTANTS
    MaxSends = 2
    MaxFaults = 0
    SplitAnswers = FALSE
    SlowAnswers = FALSE
    NoPcb = NoPcb
    Torn = Torn
    NoStatus = NoStatus
    Unparsed = Unparsed
    NoCommand = NoCommand
PROPERTY SendReturns
CHECK_DEADLOCK FALSE
