\* Nothing fails; a callback of the first connection closes the second.
SPECIFICATION Spec
CONSTANTS
    MaxSends = 2
    MaxFaults = 0
    SplitAnswers = FALSE
    SlowAnswers = FALSE
    NoPcb = NoPcb
    Torn = Torn
    NoStatus = NoStatus
    Unparsed = Unparsed
    NoCommand = NoCommand
INVARIANT SetUpIsSafe
CHECK_DEADLOCK FALSE
