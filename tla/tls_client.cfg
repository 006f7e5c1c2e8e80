\* Three requests, two failures, responses in one piece or two.  A send whose
\* connection is gone waits for ever, so the system may stop.
SPECIFICATION LiveSpec
CONSTANTS
    MaxSends = 3
    MaxFaults = 2
    SplitAnswers = TRUE
    SlowAnswers = TRUE
    NoPcb = NoPcb
    Torn = Torn
    NoStatus = NoStatus
    Unparsed = Unparsed
    NoCommand = NoCommand
INVARIANTS TypeOK StatusIsOwn SentOnce PcbIsAlive
PROPERTY SilentServerGivenUp
CHECK_DEADLOCK FALSE
