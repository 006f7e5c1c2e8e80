\* A late, lost or garbled response, and two tasks.
SPECIFICATION LiveSpec
CONSTANTS
    ReqLen = 2
    TxDepth = 1
    TxLevel = 0
    RxSize = 7
    MaxFrames = 1
    MaxFaults = 1
INVARIANTS TypeOK ReadingsAreOwn NoByteLeftBehind
PROPERTY EveryTurnPublishes
