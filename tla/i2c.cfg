\* Writes, reads and both, longer than the FIFOs; late notifications.
SPECIFICATION LiveSpec
CONSTANTS
    a = a
    b = b
    Tasks = {a, b}
    Requests <- RequestsMC
    Depth = 2
    Free = Free
    MaxLag = 1
    MaxTimeouts = 2
INVARIANTS TypeOK WireIsRequested CountIsTrue
PROPERTY CallReturns
