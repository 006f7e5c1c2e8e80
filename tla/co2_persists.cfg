\* A target with a zero byte is lost over a power cycle.
SPECIFICATION Spec
CONSTANTS
    TickMod = 3
    ValveTimeout = 1
    RetryTimeout = 1
    LoopDelay = 1
    MaxIo = 0
    WriteCycle = 0
    Co2Min = 200
    Co2Max = 1500
    DefaultTarget = 900
    Hysteresis = 50
    Readings = {100}
    Commands = {0, 700, 1700}
    InitialRecords <- UsedDevice
    NoData = NoData
    NoTarget = NoTarget
    Erased = Erased
    Garbled = Garbled
    TornWords = {}
    AgeCap = 3
    MaxFaults = 0
    MaxRestarts = 1

PROPERTY TargetPersists
