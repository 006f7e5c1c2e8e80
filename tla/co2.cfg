\* Doses, memory and liveness: a failed transaction, a power cycle at any point.
SPECIFICATION LiveSpec
CONSTANTS
    TickMod = 6
    ValveTimeout = 2
    RetryTimeout = 2
    LoopDelay = 1
    MaxIo = 1
    WriteCycle = 1
    Co2Min = 200
    Co2Max = 1500
    DefaultTarget = 900
    Hysteresis = 50
    Readings = {870}
    Commands = {0, 1700}
    InitialRecords <- NewDevice
    NoData = NoData
    NoTarget = NoTarget
    Erased = Erased
    Garbled = Garbled
    TornWords = {1000}
    AgeCap = 6
    MaxFaults = 1
    MaxRestarts = 1
INVARIANTS TypeOK DoseLength PromptClose ControlTargetInRange
PROPERTIES ImplementsDosing RestoredAfterRestart ValveCloses LowCo2IsDosed CommandPersisted
