\* Timing, lost requests and a power cycle.
SPECIFICATION LiveSpec
CONSTANTS
    TickMod = 8
    AdjustInterval = 2
    LoopDelay = 1
    MaxIo = 2
    FanMin = 150
    FanMax = 1000
    Critical = 2000
    CriticalDiff = 1000
    Readings = {1999, 5000}
    InitialSpeeds = {150}
    Misreads = {40000}
    NoData = NoData
    NoSpeed = NoSpeed
    AgeCap = 12
    MaxFaults = 2
    MaxRestarts = 1
INVARIANTS TypeOK ReportedSpeedIsTrue CriticalTurnsTheFan
PROPERTIES CriticalIsVentilated SafeStopsTheFan
