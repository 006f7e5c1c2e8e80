\* Two tasks, a record each; one fault, one power cycle.
SPECIFICATION LiveSpec
CONSTANTS
    co2 = co2
    net = net
    targetAddr = targetAddr
    ssidAddr = ssidAddr
    Tasks = {co2, net}
    Addresses = {targetAddr, ssidAddr}
    Owner <- MCOwner
    target = target
    lowTarget = lowTarget
    ssid = ssid
    Values = {target, lowTarget, ssid, Nothing}
    Asks <- MCAsks
    Whole = {target, ssid}
    Blank = {lowTarget, Nothing}
    Nothing = Nothing
    Scrambled = Scrambled
    Fragment = Fragment
    Erased = Erased
    Garbled = Garbled
    Zero = Zero
    Free = Free
    Elsewhere = Elsewhere
    Unknown = Unknown
    NoAnswer = NoAnswer
    Miss = Miss
    MaxFaults = 1
    MaxRestarts = 1
INVARIANTS TypeOK FailedReadHasCause
PROPERTIES ImplementsStore EveryCallReturns
