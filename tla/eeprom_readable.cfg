\* No faults: a read that comes in the write cycle of another task's record.
SPECIFICATION Spec
CONSTANTS
    co2 = co2
    net = net
    targetAddr = targetAddr
    ssidAddr = ssidAddr
    Tasks = {co2, net}
    Addresses = {targetAddr, ssidAddr}
    Owner <- MCOwner
    target = target
    lowTarget = lowTarget
    ssid = ssid
    Values = {target, lowTarget, ssid, Nothing}
    Asks <- MCAsks
    Whole = {target, ssid}
    Blank = {lowTarget, Nothing}
    Nothing = Nothing
    Scrambled = Scrambled
    Fragment = Fragment
    Erased = Erased
    Garbled = Garbled
    Zero = Zero
    Free = Free
    Elsewhere = Elsewhere
    Unknown = Unknown
    NoAnswer = NoAnswer
    Miss = Miss
    MaxFaults = 0
    MaxRestarts = 0
INVARIANT StoredCanBeRead
