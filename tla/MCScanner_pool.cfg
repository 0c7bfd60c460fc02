SPECIFICATION FairSpec
CONSTANTS
    c1 = c1
    c2 = c2
    s1 = s1
    s2 = s2
    Nobody = Nobody
    Nothing = Nothing
    Callers <- TwoCallers
    Slots <- TwoSlots
    MaxScans <- TwiceAndOnce
    Sizes = {1, 2}
    MaxSpawns = 3
    Closes = TRUE
INVARIANTS
    Exclusive
    VerdictIsOwn
    NoStrayProcess
PROPERTY ScanReturns
CHECK_DEADLOCK FALSE
