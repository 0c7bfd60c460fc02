SPECIFICATION Spec
CONSTANTS
    c1 = c1
    c2 = c2
    s1 = s1
    s2 = s2
    Nobody = Nobody
    Nothing = Nothing
    Callers <- TwoCallers
    Slots <- OneSlot
    MaxScans <- OneEach
    Sizes = {1}
    MaxSpawns = 2
    Closes = TRUE
INVARIANT CloseReapsAll
CHECK_DEADLOCK FALSE
