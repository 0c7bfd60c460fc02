SPECIFICATION Spec
CONSTANTS
    a = a
    b = b
    c = c
    Wide = Wide
    Sessions <- MCSessions
    PerSession = FALSE
    MaxBuckets = 1
    Burst = 2
    Rate = 1
    Token = 7
    Second = 3
    MaxDuration = 5
    MaxClock = 16
INVARIANTS
    RetryIsTight
PROPERTIES
    RetryIsHonoured
