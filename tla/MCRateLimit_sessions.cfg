SPECIFICATION Spec
CONSTANTS
    a = a
    b = b
    c = c
    Wide = Wide
    Sessions <- MCSessions
    PerSession = TRUE
    MaxBuckets = 2
    Burst = 2
    Rate = 2
    Token = 7
    Second = 2
    MaxDuration = 100
    MaxClock = 5
SYMMETRY Symmetry
INVARIANTS
    TypeOK
    TableBounded
    AdmissionBound
    FreshBurstNeedsCrowd
PROPERTIES
    MeterSpec
