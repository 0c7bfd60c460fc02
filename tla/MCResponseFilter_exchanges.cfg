SPECIFICATION Spec
CONSTANTS
    a = a
    b = b
    id1 = id1
    id2 = id2
    NoName = NoName
    NoId = NoId
    Tools <- MCTools
    Ids <- MCIds
    Confs <- MCConfs
    Bodies <- MCBodies
    Responses <- MCResponses
INVARIANTS
    ForwardedIsAllowed
    VisibleIsCallable
    DriftNeverShown
    DriftIsRecorded
    DeliveredWhole
    VerdictIsActedOn
