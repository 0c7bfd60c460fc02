SPECIFICATION FairSpec
CONSTANTS
    r1 = r1
    r2 = r2
    Requests <- TwoRequests
INVARIANTS
    OneEntryEach
    RefusedIsContained
    EntryIsTrue
    StopLosesNothing
PROPERTIES
    LedgerSpec
    HeadersArrive
    SignalStops
