SPECIFICATION FairSpec
CONSTANTS
    h1 = h1
    h2 = h2
    Free = Free
    Handlers <- TwoHandlers
    MaxLogs = 2
    MaxRestarts = 1
INVARIANTS
    TornSpoilsOne
PROPERTIES
    LedgerSpec
    LogReturns
