SPECIFICATION Spec
CONSTANTS
    Values <- MCValues
    Entries <- MCEntries
    MaxList = 2
INVARIANTS
    DigestIsMeaning
    DigestIsSurface
    EveryStringIsScanned
