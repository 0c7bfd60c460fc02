SPECIFICATION Spec
CONSTANTS
    Alphabet <- FewSymbols
    Cap = 4
    ChunkSize = 6
    MaxStream = 9
INVARIANTS
    BufferBounded
    SplitsAgree
    StrictHides
