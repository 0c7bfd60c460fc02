SPECIFICATION Spec
CONSTANTS
    Alphabet <- FewSymbols
    Cap = 2
    ChunkSize = 6
    MaxStream = 7
INVARIANT EverySplitAgrees
