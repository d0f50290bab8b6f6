SPECIFICATION Spec
CONSTANTS
    PE = {1, 2}
    Base <- PagesApart
    HeapSize = 21
    MstateSize = 1
    MinLarge = 4
    Requests = {24, 56, 88}
    Counts = {0}
    Alignments = {3}
    Variables = 3
    MaxCalls = 5
INVARIANTS TypeOK HeapSound FreeChunksBinned SymmetricBlocks
