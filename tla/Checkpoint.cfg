SPECIFICATION AnySpec
CONSTANTS
    Originals = 2
    Programs <- TwoPrograms
    MatmulPrograms <- Mains
    QueueLen = 4
    MayDie = {0, 2}
    Rands = {1, 2}
INVARIANTS AnyTypeOK IdsAreIndices PlaceReserved StoredCopies PartsPlayed OneCheckpoint
INVARIANTS CandidateCopies NeverStuck
CHECK_DEADLOCK FALSE
