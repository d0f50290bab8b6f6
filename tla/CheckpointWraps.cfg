SPECIFICATION Spec
CONSTANTS
    Originals = 2
    Programs <- TwoRounds
    QueueLen = 2
    MayDie = {}
INVARIANTS CopiesComplete
CHECK_DEADLOCK FALSE
