SPECIFICATION FairSpec
CONSTANTS
    Originals = 2
    Programs <- OneRound
    QueueLen = 4
    MayDie = {}
PROPERTIES EveryCallReturns
CHECK_DEADLOCK FALSE
