SPECIFICATION FairSpec
CONSTANTS
    NRanks = 3
    PE = {0, 1, 2}
    LockAddr <- CongruentAddr
INVARIANTS TypeOK MutualExclusion CriticalWritesVisible SuccessorExists IInv
PROPERTIES FifoSpec EveryCallReturns
