SPECIFICATION Spec
CONSTANTS
    NRanks = 3
    PE = {0,1,2}
    LockAddr <- PageAddr
INVARIANT MutualExclusion
