SPECIFICATION FairSpec
CONSTANTS
    PE_start = 1
    logPE_stride = 1
    PE_size = 4
    MaxCalls = 2
INVARIANTS TypeOK DataOnReturn NoExtraPoke PSyncRestored OneTree ServedOnReturn
PROPERTIES EveryCallReturns
