SPECIFICATION CollectFairSpec
CONSTANTS
    start = 0
    log2stride = 0
    size = 2
    Writers = {}
    MaxEpisodes = 1
    nelems <- Growing
PROPERTIES EveryCallReturns
CHECK_DEADLOCK FALSE
