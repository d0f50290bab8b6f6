SPECIFICATION CollectSpec
CONSTANTS
    start = 1
    log2stride = 1
    size = 4
    Writers = {}
    MaxEpisodes = 1
    nelems <- Growing
INVARIANTS CollectTypeOK OffsetsInOrder LeavesInOrder FlushedOnReturn
CHECK_DEADLOCK FALSE
