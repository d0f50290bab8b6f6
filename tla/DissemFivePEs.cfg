SPECIFICATION Spec
CONSTANTS
    start = 0
    log2stride = 0
    size = 5
    Writers = {}
    MaxEpisodes = 1
INVARIANTS WithinPSync
