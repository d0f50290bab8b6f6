SPECIFICATION FairSpec
CONSTANTS
    start = 1
    log2stride = 1
    size = 4
    Writers = {1, 7}
    MaxEpisodes = 2
INVARIANTS TypeOK PokesAreCounted PSyncRestored FlushedOnReturn
PROPERTIES KeepsPromise EveryCallReturns
