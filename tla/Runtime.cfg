CONSTANTS
    Globals = 2
    HeapSize = 20
    Privates = 3
    SHMEM_REDUCE_MIN_WRKDATA_SIZE = 2
    HeapBase <- MCHeapBase
    Programs <- MCPrograms

SPECIFICATION Spec

INVARIANTS TypeOK ReachesMemory SeenInOrder

PROPERTY EveryProgramEnds
