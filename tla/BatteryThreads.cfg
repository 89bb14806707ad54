SPECIFICATION Spec
CONSTANTS
    NThreads = 3
    NTests = 4
    NTHREADS_MAX = 3
    SeedsPerCreate = 1
    SeedsPerTest = 0
    Threading = "pthreads"
    SpawnMayFail = TRUE
INVARIANTS
    TypeOK
    WorkerFindsItself
    NoUseAfterFree
    SlotsAreDisjoint
    ReproducibleResults
PROPERTIES
    ResultsAreFinal
