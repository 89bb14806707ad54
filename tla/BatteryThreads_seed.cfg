SPECIFICATION Spec
CONSTANTS
    NThreads = 2
    NTests = 3
    NTHREADS_MAX = 2
    SeedsPerCreate = 1
    SeedsPerTest = 1
    Threading = "pthreads"
    SpawnMayFail = FALSE
INVARIANTS
    SeedsAreAttributed
    ReportIsComplete
PROPERTIES
    ReportIsPrinted
    ImplementsPool
