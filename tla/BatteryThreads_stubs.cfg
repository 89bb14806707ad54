SPECIFICATION Spec
CONSTANTS
    NThreads = 2
    NTests = 2
    NTHREADS_MAX = 2
    SeedsPerCreate = 1
    SeedsPerTest = 0
    Threading = "stubs"
    SpawnMayFail = FALSE
INVARIANTS
    NeverExits
