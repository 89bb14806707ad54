SPECIFICATION Spec
CONSTANTS
    NTests = 2
    MaxThreads = 4
    Cores = 3
    Radix = 2
    MaxArgs = 3
    Batteries = {"tests", "badfile", "special", "stdout", "unknown"}
    Generators <- MCGenerators
INVARIANTS
    TypeOK
    SeedReproducesRun
    ThreadsNeedLocks
    ZeroMeansPassed
    PluginOutputIsClean
