SPECIFICATION Spec
CONSTANTS
    NTests = 2
    MaxThreads = 2
    Cores = 3
    Radix = 2
    MaxArgs = 2
    Batteries = {"tests", "badfile", "special", "stdout", "unknown"}
    Generators <- MCGenerators
INVARIANT
    FilterIsApplied
