SPECIFICATION Spec
CONSTANTS
    k1 = k1
    k2 = k2
    NoKey = NoKey
    Keys <- MCKeys
    Ords <- MCOrds
    WordRange = 2
    BlockSeeds = 3
    SlogLen = 2
    SlogMaxLen = 7
    MaxSeeds = 9
INVARIANTS
    TypeOK
    LogIsHistory
    SeedsAreReplayable
    SeedsAreDistinct
