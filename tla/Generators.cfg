\* Every plugin of the seven families, objects from three streams of seeds.
SPECIFICATION Spec
CONSTANTS
    SeedStreams = {"mixed", "zeros", "ones"}
    MaxOutputs = 3
    LowBits = 3
    FlipEvery = 3
INVARIANTS
    StatesStayApart
    PeriodsAreComplete
    NeverStands
    OutputsFit
    LagsAreKept
\* A plugin that has been examined is at its end.
CHECK_DEADLOCK FALSE
