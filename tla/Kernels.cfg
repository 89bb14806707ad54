SPECIFICATION Spec
CONSTANTS
    MatrixSizes = {1, 2, 3}
    Lengths = {1, 2, 3, 4, 5, 6, 7, 8}
    Chunk = 2
    Unknown = Unknown
    Radix = 4
    Digits = 2
    RangeCutoff = 1
    QuickCutoff = 2
    FlagCutoff = 2
    MaxLevel = 3
    CopyLimit = 4
    OutBits = 4
    WordBits = 2
    Warmup = 1
    ByteBits = 2
    BufferBits = 6
    Half = 3
    SortValues = {0, 1, 4, 5, 10, 15}
    SortLengths = {1, 2, 3, 4, 5}
    StreamValues = {0, 1, 7, 12}
    Period = 5
    SampleLength = 5
    Weights = {1, 2, 4}
    Counts = {0, 1, 3}
    TableSizes = {1, 2, 3, 4}
    MaxCount = 12
    TextLengths = {0, 1, 2, 3}
    TextWords <- MCTextWords
    GapStreams <- Streams
    GapSettings <- MCGapSettings
    WordGaps <- MCWordGaps
    MaxGets = 5
    MaxObjects = 3
    StdinWords = 7
    StdinBlocks = {1, 2, 3}
    CtrRange = 32
    Rounds = 2
    PolyWord = 3
    LargeSize = 2
    FactoredSizes = {2, 3, 4}
    LfsrIters = 5
    CounterIters = 17
    BmMargin = 0
    LfsrSizes = {2, 3, 4}
    MvalueBits = 8
    Log2Lengths = {19, 28, 29, 30, 31, 32, 33, 34, 35, 36}
    Log2Lambdas = {2, 3}
    NValues = 4
    Skips = {0, 1}
    ctr_max = 3
    BlockBits = 1
    PluginKinds = {"sound"}
    TableSize = 2
    Searches = {"xorshift", "xorrot24b", "xorshift long", "xoroshiro", "xoroshiro w8", "xorrot"}
    SearchThreads = {2, 3}
CHECK_DEADLOCK FALSE
INVARIANTS
    RanksAreCounted
    ComplexitiesAreMinimal
    LfsrIsExact
    SortsAreExact
    GapsAreCounted
    TestsAreExact
    HammingTestsAreExact
    Base64IsCanonical
    WordsAreDelivered
    BlocksAreInOrder
    BatteryFileIsExact
    SearchIsComplete
