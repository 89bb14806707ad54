SPECIFICATION Spec
CONSTANTS
    MatrixSizes = {}
    Lengths = {}
    Chunk = 2
    Unknown = Unknown
    Radix = 4
    Digits = 2
    RangeCutoff = 1
    QuickCutoff = 2
    FlagCutoff = 2
    MaxLevel = 3
    CopyLimit = 4
    OutBits = 4
    WordBits = 2
    Warmup = 1
    ByteBits = 2
    BufferBits = 6
    Half = 3
    SortValues = {0, 1, 4, 5, 10, 15}
    SortLengths = {}
    StreamValues = {0, 1, 7, 12}
    Period = 5
    SampleLength = 5
    Weights = {1, 2, 4}
    Counts = {0, 1, 3}
    TableSizes = {}
    MaxCount = 0
    TextLengths = {}
    TextWords <- MCTextWords
    GapStreams <- Streams
    GapSettings <- MCGapSettings
    WordGaps <- MCWordGaps
    MaxGets = 5
    MaxObjects = 3
    StdinWords = 7
    StdinBlocks = {}
    CtrRange = 32
    Rounds = 2
    PolyWord = 3
    LargeSize = 2
    FactoredSizes = {2, 3, 4}
    LfsrIters = 5
    CounterIters = 17
    BmMargin = 0
    LfsrSizes = {}
    MvalueBits = 8
    Log2Lengths = {}
    Log2Lambdas = {2, 3}
    NValues = 4
    Skips = {0, 1}
    ctr_max = 3
    BlockBits = 1
    PluginKinds = {}
    TableSize = 2
    Searches = {}
    SearchThreads = {2, 3}
CHECK_DEADLOCK FALSE
INVARIANTS
    MonobitIsDocumented
