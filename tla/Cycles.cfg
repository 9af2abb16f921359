\* What crashes, refusals, a lost call and a foreign submitter make of the
\* sequence cache and of the counters over two cycles.
\* The daemon stops for good on a signal, and the bounds end the rest.
CONSTANTS
    instance = instance
    balance = balance
    NoSeq = NoSeq
    U32Max = 1000
    U64 = 100000
    Keys <- TwoKeys
    Durability <- TwoDurability
    Chunks = 1
    ChunkOf <- TwoInOne
    InitUntil = {3}
    Horizon = 2
    NetMax = 2
    DefaultMax = 2
    MaxFootprint = 100
    RETRY_ATTEMPTS = 3
    BadSeqRecognised = TRUE
    Signals = {"SIGTERM"}
    Troubles = {"rejected"}
    MaxHeight = 1
    MaxForeign = 1
    MaxCycles = 2
    MaxFaults = 1
    MaxCrashes = 1
SPECIFICATION MetricsSpec
CHECK_DEADLOCK FALSE
INVARIANTS
    TypeOK
    SingleFaultRecovered
    SubmissionsBacked
PROPERTIES
    ImplementsRunLoop
