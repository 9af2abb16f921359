\* The node refuses submissions and may be of the wrong network.
CONSTANTS
    instance = instance
    balance = balance
    NoSeq = NoSeq
    U32Max = 1000
    U64 = 100000
    Keys <- TwoKeys
    Durability <- TwoDurability
    Chunks = 1
    ChunkOf <- TwoInOne
    InitUntil = {3}
    Horizon = 2
    NetMax = 3
    DefaultMax = 3
    MaxFootprint = 100
    RETRY_ATTEMPTS = 3
    BadSeqRecognised = TRUE
    Signals = {}
    Troubles = {"rejected", "mismatch"}
    MaxHeight = 1
    MaxForeign = 0
    MaxCycles = 2
    MaxFaults = 0
    MaxCrashes = 0
SPECIFICATION MetricsSpec
CHECK_DEADLOCK FALSE
INVARIANTS
    AcceptedIsExact
