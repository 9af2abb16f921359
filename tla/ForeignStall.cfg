\* One foreign submission between the two plans of a cycle.
CONSTANTS
    instance = instance
    balance = balance
    code = code
    NoSeq = NoSeq
    U32Max = 1000
    U64 = 100000
    Keys <- TwoKeys
    Durability <- TwoDurability
    Chunks = 1
    ChunkOf <- TwoInOne
    InitUntil = {2}
    Horizon = 2
    NetMax = 3
    DefaultMax = 3
    MaxFootprint = 100
    RETRY_ATTEMPTS = 3
    BadSeqRecognised = TRUE
    Signals = {}
    Troubles = {}
    MaxHeight = 1
    MaxForeign = 1
    MaxCycles = 1
    MaxFaults = 0
    MaxCrashes = 0
SPECIFICATION Spec
CHECK_DEADLOCK FALSE
INVARIANTS
    ForeignDoesNotStall
