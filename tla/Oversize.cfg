\* Two persistent entries at risk and a footprint of one.
CONSTANTS
    instance = instance
    balance = balance
    code = code
    NoSeq = NoSeq
    U32Max = 1000
    U64 = 100000
    Keys <- ThreeKeys
    Durability <- ThreeDurability
    Chunks = 2
    ChunkOf <- ThreeInTwo
    InitUntil = {2}
    Horizon = 2
    NetMax = 3
    DefaultMax = 3
    MaxFootprint = 1
    RETRY_ATTEMPTS = 3
    BadSeqRecognised = TRUE
    Signals = {}
    Troubles = {}
    MaxHeight = 0
    MaxForeign = 0
    MaxCycles = 1
    MaxFaults = 0
    MaxCrashes = 0
SPECIFICATION Spec
CHECK_DEADLOCK FALSE
PROPERTIES
    EveryEntryExtended
