\* One cycle of two attempts, with as many lost calls and answers, refusals and
\* a wrong network as often as they like: lost requests may arrive late and
\* queued transactions be dropped.  Two observation requests with ledgers
\* closing between them, a fallback maximum above the network's, a class that
\* may be too large for a footprint; a crash and a signal at any time.
\* The daemon stops for good on a signal, and the bounds end the rest.
CONSTANTS
    instance = instance
    balance = balance
    code = code
    NoSeq = NoSeq
    U32Max = 1000
    U64 = 100000
    Keys <- ThreeKeys
    Durability <- ThreeDurability
    Chunks = 2
    ChunkOf <- ThreeInTwo
    InitUntil = {1, 4}
    Horizon = 3
    NetMax = 2
    DefaultMax = 5
    MaxFootprint = 1
    RETRY_ATTEMPTS = 2
    BadSeqRecognised = TRUE
    Signals = {"SIGTERM"}
    Troubles = {"late", "dropped", "mismatch", "rejected"}
    MaxHeight = 2
    MaxForeign = 0
    MaxCycles = 1
    MaxFaults = 2
    MaxCrashes = 1
SPECIFICATION FairSpec
CHECK_DEADLOCK FALSE
INVARIANTS
    PlanTtlSound
    FeeInv
    FeeExposure
    PersistentFirst
PROPERTIES
    SuccessMeansSubmitted
    CycleTerminates
