\* Cycles of up to two attempts, two of them failing in a row; three seconds a
\* ledger and two ledgers until a transaction is applied; the least horizon that
\* the assumption allows, and an entry just above it.
CONSTANTS
    RETRY_ATTEMPTS = 2
    RETRY_BASE_DELAY = 1
    Poll = 5
    CycleTime = 1
    Signals = {"SIGTERM"}
    U32Max = 1000
    U64 = 100000
    Horizon = 9
    NetMax = 12
    Close = 3
    ApplyLedgers = 2
    MaxFailed = 2
    InitTtl = {10}
SPECIFICATION AliveSpec
CHECK_DEADLOCK FALSE
INVARIANTS
    NeverExpires
