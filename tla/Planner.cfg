\* A command that plans and one that reads or signs, a request at a time, while
\* two ledgers close; the maximum built into the command above the network's; a
\* request too large for a footprint, and simulations that ask for more than a
\* u32 holds.  The commands of the operator come to an end.
CONSTANTS
    instance = instance
    balance = balance
    allowance = allowance
    ghost = ghost
    U32Max = 1000
    U64 = 100000
    Keys <- FourKeys
    Durability <- KeyDurability
    Phantom = {ghost}
    InitUntil = {1}
    NetMax = 3
    BuiltinMax = 5
    MinTtl = 2
    Requests <- SomeRequests
    Windows = {50}
    Batch = 1
    BaseFee = 100
    Fees = {0, 950, 99999}
    MaxFootprint = 2
    HandEdits = TRUE
    MaxHeight = 2
    MaxCommands = 2
SPECIFICATION Spec
CHECK_DEADLOCK FALSE
INVARIANTS
    ReadBack
    DurabilityOfKey
    ShownRowsSound
    FeeSound
    SentAsMade
