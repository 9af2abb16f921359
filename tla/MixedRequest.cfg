\* One entry of the request has expired, the other has not.
CONSTANTS
    instance = instance
    balance = balance
    allowance = allowance
    ghost = ghost
    U32Max = 1000
    U64 = 100000
    Keys <- TwoKeys
    Durability <- TwoDurability
    Phantom = {}
    InitUntil = {0, 1}
    NetMax = 3
    BuiltinMax = 3
    MinTtl = 2
    Requests <- Pair
    Windows = {10}
    Batch = 1
    BaseFee = 100
    Fees = {0}
    MaxFootprint = 2
    HandEdits = FALSE
    MaxHeight = 2
    MaxCommands = 1
SPECIFICATION Spec
CHECK_DEADLOCK FALSE
INVARIANT
    RequestIsDead
