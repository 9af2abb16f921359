\* Every configuration of MCStartUp, checked first or started at once.
\* A refused configuration and the first observation are where it ends.
CONSTANTS
    U32Max = 1000
    U64 = 100000
    Configs <- Starts
SPECIFICATION Spec
CHECK_DEADLOCK FALSE
INVARIANTS
    LoopPreconditions
    CheckPredicts
