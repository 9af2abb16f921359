\* A poll interval shorter than a cycle with all its retries, so that ticks
\* are missed and ready together with the signals.
CONSTANTS
    RETRY_ATTEMPTS = 3
    RETRY_BASE_DELAY = 1
    Poll = 4
    CycleTime = 2
    Signals = {"SIGTERM", "SIGINT"}
SPECIFICATION FairSpec
CHECK_DEADLOCK FALSE
INVARIANTS
    TypeOK
    CadenceKept
PROPERTIES
    NoBurst
    ShutdownHonoured
    ImplementsRunLoop
