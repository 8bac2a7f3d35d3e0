SPECIFICATION FairSpec
CONSTANTS
    Facts = {f1, f2}
    MaxSecrets = 1
    MaxKeys = 2
    MaxBatch = 1
    MaxAttempts = 2
    MaxDelay = 3
    Tolerance = 2
    MaxCrashes = 1
INVARIANTS
    TypeOK
    HandledOnce
    DeliveredWasHandled
PROPERTIES
    EventEnds
CHECK_DEADLOCK FALSE
