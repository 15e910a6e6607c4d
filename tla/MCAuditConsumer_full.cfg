SPECIFICATION FairSpec
CONSTANTS
    Events = {e1, e2}
    Malformed = {e2}
    Consumers = {c1, c2}
    Copies = {1, 2, 3, 4, 5}
    MaxRetries = 2
    LockFor = 2
    RetryTTL = 1
    Prefetch = 1
    FaultKinds = {"crash", "database", "connection", "nack"}
    Budget <- FullBudget
INVARIANTS
    TypeOK
    LossTakesAFault
    DeadLetterIsEarned
    OneHandlerAtATime
    HandledTwiceTakesAFault
PROPERTIES
    ProcessedIsFinal
    EveryEventSettles
CHECK_DEADLOCK FALSE
