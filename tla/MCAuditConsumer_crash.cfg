SPECIFICATION Spec
CONSTANTS
    Events = {e1}
    Malformed = {}
    Consumers = {c1}
    Copies = {1, 2, 3}
    MaxRetries = 2
    LockFor = 2
    RetryTTL = 1
    Prefetch = 2
    FaultKinds = {"crash"}
    Budget <- OneFaultBudget
INVARIANT NoEventLost
CHECK_DEADLOCK FALSE
