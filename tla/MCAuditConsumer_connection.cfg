SPECIFICATION FairSpec
CONSTANTS
    Events = {e1}
    Malformed = {}
    Consumers = {c1}
    Copies = {1, 2, 3, 4}
    MaxRetries = 2
    LockFor = 2
    RetryTTL = 1
    Prefetch = 2
    FaultKinds = {"connection"}
    Budget <- OneFaultBudget
PROPERTY ConsumptionResumes
CHECK_DEADLOCK FALSE
