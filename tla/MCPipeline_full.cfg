SPECIFICATION FairSpec
CONSTANTS
    Deployments = {"memory", "local", "broker"}
    Events = {1, 2}
    Processes = {p1}
    Tokens <- ConstTokens
    NoToken = NoToken
    MaxAttempts = 1
    BatchSize = 2
    PublishLock = 1
    BackoffBase = 2
    MaxBackoff = 1
    MaxDisturbances = 1
    Copies = {1, 2, 3, 4}
    MaxRetries = 1
    InboxLock = 1
    RetryTTL = 1
    Prefetch = 1
    FaultKinds = {"crash", "connection", "nack"}
    Budget <- FullBudget
INVARIANTS
    PublishedIsInGoodHands
    UnsentTakesAnothersFailure
PROPERTIES
    EveryWriteIsAudited
CHECK_DEADLOCK FALSE
