SPECIFICATION FairSpec
CONSTANTS
    Events = {1, 2, 3}
    Workers = {w1, w2}
    Sharing = {w1}
    Tokens <- ConstTokens
    NoToken = NoToken
    MaxAttempts = 2
    BatchSize = 2
    LockFor = 1
    BackoffBase = 2
    MaxBackoff = 1
    MaxDisturbances = 1
INVARIANTS
    PublishedWasAccepted
    LockTokenNamesOneBatch
    NoStrandedLock
    IInv
PROPERTIES
    ImplementsAtLeastOnce
    EverySubmittedEventSettles
CHECK_DEADLOCK FALSE
