SPECIFICATION Spec
CONSTANTS
    Events = {1, 2}
    Workers = {w1}
    Sharing = {w1}
    Tokens <- ConstTokens
    NoToken = NoToken
    MaxAttempts = 2
    BatchSize = 2
    LockFor = 1
    BackoffBase = 2
    MaxBackoff = 2
    MaxDisturbances = 0
INVARIANT DeadWasTried
CHECK_DEADLOCK FALSE
