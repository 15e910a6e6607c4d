SPECIFICATION Spec
CONSTANTS
    Processes = {p1, p2}
    Requests = {r1, r2}
    Stores = {"memory", "redis"}
    Limit = 2
    Second = 3
    Window = 6
    MaxDelay = 2
    Resends = 1
    Step = 2
    MaxFaults = 1
SYMMETRY RequestSymmetry
INVARIANTS
    TypeOK
    BurstIsBounded
    RetryAfterIsHonest
PROPERTIES
    ImplementsFixedWindow
