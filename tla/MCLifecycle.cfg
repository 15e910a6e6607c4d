SPECIFICATION FairSpec
CONSTANTS
    Instances = {p1, p2}
    Self = p1
    Known <- ConstKnown
    MaxFaults = 2
    Requests = {r1, r2}
    Callers = {r1, r2}
    Workers <- ConstWorkers
    QueueSize = 1
    MaxRecords = 3
INVARIANTS
    TypeOK
    ResourcesOutliveTheirUsers
    NothingRecordedIsLost
    SchemaIsWhole
PROPERTIES
    SignalEndsProcess
    StartsUnlessHalfDone
