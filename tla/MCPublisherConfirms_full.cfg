SPECIFICATION FairSpec
CONSTANTS
    Events = {e1, e2}
    Retry = Retry
    ConfirmsCapacity = 1
    MaxDeliveries = 3
INVARIANTS
    TypeOK
    BehindByUnawaited
PROPERTIES
    PublishReturns
    DeliveriesFlow
CHECK_DEADLOCK FALSE
