SPECIFICATION Spec
CONSTANTS
    Events = {e1}
    Retry = Retry
    ConfirmsCapacity = 1
    MaxDeliveries = 1
INVARIANT PublishedWasConfirmed
CHECK_DEADLOCK FALSE
