SPECIFICATION Spec
CONSTANTS
    ServiceId = 4660
    InstanceId = 1
    EventIds = {32769, 32770}
    Client = 4929
    Values = {v1}
    Empty = Empty
    None = None
    MaxOffers = 3
    MaxSubscribes = 2
    MaxQueue = 1
INVARIANTS
    FieldViewIsCurrent
    AvailabilityIsCurrent
    HeardWhole
CHECK_DEADLOCK FALSE
