SPECIFICATION FairSpec
CONSTANTS
    Keys = {k1}
    Intervals = {0, 1}
    Never = Never
    EmptyNames = TRUE
    Skews = {0, 1}
    MaxEvents = 2
    MaxStates = 1
    MaxThrottles = 1
    MaxTime = 1
INVARIANTS
    NoOrphans
    NeverAddsToClosed
    RateLimited
PROPERTIES
    TokenRefills
    ReachesApp
CHECK_DEADLOCK FALSE
