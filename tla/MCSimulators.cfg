SPECIFICATION FairSpec
CONSTANTS
    None = None
    MaxLosses = 1
    MaxLink = 1
    SatCounts = {12, 13}
    Window = 3
    MaxControls = 2
    MaxTimer = 2
INVARIANTS
    OverrideEnds
    ShownIsCurrent
    HandlersBeforeExit
PROPERTIES
    OffersOnceRegistered
    LateSubscriberCatchesUp
CHECK_DEADLOCK FALSE
