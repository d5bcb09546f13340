SPECIFICATION FairSpec
CONSTANTS
    Clients = {c1, c2}
    Handles = {h1, h2}
    Events = {e1}
    Methods = {}
    None = None
    StateChange = StateChange
    ReuseAddresses = TRUE
    StaleCalls = TRUE
INVARIANTS
    NoUseAfterFree
    OwnAppOnly
PROPERTIES
    CloseReturns
CHECK_DEADLOCK FALSE
