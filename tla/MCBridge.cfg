SPECIFICATION Spec
CONSTANTS
    Clients = {c1, c2}
    Handles = {h1, h2}
    Events = {e1}
    Methods = {m1}
    None = None
    StateChange = StateChange
    ReuseAddresses = TRUE
    StaleCalls = FALSE
SYMMETRY Sym
INVARIANTS
    TypeOK
    DestroyedIsQuiet
    HandlersGoneBeforeStop
    RegistryConsistent
    NoEventWithoutHandler
CHECK_DEADLOCK FALSE
