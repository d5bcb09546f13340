SPECIFICATION Spec
CONSTANTS
    Threads = {t1}
    Buffers = {b1, b2}
    None = None
    MaxQueue = 1
INVARIANTS
    ListenerSeesLive
CHECK_DEADLOCK FALSE
