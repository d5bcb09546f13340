SPECIFICATION FairSpec
CONSTANTS
    Threads = {t1, t2}
    Buffers = {b1, b2, b3}
    None = None
    MaxQueue = 1
INVARIANTS
    FreedOnce
    DartSeesLive
PROPERTIES
    FreedInTheEnd
CHECK_DEADLOCK FALSE
