SPECIFICATION FairSpec
CONSTANTS
    N <- MCN
    Entries = {e1, e2}
    NoEntry = NoEntry
    MaxPushes <- MCMaxPushes
INVARIANTS
    TypeOK
    NoDataRace
    FifoDelivery
    SizeIsSafe
PROPERTIES
    RefinesFifo
    AcceptedIsDelivered
