SPECIFICATION FairSpec
CONSTANTS
    Apps = {a1, a2}
    Starters = {t1, t2}
    Configs = {f1, f2}
    NoConfig = NoConfig
    Unreliable = {a1}
    StartedOnce = {a1}
INVARIANTS
    TypeOK
    OwnConfig
    NeverTerminates
    StopJoins
PROPERTIES
    StopReturns
CHECK_DEADLOCK FALSE
