SPECIFICATION Spec
CONSTANTS
    Threads = {t1, t2}
    Keys = {k1}
    Words = {0, 1, 2}
    Offsets = {1, 2}
    Values = {1, 2}
    Params = {0, 3}
    MaxWindow = 3
    None = None
    MaxSamples = 5
INVARIANTS
    OneFilterPerOffset
    MedianOfLastSamples
    SmoothedWithinSamples
SYMMETRY Symm
CHECK_DEADLOCK FALSE
