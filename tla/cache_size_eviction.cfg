SPECIFICATION Spec
CONSTANTS
    Keys = {k1, k2}
    Slots = {s1, s2, s3}
    NoSlot = NoSlot
    Requested = 3
    Estimates <- MCEstimates
    Radix = 2
    TimeModulus = 64
    MaxTime = 2
    KeyBufferSize = 1
    EvictionMayFail = FALSE
INVARIANTS
    SizeEvictionIsASize
