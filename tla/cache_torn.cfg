SPECIFICATION Spec
CONSTANTS
    Keys = {k1, k2}
    Slots = {s1, s2}
    NoSlot = NoSlot
    Requested = 2
    Estimates <- MCEstimates
    Radix = 2
    TimeModulus = 64
    MaxTime = 6
    KeyBufferSize = 2
    EvictionMayFail = TRUE
SYMMETRY Symmetry
PROPERTIES
    CleanSparesRecentItems
    ImplementsAgedCache
