SPECIFICATION FairServiceSpec
CONSTANTS
    Keys = {k1, k2}
    Slots = {s1, s2}
    NoSlot = NoSlot
    Requested = 2
    Estimates <- MCEstimates
    Radix = 2
    TimeModulus = 64
    MaxTime = 2
    KeyBufferSize = 1
    EvictionMayFail = TRUE
    Cache = c1
    Operations = {"get", "set"}
    MaxLines = 3
    MaxTimestamp = 2
    MaxGap = 2
    NbSeconds = 2
INVARIANTS
    ServiceTypeOK
PROPERTIES
    ImplementsProgram
    CleanGoesByTheTrace
    ServiceEnds
CHECK_DEADLOCK FALSE
