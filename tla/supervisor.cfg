SPECIFICATION SFairSpec
CONSTANTS
    Caches = {c1, c2}
    Keys = {k1}
    Operations = {"get", "set"}
    MaxLines = 2
    MaxTimestamp = 2
    MaxGap = 2
    NbSeconds = 2
INVARIANTS
    STypeOK
    ClockNotAhead
    OneLineAfterTheEnd
    RequestsAreReported
    LinesOnTime
    JoinsWhenAllFinished
    EverythingIsReported
PROPERTIES
    ProgramEnds
CHECK_DEADLOCK FALSE
