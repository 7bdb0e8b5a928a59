SPECIFICATION FairSpec
CONSTANTS
    Threads = {t1, t2, t3}
    Names = {m1, m2}
    Labels = 2
    NoThread = NoThread
    MaxPushes = 1
INVARIANTS
    TypeOK
    OneHeaderFirst
PROPERTIES
    UndisturbedRowsAreComplete
    ImplementsLog
    PushesEnd
CHECK_DEADLOCK FALSE
