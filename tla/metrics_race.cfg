SPECIFICATION Spec
CONSTANTS
    Threads = {t1, t2}
    Names = {m1, m2}
    Labels = 2
    NoThread = NoThread
    MaxPushes = 2
INVARIANTS
    RowsAreComplete
CHECK_DEADLOCK FALSE
