SPECIFICATION FairSpec
CONSTANTS
    NbRun = 3
    MaxWorkers = 2
    NbMachines = 2
    Period = 5
    StartOf <- MCStartOf
    LengthOf <- MCLengthOf
    ClockSeeds = {3}
    IndexModulus = 4
    Never = Never
INVARIANTS
    TypeOK
    EveryMachineRuns
    UndisturbedRunsRepeat
PROPERTIES
    SimulationsEnd
CHECK_DEADLOCK FALSE
