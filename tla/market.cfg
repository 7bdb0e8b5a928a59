SPECIFICATION FairSpec
CONSTANTS
    Caches = {c1, c2}
    Memory = 8
    Requested <- MCRequested
    SlabSize = 2
    WindowSize = 1
    TriggerIncrement = 75
    IncreasingSpeed = 50
    TriggerDecrement = 30
    DecreasingSpeed = 50
    SizeModulus = 64
    IntModulus = 16
    MaxWallet = 5
    MaxAdvised = 2
INVARIANTS
    TypeOK
    LedgerBalances
    NobodyTakesMoreThanItLeft
    NoIdleMemory
    FairShare
    ShrinkAsksForTheExcess
PROPERTIES
    PassEnds
    PassFitsMemory
    ImplementsSharedMemory
