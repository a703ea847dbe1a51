SPECIFICATION FairSpec
CONSTANTS
    Thread = {t1, t2}
    Caller = caller
    NoOwner = nobody
    Broken = broken
    MaxTask = 3
CHECK_DEADLOCK FALSE
INVARIANTS
    OneInside
    TaskConserved
    SoloSafe
    WaiterOwns
    
PROPERTIES
    JoinReturns
    ImplementsPool
    ExitRunsDown
