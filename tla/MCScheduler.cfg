SPECIFICATION FairSpec
CONSTANTS
    Tasks = {t1, t2}
    Clients = {c1, c2}
    MaxID = 2
    FirstIDs = {1}
    MaxDelay = 2
    MaxTime = 2
    None = None
INVARIANTS
    TypeOK
PROPERTIES
    ImplementsBoard
    TakenInOrder
    TaskServed
    ShutdownReturns
CHECK_DEADLOCK FALSE
