SPECIFICATION FairSpec
CONSTANTS
    t1 = t1
    t2 = t2
    Tasks = {t1, t2}
    Ids = {t1, t2}
    Id <- OwnIds
    Priority <- FirstUrgent
    Workers = {w1, w2}
    NoTask = NoTask
    MinWorkers = 1
    MaxWorkers = 2
    MaxRetries = 1
    HighStreak = 2
    LowStreak = 2
    MaxStarts = 2
INVARIANTS
    TypeOK
    TasksConserved
    WorkVisible
    PoolSound
PROPERTIES
    TasksSettle
    StopReturns
    ImplementsLedger
CHECK_DEADLOCK FALSE
