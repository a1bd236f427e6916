SPECIFICATION FairSpec
CONSTANTS
    Workers = {w1, w2}
    Users = {u1, u2}
    Owner = owner
    Tasks = {t1, t2, t3, t4, t5}
    NoTask = NoTask
INVARIANTS
    TypeOK
    QueueBounded
    NoIdleWorker
    NoStrandedCaller
    NothingLostAtStop
PROPERTIES
    Implements
    SubmitReturns
    StopReturns
    EveryTaskExecuted
