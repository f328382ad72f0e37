\* One worker whose queues are full while the loop has a task to hand out: its
\* second Enqueue races with a caller's, and Shutdown with both.
SPECIFICATION SpecWhenFull
CONSTANTS
    t1 = t1
    t2 = t2
    t3 = t3
    t4 = t4
    Tasks = {t1, t2, t3, t4}
    Dispatcher = Dispatcher
    None = None
    NWorkers = 1
    QueueLimit = 1
    LocalLimit = 1
    BatchSize = 1
    Turns = 1
    MayExpire = TRUE
INVARIANTS
    TypeOK
    OneHolder
    QueueHasOneConsumer
PROPERTY
    OnlyKnownLosses
