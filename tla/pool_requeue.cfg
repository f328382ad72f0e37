\* One worker that is full, one task in the global queue, and one more caller.
SPECIFICATION Spec
CONSTANTS
    Tasks = {t1, t2, t3, t4}
    Dispatcher = Dispatcher
    None = None
    NWorkers = 1
    QueueLimit = 1
    LocalLimit = 1
    BatchSize = 10
    Turns = 1
    MayExpire = FALSE
SYMMETRY TaskSymmetry
INVARIANTS
    RequeueKeepsTask
