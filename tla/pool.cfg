\* Two workers, so that Shutdown scans and stops them one after the other
\* while tasks still arrive; its context may expire.
SPECIFICATION FairSpec
CONSTANTS
    Tasks = {t1, t2}
    Dispatcher = Dispatcher
    None = None
    NWorkers = 2
    QueueLimit = 1
    LocalLimit = 1
    BatchSize = 1
    Turns = 2
    MayExpire = TRUE
INVARIANTS
    OneHolder
PROPERTIES
    KeepsTheLedger
    ShutdownReturns
