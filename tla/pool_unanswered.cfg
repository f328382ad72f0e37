\* One caller against Shutdown, with room for every task everywhere.
SPECIFICATION FairSpec
CONSTANTS
    Tasks = {t1}
    Dispatcher = Dispatcher
    None = None
    NWorkers = 1
    QueueLimit = 2
    LocalLimit = 2
    BatchSize = 10
    Turns = 1
    MayExpire = FALSE
PROPERTIES
    EveryFutureSettles
