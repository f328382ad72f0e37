\* Two workers; see the scenarios of MCScheduler. The system may stop: workers
\* without tasks wait, and nobody has to schedule anything.
SPECIFICATION FairSpec
CONSTANTS
    t1 = t1
    t2 = t2
    t3 = t3
    t4 = t4
    t5 = t5
    t6 = t6
    Tasks = {t1, t2, t3, t4, t5, t6}
    None = None
    NWorkers = 2
    LocalLimit = 2
    MaxRestarts = 2
    Scenarios <- AllScenarios
    Priority <- TaskPriority
    Levels <- TaskLevels
    NormalLevel = 0
    BatchAt <- OneEach
    GlobalBatch = 1
    LevelLimit = 1
    QueueLimit = 1
    StealThreshold = 1
    MaxScans = 1
    MaxStarts = 2
INVARIANTS
    TypeOK
    OneHolder
PROPERTIES
    KeepsTheLedger
    OnlyKnownLosses
    StopReturns
CHECK_DEADLOCK FALSE
