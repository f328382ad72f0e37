\* One worker whose monitor panics: it starts its goroutine again.
SPECIFICATION Spec
CONSTANTS
    t1 = t1
    t2 = t2
    t3 = t3
    t4 = t4
    t5 = t5
    t6 = t6
    Tasks = {t1, t2, t3, t4, t5, t6}
    None = None
    NWorkers = 2
    LocalLimit = 2
    MaxRestarts = 2
    Scenarios <- OnlyPanics
    Priority <- TaskPriority
    Levels <- TaskLevels
    NormalLevel = 0
    BatchAt <- OneEach
    GlobalBatch = 1
    LevelLimit = 1
    QueueLimit = 1
    StealThreshold = 1
    MaxScans = 1
    MaxStarts = 2
PROPERTY
    RestartRecovers
CHECK_DEADLOCK FALSE
