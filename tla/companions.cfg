\* One behaviour is one of a single component; see Init of MCCompanions.
\* Every component may stop: bounds are reached and callers need not call.
SPECIFICATION Spec
CONSTANTS
    \* PooledFuture: two readers, one with a timeout, two that cancel, two uses.
    Readers = {r1, r2}
    TimedReaders = {r2}
    Cancellers = {c1, c2}
    MaxUses = 2
    \* Monitor: three completions, a history of two, one restart; one loop can
    \* end three intervals.
    Recorded = {a, b, c}
    MaxHistory = 2
    MaxTime = 3
    MaxStarts = 2
    \* Submission: one task with a timeout, a chain of two, one listener.
    Submitted = {t1}
    Timed = {t1}
    Middleware = {m1, m2}
    Interceptor = ic
    Listeners = {l1}
    MaxChain = 2
    MaxEdits = 2
    \* Plugins: three plugins, two of them of one name.
    p1 = p1
    p2 = p2
    p3 = p3
    n1 = n1
    n2 = n2
    PluginSet = {p1, p2, p3}
    Names = {n1, n2}
    NameOf <- TwoShareAName
    NoPlugin = NoPlugin
    \* LoadBalancers: three workers, loads with equal and different ones.
    BalancerKinds = {"roundRobin", "weighted", "leastLoad", "ring"}
    NBalanced = 3
    Weights <- TwoZeroOne
    HashesOf <- ThreeOnTheRing
    LastHash = 4
    LoadValues = {0, 1, 3}
    MaxPicks = 7
    MaxRing = 7
    \* AdaptiveBalancer: two callers, three workers; three evaluations after
    \* two that overlap.
    Measured = {w1, w2, w3}
    Loads = {0, 1}
    Scale = 216
    Window = 2
    Choosers = {u1, u2}
    MaxEvaluations = 5
    \* Configuration: two builders, three configs.
    Builders = {b1, b2}
    FirstBuilder = b1
    Settings <- SomeSettings
    Defaults <- ScaledDefaults
    Most <- ScaledLimits
    MaxConfigs = 3
    \* QueueCapacity: words of 5 bits.
    Width = 5
    \* CircuitBreaker: two submitters in HandleQueueFull, any number of others.
    Submitters = {s1, s2}
    FailureThreshold = 3
    HalfOpenMaxCalls = 2
    MaxCount = 5
INVARIANTS
    GenuineAnswers
    MiddlewareNests
    QueuedTasksAddUp
    RemovedStaysDown
    StoppedOnce
    TurnsAreShared
    PicksAreRight
    ConfigsAreNotShared
    CapacityIsRoundedUp
    CountedAtMostTwice
    CountedUnlessOnTheEdge
    EveryStrategyMeasured
    BreakerTypeOK
    TrialsNotExhausted
PROPERTIES
    ClosesOnlyAfterTrials
    OpensOnlyAtThreshold
    WaiterIsWoken
    StoppedForGood
    CompletionIsAnnounced
CHECK_DEADLOCK FALSE
