# A verification project for goman

goman (`src/`) is a goroutine pool for Go: tasks are submitted to a pool, pass
through a lock-free queue or straight to a worker, are executed, and settle a
Future. This directory holds TLA+ models of its concurrent core, the TLC
configurations that check them, and proofs for TLAPS.

## Inventory

| part | source | state | operations | hard behaviour | what makes it correct |
|---|---|---|---|---|---|
| lock-free queue | `internal/queue/queue.go` | ring of pointers, atomic `head`, `tail` | `Enqueue`, `Dequeue`, `Size`, `IsFull` | reservation and store are two steps, so are moving `head` and clearing the cell; loads go stale | a FIFO: nothing lost, repeated or reordered |
| pool | `pkg/pool/pool.go` | state, object pools, workers, global queue | `Submit*`, `Shutdown`, `Stats` | every submission races with `Shutdown` and with the loop | each task answered once; `Shutdown` returns |
| pool scheduler | `pkg/pool/pool.go:1126` | `isRunning`, context | `schedule`, `scheduleLoop`, `processGlobalQueue`, `stop` | takes a task out of the queue before it knows where to put it | one holder per task |
| pool worker | `pkg/pool/pool.go:786` | local ring, channel of one, `isRunning`, `isActive`, context | `submitTask`, `run`, `executeTask`, `cleanup` | a task may arrive after `cleanup`; a worker with a task may look idle | a task runs at most once |
| Future of the pool | `pkg/pool/pool.go:734` | `done`, `canceled`, `waitCh` | `Get`, `Cancel`, `setResult` | several writers | the first outcome stays |
| internal scheduler | `internal/scheduler/scheduler.go` | priority queues, global queue, `isRunning` | `Schedule`, three loops, `stealTask`, `Stop`, `Start` | three loops and callers on the same workers; restart | as for the pool; `Stop` returns |
| load balancers | `internal/scheduler/load_balancer.go` | counters, weights, hash ring, metrics | `SelectWorker`, `AddWorker`, `RemoveWorker` | workers that come and go; shared counters; unguarded fields | fair turns; a running worker if there is one; no strategy left untried |
| internal worker | `internal/worker/worker.go` | as the pool worker, plus `restartCount` | `SubmitTask`, `StealWork`, `run`, `cleanup` | restart after a panic; theft | as for the pool worker |
| error handler, circuit breaker | `pkg/pool/error_handler.go` | `state`, `failures`, `requests`, last failure | `Handle*`, `AllowRequest`, `Record*` | half-open limit, reset | opens and closes for the stated reasons only |
| monitor | `pkg/pool/monitor.go` | history, `lastStatsTime`, `queuedTasks`, `stopCh` | `Record*`, `Start`, `Stop` | clock, scan and store are three steps; stop and start again | a completion is counted, and not for ever; `Stop` ends the loop |
| object pool | `pkg/pool/object_pool.go` | pooled wrappers and Futures | `Get*`, `Put*`, `Execute`, `Cancel` | reuse; result, flag and token are three writes | an answer belongs to its use |
| extensions | `pkg/pool/extension.go`, `builtin_extensions.go` | middleware chain, plugins, listeners | `Register`, `Unregister`, `Start*`, `Stop*`, `Emit*` | registration in two halves; asynchronous events | middleware nests; a removed plugin stays down |
| configuration | `pkg/pool/config.go` | a config and its builder | `With*`, `Build`, `Reset`, `Clone`, `Copy`, `Validate` | shared pointers | no config is shared behind a user's back |
| interfaces, errors, examples | `pkg/pool/interfaces.go`, `errors.go`, `examples/` | none | | | |

How they interact. A caller runs `SubmitAsync`, `Submit` and `schedule` on its
own goroutine: it reads the pool's state, gets a wrapper, asks the balancer for a
worker and appends to that worker's local ring (a mutex) or its channel (no
waiting), and else to the global queue. The scheduling loop moves tasks from the
global queue to workers every tick, through the same two functions. Each worker
takes from its channel first and from its ring otherwise, executes, and sets the
Future. `Shutdown` stops the loop, waits until no worker looks active, stops the
workers, waits for them, and clears the queue; if its context expires it cancels
the workers and clears the queue (`forceShutdown`), or gives up
(`waitForWorkers`). The queue is shared memory; all else is flags, channels and
contexts. The internal scheduler and worker are a second implementation of the
same idea, which the pool does not use: they add priorities, theft and restart.
Around a task the pool calls the interceptor, the middleware, the monitor and
the event manager, and at shutdown it stops the plugins.

## The models

`LockFreeQueue` is `queue.go` with one atomic load, store or CAS per action; a
process has a program counter, the copy of a counter its CAS will use (`seen`)
and the local variable `item` (`hand`). `enqueued` and `dequeued` are history:
the items in the order the CAS on `tail`, and on `head`, admitted them.

`BoundedFIFO` is what a user of the queue may rely on: a sequence with a limit,
calls that take effect once between call and return, a `Dequeue` that finds the
queue empty only if it is, and an `Enqueue` that is refused only if the queue was
full during the call or another `Enqueue` overtook it. `LockFreeQueue` implements
it (`ImplementsFIFO`): an `Enqueue` takes effect at its CAS on `tail`, a `Dequeue`
at its CAS on `head` or at the load that shows `head = tail`.

`Pool` is the life of tasks in `pool.go` with callers, loop, workers and one
`Shutdown` as processes. Its global queue is the queue `BoundedFIFO` describes,
with the two outcomes of `Enqueue` as `Enqueue` and `EnqueueRefused` (the second
also for an overtaken call). One task stands for its wrapper and its Future.
Correspondence of steps: `check`, `schedule`, `wrap` are the reads of
`pool.state`, `scheduler.isRunning` and the object pools on the way of a
submission; `select`, `local`, `chan`, `enqueue` are `SelectWorker`,
`enqueueLocal`, the send to `taskChan` and `Enqueue`, used by callers and loop
alike; the worker's labels follow `run`, `executeTask` and `cleanup`; those of
Shutdown (`hpc`) follow `performGracefulShutdown` and its helpers.

`TaskLedger` is what the pool promises about one task: refused or accepted;
accepted, then executed at most once or discarded, never both; its Future set
once, and first outcome kept; nothing executed in a closed pool; nothing
discarded before shutdown. `Pool` implements it (`KeepsTheLedger`).

`CircuitBreaker` is `error_handler.go`: each method of the breaker is one step,
because it holds the breaker's mutex, and `HandleQueueFull` is two (`handling` is
the set of submitters between its question and its report). The clock is one bit,
`aged`: whether `ResetTimeout` has passed since the last failure. The breaker is
exported, so its other methods are called by anyone at any time.
`sinceClosed`, `trials` and `admitted` are history. A call of `AllowRequest` that
returns false changes nothing and is no step.

`MCLockFreeQueue` and `MCPool` add the symmetry sets (safety runs only) and the
assumption that capacities are powers of two. `MCPoolFull` starts `Pool` in a
state three callers lead to: every place of the only worker taken, and a task in
the global queue.

### The internal scheduler and its workers

`Worker` is `worker.go`. A worker has one goroutine per *run*: a run that
recovered from a panic waits, starts the next one and ends, so two runs of a
worker can be under way at once, both at the worker's queues. `wpc` follows
`run` (the `select`, and what its default finds in the local queue, are two
steps), `executeTask` and the deferred functions. A panic that reaches `run` comes
from the monitor or the error handler (`ReportPanics`): a panic of the task is
caught where it is executed.

`Scheduler` extends it with the callers of `Schedule` (one per task) and the
three loops, all of which send tasks to workers through the same steps
(`SelectWorker`, `SubmitLocal`, `SubmitChan`), as they call `tryDirectSchedule`
in the code (the stealing loop goes to the worker it chose, by `SubmitTask`
alone). What no worker took goes to the queue of its level (callers, priority
loop) or to the global one (the others, and callers whose level is full). The
stealing loop looks at one worker per step, so what it knows of the first may be
old when it has seen the last. `Stop`, its return and `Start` are the actions of
one user. `Scheduler` refines `TaskLedger` too: a worker that ends is the
ledger's shutdown, since only such a worker throws tasks away.

### The components around them

* `PooledFuture`: a wrapper and its Future of `object_pool.go` with one
  goroutine that executes, some that call `Get` or `GetWithTimeout`, some that
  call `Cancel`, one access per step. A result is the number of the use it was
  computed in, so an answer from an earlier use can be told. The object pool
  trusts its users, and so does the model: a Future is given back only when no
  call on it is under way (`Quiescent`).
* `Monitor`: history, interval and restart of `monitor.go`, with a clock. Reading
  the clock, reading `lastStatsTime`, the scan and the store are four steps.
* `Submission`: what a task passes through in `pool.go` besides queues: the
  context of `SubmitWithTimeout`, interceptor and middleware chain before and
  after, events, and the monitor's count of queued tasks. Queueing is one choice
  here (refused, executed, discarded), because `Pool` models it. A stopped
  scheduler refuses before it counts the task, full queues refuse after.
* `Plugins`: the plugin map with its read-write lock. `RegisterPlugin` enters the
  plugin and initialises it in two steps, `StartAll` and `StopAll` hold the lock
  for reading while they visit one name per step.
* `LoadBalancers`: round robin, weighted, least load and hash ring. The
  least-load scan and the ring's binary search are functions compared with what
  they should return, by TLC for all loads and hashes of the instance and by proof
  for all there are. Random picks any running worker, which is also what
  `Scheduler` assumes of every balancer.
* `AdaptiveBalancer`: every submitter calls it, and nothing guards its fields, so
  each read and each write of the counter, the current strategy and the metrics
  is a step: increments are lost, evaluations overlap, and one may store its
  variance under a strategy that is no longer the current one. The variance of
  loads is a quotient; `Scale`, a multiple of every n^3 (216 for up to three
  workers), keeps it a whole number.
* `Configuration`: builder and configs as pointers into a `heap`, so sharing is
  visible.
* `QueueCapacity`: the arithmetic of `queue.go` on words that wrap, with one
  user. A word is known by the places of its ones (`Ones`, `WordOf`), which makes
  `|`, `&` and `>>` operations on sets. It is what allows `LockFreeQueue` to count positions in the natural
  numbers and to find cells with `%`.

They share no state in the code, nor with the circuit breaker as it is modelled.
`MCCompanions` therefore checks them and the breaker in one run in which every
behaviour is one of a single component, named by the variable `focus`; the others
stay where they begin. `Monitor` has two: one loop with all the time there is, and
a monitor started again with a shorter time and one completion fewer.

## Runs

| run | instance | what it shows |
|---|---|---|
| `queue_mpsc` | 2 producers, 1 consumer, 5 items, ring of 4 | type, order, no loss, no overwrite, the inductive invariant, refinement of `BoundedFIFO`; `Dequeue` does not spin for ever, every accepted item is delivered |
| `queue_two_consumers` | 1 producer, 2 consumers | violation: the late clear erases a newer item (`queue.go:96`) |
| `queue_spurious_full` | 2 producers, 1 consumer | violation: refused although never full (`queue.go:51`) |
| `pool` | 2 tasks, 2 workers, context may expire | one holder per wrapper, refinement of `TaskLedger`; `Shutdown` returns |
| `pool_full` | 4 tasks, 1 worker, all places taken at the start, context may expire | type, one holder per wrapper, one consumer of the queue; a Future stays open only in the known ways |
| `pool_requeue` | 4 tasks, 1 worker | violation: a task the loop cannot put back is dropped (`pool.go:1253`) |
| `pool_unanswered` | 1 task, 1 worker | violation: a task handed to a worker after its cleanup is accepted and never answered |
| `breaker_limit` | 3 submitters, 2 trial calls | violation: a half-open breaker admits any number of calls (`error_handler.go:150`) |
| `scheduler` | 2 workers of 2 places, up to 6 tasks, 2 levels, 7 scenarios | type, one holder, refinement of `TaskLedger`; no task is lost but in the known ways; `Stop` returns |
| `worker_restart` | 1 running worker that panics | violation: the worker that was started again is marked as stopped (`worker.go:253`) |
| `companions` | see `companions.cfg` | the properties of the nine modules `MCCompanions` brings together |
| `submission_timeout` | 1 task with a timeout | violation: the task executes in a context that ended with its submission (`pool.go:339`) |

Bounds, and why they are enough. The ring of four cells has three usable ones, so
two producers can hold reserved cells at once, store them in the wrong order, and
go round the ring (five items). Symmetry is not sound for liveness, so the items
are numbers there and are offered in their order (`InOrder`), which loses no
behaviour but for the names of items. `pool` has two workers so that the scan and
the stop of the workers are loops, and a round robin; with two tasks its queues
never fill. `pool_full` therefore starts when they are full: four tasks are one more than
the places there are besides the worker's hand (local ring, channel, global
queue). The loop takes the task of the global queue, a caller takes its place, and
the re-enqueue is refused. Each of the three losses `OnlyKnownLosses` names is
needed there: without any one of them the property is violated. What the two runs
check of safety is proved for any number of tasks, workers and places. Batch
size is 1 where the end of a batch matters (the code's is 10) and 10 where the
batch must not end. `Turns` is the period after which the balancer's counter,
which is unbounded in the code, may be reduced without changing any choice: a
multiple of every possible number of running workers.
For the breaker, `MaxCount` lets the counters pass the limit of requests by three
and that of failures by two, so that leftovers of an earlier period could reach a
limit in the next one.

`scheduler` begins in one of seven situations, each a state the code reaches and
each with what makes it hard (`MCScheduler`): a worker worth stealing from; a
thief that is full, so that the stolen task must be put into a global queue that
may be full as well; no worker running, so that callers fill level and global
queue; a stop with tasks in the queues; a worker stopped under its callers; stop,
start, stop; and a worker that panics as often as it may. Together they take
every action. Queues of one place fill at once; two levels tell an upper from a
lower one and from a priority that does not exist.

In `companions`, two uses of a Future and two readers are the least for a stale
answer and for two readers of one token; two plugins of one name meet in the map. Seven picks are two
rounds of the three workers and one more, from any position of the counter. The
virtual nodes of the workers interleave on the ring, and workers are added twice.
Words of five bits hold the default capacity, need the shifts by 1, 2 and 4 (the
others change nothing there, and are covered by the proof) and wrap within the run.
Limits and defaults of the configuration are scaled down; the fields with an upper
limit are those of `config.go`.

The monitor's clock has four moments, so one loop can end three intervals and a
task could be counted in each of them; three completions overfill a history of two.
For the adaptive balancer, five evaluations are two that overlap and three that do
not; a window of two calls lets a lost increment, or a reset between increment and
check, matter; three workers with two loads give several variances. The run goes
no further where an evaluation has met even loads, after which the property says
nothing.

Fairness. A goroutine that can take a step takes it in the end (Go's scheduler is
preemptive), and a task that is executed returns: weak fairness per process.
`select` chooses among ready cases at random, so a case that is ready again and
again is chosen in the end: strong fairness of the two exits that compete with
another ready case (`LoopExit`, `SeeDone`). Nobody has to submit, cancel, or call
`Shutdown`, and no context has to expire. In `Scheduler`, callers take finitely
many steps in a behaviour (each task is submitted once), so weak fairness of the
disjunction of their steps already means that all of them are taken; it is much
cheaper to check than one condition for each caller. A worker without tasks polls,
so each run of a worker is fair by itself. Each loop is fair by
itself, and its exit strongly, for the reason just given. In `PooledFuture`,
`Monitor` and `Submission` a call that has begun goes on, and the monitor's
`select` takes the closed channel in the end; in `Plugins`, `LoadBalancers`,
`AdaptiveBalancer`, `Configuration` and `QueueCapacity` nothing has to happen. In the queue no one has to call
`Enqueue`, and the consumer calls `Dequeue` at every tick.

Deadlock is checked in the runs of queue and pool; in `Pool`, the state
in which all goroutines have ended is the action `Terminated`. It is not checked
in `scheduler`, `worker_restart`, `companions` and `submission_timeout`, which may
really stop: nobody has to call anything, and the bounds are reached. There
`StopReturns`, `OnlyKnownLosses`, `WaiterIsWoken`, `StoppedForGood` and
`CompletionIsAnnounced` say what may not come to a halt.

### What the properties tell about the code

Several of them hold, and say something a user of the library should know:

* `OnlyKnownLosses` (`Scheduler`): a task accepted by `Schedule` gets no answer
  if a loop cannot put it back (`scheduler.go:227`, `278`, `369`), if a worker's
  report panics, if it is still in a queue when the scheduler stops or no worker
  runs, or if it arrives behind a worker's cleanup. There is no other way.
* A scheduler that was stopped can be started, but its context stays cancelled:
  its loops leave at their first tick, and what goes into its queues is stranded.
  The monitor is the same (`StoppedForGood`).
* `CountedUnlessOnTheEdge`, `CountedAtMostTwice`: the throughput of the monitor
  may count a completion in two intervals, and misses one only if it is recorded
  at the very moment an interval ends, after the scan, or has left the history.
* `EveryStrategyMeasured`: while evaluations of the adaptive balancer overlap, they
  may measure one strategy twice; as soon as three in a row do not, every strategy
  has been measured, unless loads were equal, which gives the best possible metric.
* `ClosesOnlyAfterTrials`: what was recorded before the breaker became half-open
  does not close it. What is recorded while it is half-open counts, whether success
  or failure and whenever its request was admitted: the breaker does not know.
* `QueuedTasksAddUp`: tasks that full queues refuse, and discarded ones, stay in
  the monitor's count of queued tasks.
* `WaiterIsWoken`: one reader of a pooled Future is woken. The channel holds one
  token and is not closed, so a second one may wait for ever.
* `CompletionIsAnnounced`: events run on goroutines of their own, so a completion
  may be heard of before the submission.
* `CapacityIsRoundedUp`: above the largest power of two the capacity is 0 and the
  queue cannot be used; with a capacity of 1 it is full when it is empty.
* `ConfigsAreNotShared`: `Build` gives out the config the builder goes on with;
  until `Reset` the user's config changes with the builder.

What the violations are is told in `PROJECT.json` under `findings`; two of them are
about what a document promises. A worker that panics is to be started again
(`worker.go:278`): it is, but the deferred function of the old run marks the worker
as stopped and empties its queues, so the new run ends (`RestartRecovers`). And the
timeout of `SubmitWithTimeout` is to be that of the execution (`docs/api.md:136`):
the context ends when the *submission* returns (`TimeoutIsForExecution`).

## Proofs

The theorems hold for every value of the constants that satisfies the named
assumptions of the modules, and TLC evaluates those assumptions in the runs. Each
inductive invariant was checked by TLC on a small instance before it was proved.

### The lock-free queue

`LockFreeQueueProofs` proves, for every capacity, any sets of producers and
items:

* `TypeCorrect`: `TypeOK`, with any number of consumers;
* `RingCorrect`: `RingInv`, assuming `SingleConsumer`;
* `QueueDeliversInOrder`, `QueueLosesNothing`, `QueueNeverOverwrites`:
  consequences of it, with one consumer;
* `QueueImplementsFIFO`: the ring implements `BoundedFIFO`, with one consumer.

The assumption `SingleConsumer` is what the pool and the scheduler establish
(theorem `QueueConsumers` for `Pool`), and `queue_two_consumers` shows that it
cannot be dropped. The properties are not inductive by themselves: that an item
is not overwritten depends on the fullness check having been made against a
`head` that can only have grown (`ProducersSound`), on the consumer's copy of
`head` never being stale (`ConsumersSound`), and on every cell outside
`head .. tail - 1` being empty except the one about to be cleared (`CellsSound`).
`RingInv` is the conjunction; `Window` says that fewer than `Capacity` positions
are occupied. The lemmas on `%` (`CellDistinct`, `CellsInWindow`, ...) say that
positions less than a lap apart have different cells. One lemma per action that
disturbs the invariant, then one temporal step.

The refinement needs `FifoInv` besides: an Enqueue may be refused only if the
queue was full at some moment of the call, or another call overtook it. So the
history that `BoundedFIFO` keeps of open calls must agree with what the producer
has read: a copy of `tail` that is no longer current means that it was overtaken,
a fullness check that failed means that the queue was full when `head` was read
(`CallsWitnessed`); and a consumer that has read nothing holds nothing
(`ConsumerHands`). The contents of the abstract queue are the reserved positions
from `head` on; `ContentsGrow` and `ContentsShrink` say what the two CAS
operations do to them, which is where the two linearisation points are.

The proofs do not need the capacity to be a power of two, only positive.

### The pool

`PoolProofs` proves `TypeOK` (`TypeCorrect`), `QueueHasOneConsumer`
(`QueueConsumers`), `OneHolder` (`WrappersHaveOneHolder`) and the refinement
`KeepsTheLedger` (`PoolKeepsTheLedger`), for any tasks, number of workers and
limits.

`TypeOK` is not inductive: that the loop never exceeds its batch needs that it
has moved less than a batch whenever it carries a task (`SendTyped`). The other
properties rest on `PoolInv`:

* `QueuedOnce`, `Apart`: no queue holds a task twice, no two holders (a queue, the
  loop, a caller, a worker's ring, channel or hand) hold the same task;
* `CallerOwns`: until `SubmitAsync` has handed a task over, only its caller has
  it, and it was not started;
* `StartedIsHeldByWorker`, `ExecutingIsStarted`, `DroppedIsGone`: a task that was
  started is only with the worker that executes it, one that was dropped is
  nowhere;
* `ShutdownOrder`: what each stage of `Shutdown` has waited for.

A step changes many variables but little of who holds what: each action leaves all
holders alone, hands one task over (`HandOver`) or lets one go (`LetGo`). The
lemmas named `...Transfers` say which; `...Ownership` derives the invariant from
that. `PlacesAreHolders` connects holders with the positions that `OneHolder`
counts. For the refinement, `StatusIs` says that the status of a task depends on
its stage alone (the cases of `Status` overlap, and the invariant excludes the
overlaps); then each action either moves the status of one task along one step of
the ledger (`LedgerMoves`) or shows nothing (`LedgerStutters`).

### The internal scheduler and its workers

`SchedulerProofs` proves `TypeOK` (`TypeCorrect`), `OneHolder`
(`WrappersHaveOneHolder`) and the refinement `KeepsTheLedger`
(`SchedulerKeepsTheLedger`), for any tasks, workers, levels and priorities, every
limit of queues, batches, restarts and starts, and every set of scenarios that
satisfies `ScenarioAssumption`: a behaviour starts with every task in one place,
or arriving, and no queue too long.

`TypeOK` needs more than types. That a batch is never exceeded needs, as in the
pool, that a loop with a task in hand has moved less than a batch (`LoopTyped`);
that `restartCount` never exceeds `maxRestarts` needs to know which runs of a
worker can be under way at once (`RunInOrder`): only the newest takes tasks, so
only it can panic, and while a run waits to start the next one there is none
newer.

The other two rest on `SchedInv`: besides the types (`TypeInv`), `QueuedOnce`,
`Apart` and `CallerOwns` as in the pool, and

* `StartedIsHeldByRun`, `RunsAreStarted`: a task whose `Execute` was called is
  with the run that called it or with nobody, and a run has no other task, so a
  thief never takes a started task and a restarted worker never repeats one;
* `LostIsGone`: what a loop could not put back, or whose report a panic cut short,
  is with nobody.

Callers and loops share their steps and a task has seven kinds of holders, so the
proof goes through an intermediate level: `StepEffects` shows once that every step
has one of twelve effects on who holds what and on how far each task is (it is
offered, given up by its caller, refused, accepted, moved, lost by a loop, begun,
returned, reported, cut short or discarded, or nothing happens that counts), and
that no queue gets a task twice. `OwnershipKept` derives the rest of the invariant
from the effects alone, and so do the lemmas `...Refines` the steps of the ledger.
A report that a panic cuts short leaves the task executed and unreported for ever,
which the ledger allows.

### The circuit breaker

`CircuitBreakerProofs` proves, for every threshold, number of trial calls and set
of submitters, the four properties that run `companions` checks of the breaker. The inductive invariant
`BreakerInv` adds that the requests counted in the half-open state are the
successes recorded in it, fewer than the limit, and that the failures counted are
those since the breaker was closed or reset. `MaxCount` bounds the counters in the
guards; the theorems hold for every bound. The assumption that
`HalfOpenMaxCalls` is positive is needed: with zero, which the exported type
allows, the half-open breaker refuses everything.

### The other modules of run `companions`

All have proofs, for any size of what they are made of:

* `CompanionProofs`, for `Plugins`: `RemovedStaysDown` and `StoppedOnce`. What has
  to be known besides: a plugin is in the map under its own name only, so removing
  an entry removes the plugin; the lists of `StartAll` and `StopAll` stay within
  the map, because the lock keeps writers out; what is in the map has not left it.
* `PooledFutureProofs`: `GenuineAnswers`. The result is written before `done`;
  a token in the channel, or taken out of it, means done or cancelled; a Future
  in the pool has no callers. The last rests on `Quiescent`, which is a guard of
  the model: users must keep to it.
* `CompanionProofs`, for `Configuration`: `ConfigsAreNotShared`, from the validity of all pointers.
* `CompanionProofs`, for `Monitor`: `CountedAtMostTwice` and
  `CountedUnlessOnTheEdge`. While there is one loop,
  an interval of the throughput begins where the last one ended and has a
  positive length (`OneLoop`), nothing in the history is newer than the clock
  (`HistorySound`), and a task that was counted once is not after the end of the
  interval being measured, one that was counted twice not after the beginning of
  the next (`CountsFallBehind`). The history is in the order of time
  (`TimesInOrder`), so the scan, which stops at the first entry that is too old,
  misses none (`NoneMissed`).
* `CompanionProofs`, for `Submission`: `MiddlewareNests` and `QueuedTasksAddUp`.
  Besides what each step of call and task says about the other (`StepsAgree`), the
  invariant relates the chain to what ran `Before` (`ChainStands`). The number of queued tasks is a cardinality, hence the assumption that there are
  finitely many.

### The balancers and the arithmetic of the queue

These two compute with sums, ranks, searches and bits, so their proofs need
induction over data. The induction theorems of the library take the predicate as
an operator, which the provers cannot instantiate; `NatInduct` and `MinimalSet`
take it as the *set* of what satisfies it instead, and follow from
`WFMin`, the theorem of the library on minimal elements.
With them the modules first prove what their recursive functions return, then
the invariants.

`LoadBalancerProofs` proves `TurnsAreShared` and `PicksAreRight` from
`BalancerInv`, for any number of workers, and any weights, loads and virtual nodes.
`BalancerAssumption` says that weights are natural numbers and that virtual nodes
of different workers have different hashes (`load_balancer.go` multiplies different
numbers by an odd one). It also proves `EveryStrategyMeasured` from `AdaptiveInv`,
for any callers, workers, loads and window; `AdaptiveAssumption` says that `Scale`
is large enough.

* `TurnInv`, for round robin and weighted: the running workers cut the counter's
  cycle into shares (`Cut`), and each worker has had exactly the counts that fell
  into its share (`Fallen`) since its turns are counted (`Start`). That the shares
  are fair over whole cycles is arithmetic on `Below`, the number of counts below
  a limit.
* `RingSound`, for the hash ring: the sorted hashes ascend and hold every node of
  every member, and the map knows a hash just when its worker is a member. They may
  hold hashes that the map no longer knows, since adding a worker twice enters its
  nodes twice and removing it takes out one of each. `Parts` is the invariant of
  the binary search; from it the search ends at the first hash not below the key's, and
  the walk around the ring at the first running owner.
* For least load, the scan returns a worker of least load, the first of several.
* `AdaptiveSound`, for the adaptive balancer: as long as no evaluation has seen
  equal loads, every variance is positive, and a strategy that has not been tried
  has the metric 0, below any other, so the search chooses it and the threshold does
  not keep it out. An evaluation that meets no other finds what it has read
  unchanged (`Undisturbed`), so it adds a strategy to those that have a metric
  (`Tried`), and leaves one to be measured as the current one if there is any
  (`Ready`). Overlapping evaluations never take a metric away, which is why the
  count only has to start anew after them.

`QueueCapacityProofs` proves `CapacityIsRoundedUp` from `CapacityInv`, for words
of 5 bits (which the default capacity of 16 needs) to 64.

* Different words have different ones and every set of places is the ones of a
  word, so `WordOf` is well defined.
* After the shifts by 1, 2, 4, ... every place up to the highest one is set: each
  shift doubles what is covered (`Covers`), and six of them cover 64 places. Adding
  1 gives the next power of two, or 0 when there is none that fits.
* The test `n & (n - 1)` tells powers of two from other words, by the highest one.
* A mask is a remainder (`MaskIsRest`), and stays one when the position has
  wrapped (`MaskedIsRest`), because the capacity divides the number of words.
* The invariant: `tail` is `head` plus what the queue holds, as words, and it holds
  less than its capacity. From it, the tests of `IsEmpty` and `IsFull` mean what
  they say, also around the wrap.

### Model-checked only

Every invariant and every action property of a passing run is a theorem. What
remains with TLC is liveness, which the prover does not handle:

* `queue_mpsc`: `DequeueReturns`, `AcceptedIsDelivered`;
* `pool`: `ShutdownReturns`; `pool_full`: `OnlyKnownLosses`;
* `scheduler`: `StopReturns`, `OnlyKnownLosses`;
* `companions`: `WaiterIsWoken`, `StoppedForGood`, `CompletionIsAnnounced`.

## Abstractions, and what is not modelled

Abstractions:

* `head` and `tail` of `LockFreeQueue` are natural numbers. The capacity divides
  2^64, so wrapping changes no index (`QueueCapacity` checks
  this on short words, and it is proved for words of up to 64 bits), and a process would have to sleep for 2^64 operations for a wrapped
  counter to deceive its CAS.
* In `Pool`, the balancer reads the running flags of all workers in one step, and
  the local ring is a sequence under its mutex. What a task does is one step, and
  its result, error, timeout or panic are one outcome. `Worker` and `Scheduler`
  do the same, and a tick that finds nothing is no step.
* `Enqueue` refuses a nil item before it reads anything (`queue.go:40`); no caller
  passes one, so items are not nil in the model.
* A Future of `Scheduler` is given to nobody (`Schedule` drops it), so no one
  reads or cancels it.
* The chain of `Submission` is passed through in one step: its lock is held. The
  contexts that `Before` functions return are dropped by the pool
  (`pool.go:301-304`), hence not in the model; a middleware that sets a timeout
  has no effect.
* The races on the fields of the adaptive balancer are the interleavings of single
  reads and writes, of words that a read never sees half written. Its variance and
  the index it is stored under are read in one step, since the loads may be any.
  The race on the map of the hash ring ends the process in Go and is not in the
  model. Least load compares the sum of executed and waiting tasks, which the model
  takes as a given number.
* In `Plugins` each function of a plugin may fail. A plugin registered with a pool
  is not initialised or told of the pool's start, because nothing in the library
  calls `SetPool`; the model leaves the call to the user.

Not modelled, and why:

* Statistics and measurements: `Stats`, durations, percentiles, memory, counters
  that are only added to. They are formatting and arithmetic on values no
  decision depends on.
* `Worker.stealTask` (only tests call it), the wrapper cache of a worker (nothing
  takes from it), `isActive` and `state` of the internal worker (nothing but
  statistics reads them), `SetLoadBalancer` and the switches of work stealing
  (nothing calls them after `Start`), two users who start and stop one scheduler
  at once.
* The pool of contexts, `Warm`, and users of the object pool who give back what
  others still use, which its comments forbid.
* `SchedulerPluginManager` (a guarded list), the built-in extensions (they log
  and measure), `PreAlloc` and the handler fields of a config, error texts.
* The nil task that a worker's outer recover hands to `HandlePanic`
  (`error_handler.go:57`): dereferencing it ends the process, after which there is
  nothing to check. `ReportPanics` therefore stands for a handler that survives it.
* Starvation of the local queue by a channel that is always full
  (`pool.go:901-912`): it needs infinitely many tasks.
* Interfaces, errors, examples and the monitor integration program: declarations
  and programs that use the library.

## Plan

1. (done) `BoundedFIFO`, `LockFreeQueue` and its proofs; `TaskLedger`, `Pool`;
   `CircuitBreaker` and its proofs.
2. (done) `Worker` and `Scheduler`, refining the same ledger; `PooledFuture`,
   `Monitor`, `Submission`, `Plugins`, `LoadBalancers`, `AdaptiveBalancer`,
   `Configuration`, `QueueCapacity`.
3. (done) Proofs about the queue, the pool, the breaker and the modules of run
   `companions`.
4. (done) Proofs about `Scheduler` with `Worker`.
5. (done) Proofs about `LoadBalancers`, `AdaptiveBalancer` and `QueueCapacity`.
