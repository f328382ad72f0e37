----------------------------- MODULE Scheduler -----------------------------
(***************************************************************************)
(* internal/scheduler/scheduler.go with the workers of Worker: callers of  *)
(* Schedule (one per task), the three loops that move queued tasks to the  *)
(* workers and steal tasks from one for another, and one user who stops    *)
(* the scheduler, starts it again and stops it again.                      *)
(*                                                                         *)
(* The queues are the FIFOs LockFreeQueue implements (BoundedFIFO), their  *)
(* operations taking effect in one step.  The balancer may return any      *)
(* running worker (LoadBalancers).  A tick that finds its queues empty     *)
(* changes nothing and is left out.                                        *)
(***************************************************************************)
EXTENDS Worker

CONSTANTS Scenarios,      \* what the behaviours start from
          Priority,       \* the priority of each task
          Levels,         \* PriorityLow .. PriorityCritical
          NormalLevel,    \* PriorityNormal
          BatchAt,        \* how many tasks of a level one tick moves
          GlobalBatch,    \* how many tasks of the global queue one tick moves
          LevelLimit,     \* what the queue of a level can hold
          QueueLimit,     \* what the global queue can hold
          StealThreshold, \* stealThreshold
          MaxScans,       \* bound: ticks of the stealing loop
          MaxStarts       \* bound: calls of Start

GlobalLoop   == "scheduleLoop"
PriorityLoop == "priorityScheduleLoop"
StealingLoop == "workStealingLoop"
Loops   == {GlobalLoop, PriorityLoop, StealingLoop}
Senders == Tasks \cup Loops

TopLevel == CHOOSE l \in Levels : \A m \in Levels : m <= l

ASSUME SchedulerAssumption ==
    /\ Levels \subseteq Int /\ IsFiniteSet(Levels)
    /\ NormalLevel \in Levels
    /\ Priority \in [Tasks -> Int]
    /\ BatchAt \in [Levels -> Nat \ {0}]
    /\ {GlobalBatch, MaxStarts} \subseteq Nat \ {0}
    /\ {LevelLimit, QueueLimit, StealThreshold, MaxScans} \subseteq Nat
    /\ Tasks \cap Loops = {}

VARIABLES
    accepting,      \* Scheduler.isRunning
    schedDone,      \* Scheduler.ctx is cancelled
    starts,         \* how often Start has started the loops
    waiting,        \* Stop waits for the loops
    queue,          \* taskQueue
    levelQueue,     \* priorityQueues
    overtaken,      \* senders whose open Enqueue another one overtook
    pc, target,     \* of each sender: next step, worker it selected
    inHand, moved,  \* of each loop: task it moves, tasks moved in this batch
    level,          \* of the priority loop: the level it is at
    scan,           \* of the stealing loop: what it has seen of the workers
    scans,          \* ticks of the stealing loop so far
    dropped         \* history: tasks whose second Enqueue was refused

lifeVars  == <<accepting, schedDone, starts, waiting>>
queueVars == <<queue, levelQueue, overtaken>>
sendVars  == <<pc, target, inHand, moved, level, scan, scans>>
vars == <<workerVars, lifeVars, queueVars, sendVars, dropped>>

NoScan == [at |-> 1, busiest |-> 0, maxLoad |-> 0, idlest |-> 0, minLoad |-> -1]

(* A scenario says what the workers and the global queue hold, how much    *)
(* the workers have done, which of them still run, which tasks are to be   *)
(* scheduled and what outsiders may do.                                    *)
Held(s) == UNION ({{q[i] : i \in DOMAIN q} : q \in
                     {s.local[w] : w \in Workers} \cup {s.chan[w] : w \in Workers}
                     \cup {s.queue}})

(* It is a state the scheduler can be in: no queue is too long, and every  *)
(* task is in one place or arrives.                                        *)
Rooms == (Workers \X {"local", "chan"}) \cup {<<0, "queue">>}

Filled(s, x) == CASE x[2] = "local" -> s.local[x[1]]
                  [] x[2] = "chan"  -> s.chan[x[1]]
                  [] x[2] = "queue" -> s.queue

ASSUME ScenarioAssumption ==
    \A s \in Scenarios :
       /\ s.local \in [Workers -> Seq(Tasks)] /\ s.chan \in [Workers -> Seq(Tasks)]
       /\ s.queue \in Seq(Tasks) /\ Len(s.queue) <= QueueLimit
       /\ \A w \in Workers : Len(s.local[w]) <= LocalLimit /\ Len(s.chan[w]) <= 1
       /\ s.count \in [Workers -> Nat]
       /\ s.callers \subseteq Tasks \ Held(s)
       /\ \A x, y \in Rooms :
             \A i \in DOMAIN Filled(s, x), j \in DOMAIN Filled(s, y) :
                Filled(s, x)[i] = Filled(s, y)[j] => x = y /\ i = j

Init ==
    \E s \in Scenarios :
       /\ WorkerInit(s.local, s.chan, s.count, s.up)
       /\ outsiders = s.outsiders
       /\ queue = s.queue
       /\ pc = [x \in Senders |-> IF x \in Loops THEN "wait"
                                  ELSE IF x \in s.callers THEN "new"
                                  ELSE IF x \in Held(s) THEN "accepted"
                                  ELSE "absent"]
       /\ accepting = TRUE /\ schedDone = FALSE /\ starts = 1 /\ waiting = FALSE
       /\ levelQueue = [l \in Levels |-> <<>>] /\ overtaken = {}
       /\ target = [x \in Senders |-> 0]
       /\ inHand = [x \in Loops |-> None] /\ moved = [x \in Loops |-> 0]
       /\ level = TopLevel
       /\ scan = NoScan /\ scans = 0
       /\ dropped = {}

Step(s, from, to) == pc[s] = from /\ pc' = [pc EXCEPT ![s] = to]

Cargo(s) == IF s \in Loops THEN inHand[s] ELSE s
-----------------------------------------------------------------------------
(* Schedule, up to tryDirectSchedule.  The Future it makes is given to     *)
(* nobody.                                                                 *)
Schedule(t) ==
    /\ Step(t, "new", IF accepting THEN "select" ELSE "failing")
    /\ UNCHANGED <<workerVars, lifeVars, queueVars, target, inHand, moved,
                   level, scan, scans, dropped>>

(* The error is returned.                                                  *)
Refuse(t) ==
    /\ Step(t, "failing", "refused")
    /\ UNCHANGED <<workerVars, lifeVars, queueVars, target, inHand, moved,
                   level, scan, scans, dropped>>

(* Where a sender puts a task no worker took.                              *)
Fallback(s) == IF s \in {GlobalLoop, StealingLoop} THEN "global" ELSE "level"

(* tryDirectSchedule: any worker that runs, none if none does.             *)
SelectWorker(s) ==
    /\ \/ \E w \in Workers :
             /\ isRunning[w]
             /\ Step(s, "select", "local")
             /\ target' = [target EXCEPT ![s] = w]
       \/ /\ \A w \in Workers : ~isRunning[w]
          /\ Step(s, "select", Fallback(s))
          /\ UNCHANGED target
    /\ UNCHANGED <<workerVars, lifeVars, queueVars, inHand, moved, level, scan,
                   scans, dropped>>

(* The worker has the task: a caller returns, a batch goes on, the         *)
(* stealing loop waits for its next tick.                                  *)
Delivered(s, from) ==
    /\ Step(s, from, IF s \in Tasks THEN "accepted"
                     ELSE IF s = StealingLoop THEN "wait" ELSE "dequeue")
    /\ target' = [target EXCEPT ![s] = 0]
    /\ IF s \in Loops
       THEN /\ inHand' = [inHand EXCEPT ![s] = None]
            /\ moved' = [moved EXCEPT ![s] =
                            IF s = StealingLoop THEN 0 ELSE @ + 1]
       ELSE UNCHANGED <<inHand, moved>>

(* Worker.SubmitTask: the local queue first, then the channel.             *)
SubmitLocal(s) ==
    /\ pc[s] = "local"
    /\ \/ PutLocal(target[s], Cargo(s)) /\ Delivered(s, "local")
       \/ /\ Len(local[target[s]]) = LocalLimit
          /\ Step(s, "local", "chan")
          /\ UNCHANGED <<local, target, inHand, moved>>
    /\ UNCHANGED <<chan, runVars, stopVars, countVars, resultVars, lifeVars,
                   queueVars, level, scan, scans, dropped>>

SubmitChan(s) ==
    /\ pc[s] = "chan"
    /\ \/ PutChan(target[s], Cargo(s)) /\ Delivered(s, "chan")
       \/ /\ chan[target[s]] # <<>>
          /\ Step(s, "chan", Fallback(s))
          /\ target' = [target EXCEPT ![s] = 0]
          /\ UNCHANGED <<chan, inHand, moved>>
    /\ UNCHANGED <<local, runVars, stopVars, countVars, resultVars, lifeVars,
                   queueVars, level, scan, scans, dropped>>
-----------------------------------------------------------------------------
(* The queues.                                                             *)

LevelOf(t) == IF Priority[t] \in Levels THEN Priority[t] ELSE NormalLevel

LevelFor(s) == IF s \in Tasks THEN LevelOf(s) ELSE level

(* Another sender's item gets in while these calls on the same queue are   *)
(* open.                                                                   *)
Overtake(s, open) == overtaken' = (overtaken \cup open) \ {s}

(* After Enqueue, accepted or not, a loop ends its batch: the priority     *)
(* loop goes on with the level below.                                      *)
LeaveEnqueue(s, from, verdict) ==
    /\ Step(s, from, IF s = PriorityLoop THEN "nextLevel"
                     ELSE IF s \in Loops THEN "wait" ELSE verdict)
    /\ IF s \in Loops
       THEN /\ inHand' = [inHand EXCEPT ![s] = None]
            /\ moved' = [moved EXCEPT ![s] = 0]
       ELSE UNCHANGED <<inHand, moved>>
    /\ UNCHANGED <<workerVars, lifeVars, target, level, scan, scans>>

EnqueueLevel(s) ==
    LET l == LevelFor(s) IN
    /\ pc[s] = "level"
    /\ Len(levelQueue[l]) < LevelLimit
    /\ levelQueue' = [levelQueue EXCEPT ![l] = Append(@, Cargo(s))]
    /\ Overtake(s, {r \in Tasks \cup {PriorityLoop} :
                       pc[r] = "level" /\ LevelFor(r) = l})
    /\ LeaveEnqueue(s, "level", "accepted")
    /\ UNCHANGED <<queue, dropped>>

EnqueueGlobal(s) ==
    /\ pc[s] = "global"
    /\ Len(queue) < QueueLimit
    /\ queue' = Append(queue, Cargo(s))
    /\ Overtake(s, {r \in Senders : pc[r] = "global"})
    /\ LeaveEnqueue(s, "global", "accepted")
    /\ UNCHANGED <<levelQueue, dropped>>

(* A caller goes on to the global queue; the loop does not look at what    *)
(* its Enqueue returned.                                                   *)
LevelRefused(s) ==
    /\ pc[s] = "level"
    /\ Len(levelQueue[LevelFor(s)]) = LevelLimit \/ s \in overtaken
    /\ overtaken' = overtaken \ {s}
    /\ dropped' = dropped \cup ({Cargo(s)} \ {s})
    /\ LeaveEnqueue(s, "level", "global")
    /\ UNCHANGED <<queue, levelQueue>>

(* A caller gets ErrQueueFull.                                             *)
GlobalRefused(s) ==
    /\ pc[s] = "global"
    /\ Len(queue) = QueueLimit \/ s \in overtaken
    /\ overtaken' = overtaken \ {s}
    /\ dropped' = dropped \cup ({Cargo(s)} \ {s})
    /\ LeaveEnqueue(s, "global", "failing")
    /\ UNCHANGED <<queue, levelQueue>>
-----------------------------------------------------------------------------
(* scheduleLoop and priorityScheduleLoop.                                  *)

loopUnchanged == <<workerVars, lifeVars, overtaken, target, scan, scans,
                   dropped>>

GlobalTick ==
    /\ queue # <<>>
    /\ Step(GlobalLoop, "wait", "dequeue")
    /\ UNCHANGED <<loopUnchanged, queue, levelQueue, inHand, moved, level>>

DequeueGlobal ==
    /\ IF queue = <<>> \/ moved[GlobalLoop] = GlobalBatch
       THEN /\ Step(GlobalLoop, "dequeue", "wait")
            /\ moved' = [moved EXCEPT ![GlobalLoop] = 0]
            /\ UNCHANGED <<queue, inHand>>
       ELSE /\ Step(GlobalLoop, "dequeue", "select")
            /\ inHand' = [inHand EXCEPT ![GlobalLoop] = Head(queue)]
            /\ queue' = Tail(queue)
            /\ UNCHANGED moved
    /\ UNCHANGED <<loopUnchanged, levelQueue, level>>

PriorityTick ==
    /\ \E l \in Levels : levelQueue[l] # <<>>
    /\ Step(PriorityLoop, "wait", "dequeue")
    /\ level' = TopLevel
    /\ UNCHANGED <<loopUnchanged, queue, levelQueue, inHand, moved>>

DequeueLevel ==
    /\ IF levelQueue[level] = <<>> \/ moved[PriorityLoop] = BatchAt[level]
       THEN /\ Step(PriorityLoop, "dequeue", "nextLevel")
            /\ moved' = [moved EXCEPT ![PriorityLoop] = 0]
            /\ UNCHANGED <<levelQueue, inHand>>
       ELSE /\ Step(PriorityLoop, "dequeue", "select")
            /\ inHand' = [inHand EXCEPT ![PriorityLoop] = Head(levelQueue[level])]
            /\ levelQueue' = [levelQueue EXCEPT ![level] = Tail(@)]
            /\ UNCHANGED moved
    /\ UNCHANGED <<loopUnchanged, queue, level>>

NextLevel ==
    LET below == {l \in Levels : l < level} IN
    /\ IF below = {}
       THEN Step(PriorityLoop, "nextLevel", "wait") /\ level' = TopLevel
       ELSE /\ Step(PriorityLoop, "nextLevel", "dequeue")
            /\ level' = CHOOSE l \in below : \A m \in below : m <= l
    /\ UNCHANGED <<loopUnchanged, queue, levelQueue, inHand, moved>>
-----------------------------------------------------------------------------
(* workStealingLoop: performWorkStealing looks at one worker after the     *)
(* other, then takes from the busiest what it gives to the idlest.         *)

stealUnchanged == <<runVars, stopVars, countVars, resultVars, chan, lifeVars,
                    queueVars, moved, level, dropped>>

StealingTick ==
    /\ NWorkers > 1 /\ scans < MaxScans
    /\ Step(StealingLoop, "wait", "scan")
    /\ scan' = NoScan
    /\ scans' = scans + 1
    /\ UNCHANGED <<stealUnchanged, local, target, inHand>>

(* What the scan knows once it has looked at worker w.                     *)
Seen(w) ==
    LET busier == Load(w) > scan.maxLoad /\ Len(local[w]) > StealThreshold
        idler  == scan.idlest = 0 \/ Load(w) < scan.minLoad
    IN  [at      |-> w + 1,
         busiest |-> IF busier THEN w ELSE scan.busiest,
         maxLoad |-> IF busier THEN Load(w) ELSE scan.maxLoad,
         idlest  |-> IF idler THEN w ELSE scan.idlest,
         minLoad |-> IF idler THEN Load(w) ELSE scan.minLoad]

ScanWorker ==
    /\ scan.at <= NWorkers
    /\ Step(StealingLoop, "scan", "scan")
    /\ scan' = IF isRunning[scan.at] THEN Seen(scan.at)
               ELSE [scan EXCEPT !.at = @ + 1]
    /\ UNCHANGED <<stealUnchanged, local, target, inHand, scans>>

WorthStealing ==
    /\ scan.busiest # 0 /\ scan.idlest # 0
    /\ scan.busiest # scan.idlest
    /\ scan.maxLoad - scan.minLoad > StealThreshold

(* StealWork looks at the size first, and takes the task afterwards.       *)
DecideToSteal ==
    /\ scan.at > NWorkers
    /\ Step(StealingLoop, "scan",
            IF WorthStealing /\ CanStealWork(scan.busiest) THEN "steal"
                                                           ELSE "wait")
    /\ scan' = IF pc'[StealingLoop] = "steal" THEN scan ELSE NoScan
    /\ UNCHANGED <<stealUnchanged, local, target, inHand, scans>>

Steal ==
    LET victim == scan.busiest IN
    /\ pc[StealingLoop] = "steal"
    /\ IF local[victim] = <<>>
       THEN /\ Step(StealingLoop, "steal", "wait")
            /\ UNCHANGED <<local, target, inHand>>
       ELSE /\ Step(StealingLoop, "steal", "local")
            /\ inHand' = [inHand EXCEPT ![StealingLoop] = Newest(victim)]
            /\ TakeNewest(victim)
            /\ target' = [target EXCEPT ![StealingLoop] = scan.idlest]
    /\ scan' = NoScan
    /\ UNCHANGED <<stealUnchanged, scans>>

LoopExit(s) ==
    /\ schedDone
    /\ Step(s, "wait", "exited")
    /\ UNCHANGED <<workerVars, lifeVars, queueVars, target, inHand, moved,
                   level, scan, scans, dropped>>
-----------------------------------------------------------------------------
(* Start and Stop, called by one user in turn.                             *)

lifeUnchanged == <<workerVars, queueVars, target, inHand, moved, level, scan,
                   scans, dropped>>

(* Variant: Stop does not cancel the context of the loops.                 *)
CancelNot == UNCHANGED schedDone

CancelContext == schedDone' = TRUE

Stop ==
    /\ "stop" \in outsiders
    /\ accepting /\ ~waiting
    /\ accepting' = FALSE /\ waiting' = TRUE
    /\ CancelContext
    /\ UNCHANGED <<lifeUnchanged, pc, starts>>

StopReturned ==
    /\ waiting /\ \A s \in Loops : pc[s] = "exited"
    /\ waiting' = FALSE
    /\ UNCHANGED <<lifeUnchanged, pc, accepting, schedDone, starts>>

(* The context stays cancelled.                                            *)
StartAgain ==
    /\ ~accepting /\ ~waiting /\ starts < MaxStarts
    /\ accepting' = TRUE
    /\ starts' = starts + 1
    /\ pc' = [s \in Senders |-> IF s \in Loops THEN "wait" ELSE pc[s]]
    /\ UNCHANGED <<lifeUnchanged, schedDone, waiting>>
-----------------------------------------------------------------------------
SendStep(s) ==
    \/ SelectWorker(s) \/ SubmitLocal(s) \/ SubmitChan(s)
    \/ EnqueueLevel(s) \/ LevelRefused(s)
    \/ EnqueueGlobal(s) \/ GlobalRefused(s)

CallerStep(t) == Refuse(t) \/ SendStep(t)

OwnStep(s) ==
    \/ s = GlobalLoop /\ (GlobalTick \/ DequeueGlobal)
    \/ s = PriorityLoop /\ (PriorityTick \/ DequeueLevel \/ NextLevel)
    \/ s = StealingLoop /\ (StealingTick \/ ScanWorker \/ DecideToSteal \/ Steal)

LoopStep(s) == OwnStep(s) \/ SendStep(s) \/ LoopExit(s)

schedulerVars == <<lifeVars, queueVars, sendVars, dropped>>

Next ==
    \/ WorkerNext /\ UNCHANGED schedulerVars
    \/ \E t \in Tasks : Schedule(t) \/ CallerStep(t)
    \/ \E s \in Loops : LoopStep(s)
    \/ Stop \/ StopReturned \/ StartAgain

Spec == Init /\ [][Next]_vars

(* Goroutines keep running, tasks return, tickers tick.  Callers take      *)
(* finitely many steps, so it is enough that some step of theirs is taken  *)
(* as long as there is one.  A select with several ready cases takes each  *)
(* of them if it is asked often enough, hence the strong fairness of the   *)
(* exits.  Nobody has to schedule, stop or start anything.                 *)
FairSpec ==
    /\ Spec
    /\ \A r \in Runs : WF_vars(RunNext(r) /\ UNCHANGED schedulerVars)
    /\ WF_vars(\E t \in Tasks : CallerStep(t))
    /\ \A s \in Loops : WF_vars(LoopStep(s)) /\ SF_vars(LoopExit(s))
    /\ WF_vars(StopReturned)
-----------------------------------------------------------------------------
TaskLabels == {"absent", "new", "select", "local", "chan", "level", "global",
               "failing", "refused", "accepted"}
LoopLabels == {"wait", "dequeue", "nextLevel", "scan", "steal", "select",
               "local", "chan", "level", "global", "exited"}

(* Type invariant, with the bounds of the queues and of the batches.       *)
TypeOK ==
    /\ WorkerTypeOK
    /\ accepting \in BOOLEAN /\ schedDone \in BOOLEAN /\ waiting \in BOOLEAN
    /\ starts \in 1 .. MaxStarts
    /\ queue \in Seq(Tasks) /\ Len(queue) <= QueueLimit
    /\ levelQueue \in [Levels -> Seq(Tasks)]
    /\ \A l \in Levels : Len(levelQueue[l]) <= LevelLimit
    /\ overtaken \subseteq Senders
    /\ \A t \in Tasks : pc[t] \in TaskLabels
    /\ \A s \in Loops : pc[s] \in LoopLabels
    /\ target \in [Senders -> {0} \cup Workers]
    /\ \A s \in Senders : pc[s] \in {"local", "chan"} <=> target[s] # 0
    /\ inHand \in [Loops -> Tasks \cup {None}]
    /\ \A s \in Loops : inHand[s] # None <=>
          pc[s] \in {"select", "local", "chan", "level", "global"}
    /\ moved[GlobalLoop] \in 0 .. GlobalBatch
    /\ moved[PriorityLoop] \in 0 .. BatchAt[level]
    /\ level \in Levels
    /\ scan.busiest \in {0} \cup Workers /\ scan.idlest \in {0} \cup Workers
    /\ scans \in 0 .. MaxScans
    /\ dropped \subseteq Tasks

(* Where a task's wrapper is.                                              *)
Positions(q, t) == {i \in DOMAIN q : q[i] = t}

Places(t) ==
    {<<"global", 0, i>> : i \in Positions(queue, t)}
    \cup (UNION {{<<"level", l, i>> : i \in Positions(levelQueue[l], t)} : l \in Levels})
    \cup (UNION {{<<"local", w, i>> : i \in Positions(local[w], t)} : w \in Workers})
    \cup (UNION {{<<"chan", w, i>> : i \in Positions(chan[w], t)} : w \in Workers})
    \cup {<<"run", r, 0>> : r \in {x \in Runs : current[x] = t}}
    \cup {<<"loop", s, 0>> : s \in {x \in Loops : inHand[x] = t}}
    \cup (IF pc[t] \in {"select", "local", "chan", "level", "global"}
          THEN {<<"caller", 0, 0>>} ELSE {})

(* A wrapper is never in two places, whatever is stolen, put back, thrown  *)
(* away or restarted: executeTask and cleanup zero it when they are done   *)
(* (worker.go:498-510), and everyone else must have let go of it.          *)
OneHolder == \A t \in Tasks : Cardinality(Places(t)) <= 1

(* Nobody will serve a task: it is in a queue whose loop is told to stop,  *)
(* in a queue while no worker runs (a loop may hold it in between), or     *)
(* behind a worker's cleanup.                                              *)
Stranded(t) ==
    LET queued == \/ Positions(queue, t) # {}
                  \/ \E l \in Levels : Positions(levelQueue[l], t) # {}
    IN
    \/ queued /\ schedDone
    \/ /\ queued \/ \E s \in Loops : inHand[s] = t
       /\ \A w \in Workers : ~isRunning[w]
    \/ \E w \in Workers :
          /\ Positions(local[w], t) # {} \/ Positions(chan[w], t) # {}
          /\ \A k \in 1 .. MaxRestarts :
                wpc[<<w, k>>] \in {"none", "drainChan", "stopped"}

Answered(t) == future[t] # "pending"

(* Every task for which Schedule returned nil gets a result or is told     *)
(* that the worker closed, unless a loop could not put it back, a panic    *)
(* cut its report short, or it is stranded: there is no other way to lose  *)
(* one.                                                                    *)
OnlyKnownLosses ==
    []<>(\A t \in Tasks :
            pc[t] = "accepted" =>
                \/ Answered(t)
                \/ t \in dropped \cup unanswered
                \/ Stranded(t))

(* Stop returns: no loop it waits for goes on for ever.                    *)
StopReturns == []<>~waiting
-----------------------------------------------------------------------------
(* Refinement: what scheduler and workers do to each task is what          *)
(* TaskLedger allows.  A worker that ends makes the pool of the ledger     *)
(* shut down; a refused task's Future is one nobody can ask.               *)
Status(t) ==
    CASE pc[t] \in {"absent", "new"} -> "new"
      [] pc[t] = "refused" -> "refused"
      [] pc[t] \notin {"absent", "new", "refused", "accepted"} -> "offered"
      [] OTHER ->
           LET doing == {wpc[r] : r \in {x \in Runs : current[x] = t}} IN
           CASE "execute" \in doing -> "running"
             [] "report" \in doing \/ t \in unanswered -> "ran"
             [] doing = {} /\ t \in started \ unanswered -> "reported"
             [] t \notin started /\ (Places(t) # {} \/ t \in dropped) -> "accepted"
             [] OTHER -> "discarded"

Ledger == INSTANCE TaskLedger WITH
    pool <- IF \E r \in Runs : wpc[r] \in {"drainLocal", "drainChan", "stopped"}
            THEN "shutdown" ELSE "running",
    status <- [t \in Tasks |-> Status(t)],
    future <- [t \in Tasks |-> IF pc[t] = "refused" THEN "refused"
                                                    ELSE future[t]]

(* Stolen, put back or handled by a restarted worker, a task is executed   *)
(* at most once or thrown away by a worker that ends, and its Future is    *)
(* set once: every step is one of the ledger's, from where a behaviour     *)
(* starts.                                                                 *)
KeepsTheLedger == [][Ledger!Next]_(Ledger!ledgerVars)
=============================================================================
