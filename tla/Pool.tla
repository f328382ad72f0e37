-------------------------------- MODULE Pool --------------------------------
(***************************************************************************)
(* pkg/pool/pool.go: the life of a task from SubmitAsync to its Future,    *)
(* with the goroutines that handle it running side by side: the callers    *)
(* (one per task), the scheduling loop, the workers and one Shutdown.      *)
(*                                                                         *)
(* A task stands for its wrapper and its Future too.  The global queue is  *)
(* the FIFO that LockFreeQueue implements (BoundedFIFO), its Enqueue and   *)
(* Dequeue taking effect in one step.  What a task computes, priorities,   *)
(* contexts of tasks, statistics, middleware and events are left out.      *)
(***************************************************************************)
EXTENDS Integers, Sequences, FiniteSets

CONSTANTS Tasks,         \* the tasks submitted, one SubmitAsync each
          Dispatcher,    \* the scheduling loop
          None,          \* no task
          NWorkers,      \* config.WorkerCount
          QueueLimit,    \* what the global queue can hold
          LocalLimit,    \* what a worker's local ring holds: LocalQueueSize-1
          BatchSize,     \* tasks moved by one tick of the loop (pool.go:1241)
          Turns,         \* period after which the balancer's counter repeats
          MayExpire      \* whether the context given to Shutdown can expire

Workers == 1 .. NWorkers
Senders == Tasks \cup {Dispatcher}

ASSUME PoolAssumption ==
    /\ NWorkers \in Nat \ {0}
    /\ QueueLimit \in Nat
    /\ LocalLimit \in Nat
    /\ BatchSize \in Nat \ {0}
    /\ Turns \in Nat \ {0}
    /\ \A n \in Workers : Turns % n = 0
    /\ MayExpire \in BOOLEAN
    /\ Dispatcher \notin Tasks
    /\ None \notin Tasks

VARIABLES
    state,          \* pool.state: "running", "shutdown", "closed"
    pools,          \* the object pools are there (not yet set to nil)
    accepting,      \* scheduler.isRunning
    schedDone,      \* scheduler.ctx is cancelled
    queue,          \* taskQueue
    overtaken,      \* senders whose open Enqueue another one overtook
    counter,        \* roundRobinBalancer.counter, modulo Turns
    local, chan,    \* localQueue and taskChan of each worker
    isRunning,      \* isRunning of each worker
    cancelled,      \* ctx of each worker is cancelled
    isActive,       \* isActive of each worker
    pc, target,     \* of each sender: next step, worker it selected
    inHand, moved,  \* of the loop: dequeued task, tasks moved in this batch
    wpc, current,   \* of each worker: next step, task it took
    hpc, at,        \* of Shutdown: next step, worker its for loops are at
    future,         \* what each Future holds
    started,        \* history: tasks whose Execute has been called
    dropped         \* history: tasks whose second Enqueue was refused

sendVars   == <<pc, target, inHand, moved, counter>>
queueVars  == <<queue, overtaken>>
roomVars   == <<local, chan>>
workVars   == <<wpc, current, isActive, started>>
stopVars   == <<isRunning, cancelled>>
schedVars  == <<accepting, schedDone>>
closeVars  == <<state, pools, hpc, at>>
vars == <<sendVars, queueVars, roomVars, workVars, stopVars, schedVars,
          closeVars, future, dropped>>

Init ==
    /\ state = "running"
    /\ pools = TRUE
    /\ accepting = TRUE
    /\ schedDone = FALSE
    /\ queue = <<>>
    /\ overtaken = {}
    /\ counter = 0
    /\ local = [w \in Workers |-> <<>>]
    /\ chan = [w \in Workers |-> <<>>]
    /\ isRunning = [w \in Workers |-> TRUE]
    /\ cancelled = [w \in Workers |-> FALSE]
    /\ isActive = [w \in Workers |-> FALSE]
    /\ pc = [s \in Senders |-> IF s = Dispatcher THEN "wait" ELSE "new"]
    /\ target = [s \in Senders |-> 0]
    /\ inHand = None
    /\ moved = 0
    /\ wpc = [w \in Workers |-> "loop"]
    /\ current = [w \in Workers |-> None]
    /\ hpc = "open"
    /\ at = 1
    /\ future = [t \in Tasks |-> "pending"]
    /\ started = {}
    /\ dropped = {}

(* Variant: setResult without its compare-and-swap.                        *)
SetResultAlways(t, outcome) == future' = [future EXCEPT ![t] = outcome]

(* poolFuture.setResult: the first outcome stays.                          *)
SetResult(t, outcome) ==
    future' = IF future[t] = "pending" THEN [future EXCEPT ![t] = outcome]
                                       ELSE future

Step(s, from, to) == pc[s] = from /\ pc' = [pc EXCEPT ![s] = to]
-----------------------------------------------------------------------------
(* The caller: SubmitAsync, Submit and the first half of schedule.         *)

callUnchanged == <<target, inHand, moved, counter, queueVars, roomVars,
                   workVars, stopVars, schedVars, closeVars, dropped>>

SubmitAsync(t) ==
    /\ Step(t, "new", IF state = "running" THEN "check" ELSE "failing")
    /\ UNCHANGED <<callUnchanged, future>>

(* futurePool.Get dereferences nil once the pools are gone (pool.go:385);  *)
(* then Submit looks at the state again.                                   *)
Submit(t) ==
    /\ Step(t, "check", IF ~pools THEN "panicked"
                        ELSE IF state = "running" THEN "schedule"
                        ELSE "failing")
    /\ UNCHANGED <<callUnchanged, future>>

Schedule(t) ==
    /\ Step(t, "schedule", IF accepting THEN "wrap" ELSE "failing")
    /\ UNCHANGED <<callUnchanged, future>>

(* taskPool.Get dereferences nil once the pools are gone (pool.go:1176).   *)
Wrap(t) ==
    /\ Step(t, "wrap", IF pools THEN "select" ELSE "panicked")
    /\ UNCHANGED <<callUnchanged, future>>

(* Variant: SubmitAsync forgets the Future of a failed submission.         *)
FailSilently(t) ==
    /\ Step(t, "failing", "refused")
    /\ UNCHANGED <<callUnchanged, future>>

(* The goroutine SubmitAsync starts when the submission failed.            *)
Fail(t) ==
    /\ Step(t, "failing", "refused")
    /\ SetResult(t, "refused")
    /\ UNCHANGED callUnchanged

(* The caller holds the Future once SubmitAsync has returned.              *)
Cancel(t) ==
    /\ pc[t] \in {"failing", "refused", "done"}
    /\ future[t] = "pending"
    /\ SetResult(t, "cancelled")
    /\ UNCHANGED <<callUnchanged, pc>>
-----------------------------------------------------------------------------
(* tryDirectSchedule and Enqueue, run by callers and by the loop alike.    *)

Cargo(s) == IF s = Dispatcher THEN inHand ELSE s

Running == {w \in Workers : isRunning[w]}

(* The k-th element of runningWorkers, counted from 0.                     *)
Nth(k) == CHOOSE w \in Running : Cardinality({v \in Running : v < w}) = k

SelectWorker(s) ==
    /\ IF Running = {}
       THEN /\ Step(s, "select", "enqueue")
            /\ UNCHANGED <<target, counter>>
       ELSE /\ Step(s, "select", "local")
            /\ counter' = (counter + 1) % Turns
            /\ target' = [target EXCEPT
                             ![s] = Nth(counter' % Cardinality(Running))]
    /\ UNCHANGED <<inHand, moved, queueVars, roomVars, workVars, stopVars,
                   schedVars, closeVars, future, dropped>>

(* The worker or the queue has the task: a caller returns, the loop goes   *)
(* on with its batch.                                                      *)
Delivered(s, from) ==
    /\ Step(s, from, IF s = Dispatcher THEN "dequeue" ELSE "done")
    /\ target' = [target EXCEPT ![s] = 0]
    /\ IF s = Dispatcher THEN inHand' = None /\ moved' = moved + 1
                         ELSE UNCHANGED <<inHand, moved>>

EnqueueLocal(s) ==
    /\ pc[s] = "local"
    /\ LET w == target[s] IN
         IF Len(local[w]) < LocalLimit
         THEN /\ Delivered(s, "local")
              /\ local' = [local EXCEPT ![w] = Append(@, Cargo(s))]
         ELSE /\ Step(s, "local", "chan")
              /\ UNCHANGED <<target, inHand, moved, local>>
    /\ UNCHANGED <<chan, counter, queueVars, workVars, stopVars, schedVars,
                   closeVars, future, dropped>>

(* taskChan has room for one task, and the send does not wait.             *)
SendChan(s) ==
    /\ pc[s] = "chan"
    /\ LET w == target[s] IN
         IF chan[w] = <<>>
         THEN /\ Delivered(s, "chan")
              /\ chan' = [chan EXCEPT ![w] = <<Cargo(s)>>]
         ELSE /\ Step(s, "chan", "enqueue")
              /\ target' = [target EXCEPT ![s] = 0]
              /\ UNCHANGED <<inHand, moved, chan>>
    /\ UNCHANGED <<local, counter, queueVars, workVars, stopVars, schedVars,
                   closeVars, future, dropped>>

(* After Enqueue, accepted or not, the loop ends its batch (pool.go:1253). *)
LeaveEnqueue(s, verdict) ==
    /\ Step(s, "enqueue", IF s = Dispatcher THEN "wait" ELSE verdict)
    /\ inHand' = IF s = Dispatcher THEN None ELSE inHand
    /\ moved' = IF s = Dispatcher THEN 0 ELSE moved
    /\ UNCHANGED <<target, counter, roomVars, workVars, stopVars, schedVars,
                   closeVars, future>>

Enqueue(s) ==
    /\ pc[s] = "enqueue"
    /\ Len(queue) < QueueLimit
    /\ queue' = Append(queue, Cargo(s))
    /\ overtaken' = (overtaken \cup {r \in Senders : pc[r] = "enqueue"}) \ {s}
    /\ LeaveEnqueue(s, "done")
    /\ UNCHANGED dropped

(* The loop does not look at what its Enqueue returned.                    *)
EnqueueRefused(s) ==
    /\ pc[s] = "enqueue"
    /\ Len(queue) = QueueLimit \/ s \in overtaken
    /\ overtaken' = overtaken \ {s}
    /\ dropped' = IF s = Dispatcher THEN dropped \cup {inHand} ELSE dropped
    /\ LeaveEnqueue(s, "failing")
    /\ UNCHANGED queue
-----------------------------------------------------------------------------
(* scheduleLoop and processGlobalQueue.                                    *)

loopUnchanged == <<target, counter, overtaken, roomVars, workVars, stopVars,
                   schedVars, closeVars, future, dropped>>

Tick ==
    /\ Step(Dispatcher, "wait", "dequeue")
    /\ UNCHANGED <<loopUnchanged, queue, inHand, moved>>

(* Variant: the loop empties the queue in one tick.                        *)
BatchUnbounded == queue = <<>>

BatchOver == queue = <<>> \/ moved = BatchSize

Dequeue ==
    /\ IF BatchOver
       THEN /\ Step(Dispatcher, "dequeue", "wait")
            /\ moved' = 0
            /\ UNCHANGED <<queue, inHand>>
       ELSE /\ Step(Dispatcher, "dequeue", "select")
            /\ inHand' = Head(queue)
            /\ queue' = Tail(queue)
            /\ UNCHANGED moved
    /\ UNCHANGED loopUnchanged

LoopExit ==
    /\ schedDone
    /\ Step(Dispatcher, "wait", "exited")
    /\ UNCHANGED <<loopUnchanged, queue, inHand, moved>>
-----------------------------------------------------------------------------
(* poolWorker.run, executeTask and cleanup.                                *)

WStep(w, from, to) == wpc[w] = from /\ wpc' = [wpc EXCEPT ![w] = to]

workUnchanged == <<sendVars, queueVars, schedVars, closeVars, dropped>>

LoopTest(w) ==
    /\ WStep(w, "loop", IF isRunning[w] THEN "choose" ELSE "exiting")
    /\ UNCHANGED <<workUnchanged, roomVars, stopVars, current, isActive,
                   started, future>>

(* The select of pool.go:902: any ready case, or default if none is.       *)
SeeDone(w) ==
    /\ cancelled[w]
    /\ WStep(w, "choose", "exiting")
    /\ UNCHANGED <<workUnchanged, roomVars, stopVars, current, isActive,
                   started, future>>

ReceiveChan(w) ==
    /\ chan[w] # <<>>
    /\ WStep(w, "choose", "begin")
    /\ current' = [current EXCEPT ![w] = Head(chan[w])]
    /\ chan' = [chan EXCEPT ![w] = <<>>]
    /\ UNCHANGED <<workUnchanged, local, stopVars, isActive, started, future>>

NoneReady(w) ==
    /\ ~cancelled[w] /\ chan[w] = <<>>
    /\ WStep(w, "choose", "pop")
    /\ UNCHANGED <<workUnchanged, roomVars, stopVars, current, isActive,
                   started, future>>

(* Variant: dequeueLocal does not advance localHead.                       *)
PeekLocal(w) == UNCHANGED local

PopLocal(w) == local' = [local EXCEPT ![w] = Tail(@)]

DequeueLocal(w) ==
    /\ IF local[w] = <<>>
       THEN /\ WStep(w, "pop", "loop")
            /\ UNCHANGED <<local, current>>
       ELSE /\ WStep(w, "pop", "begin")
            /\ current' = [current EXCEPT ![w] = Head(local[w])]
            /\ PopLocal(w)
    /\ UNCHANGED <<workUnchanged, chan, stopVars, isActive, started, future>>

(* Until here the worker holds a task and does not look active.            *)
ExecuteTask(w) ==
    /\ WStep(w, "begin", "execute")
    /\ isActive' = [isActive EXCEPT ![w] = TRUE]
    /\ started' = started \cup {current[w]}
    /\ UNCHANGED <<workUnchanged, roomVars, stopVars, current, future>>

(* Execute returned, timed out or panicked: the deferred function first    *)
(* stops looking active, and sets the Future last.                         *)
TaskReturns(w) ==
    /\ WStep(w, "execute", "report")
    /\ isActive' = [isActive EXCEPT ![w] = FALSE]
    /\ UNCHANGED <<workUnchanged, roomVars, stopVars, current, started, future>>

ReportResult(w) ==
    /\ WStep(w, "report", "loop")
    /\ SetResult(current[w], "result")
    /\ current' = [current EXCEPT ![w] = None]
    /\ UNCHANGED <<workUnchanged, roomVars, stopVars, isActive, started>>

(* The deferred isRunning = 0 and wg.Done; cleanup comes after both.       *)
WorkerExit(w) ==
    /\ WStep(w, "exiting", "drainLocal")
    /\ isRunning' = [isRunning EXCEPT ![w] = FALSE]
    /\ UNCHANGED <<workUnchanged, roomVars, cancelled, current, isActive,
                   started, future>>

DrainLocal(w) ==
    /\ IF local[w] = <<>>
       THEN /\ WStep(w, "drainLocal", "drainChan")
            /\ UNCHANGED <<local, future>>
       ELSE /\ wpc[w] = "drainLocal"
            /\ SetResult(Head(local[w]), "closed")
            /\ PopLocal(w)
            /\ UNCHANGED wpc
    /\ UNCHANGED <<workUnchanged, chan, stopVars, current, isActive, started>>

DrainChan(w) ==
    /\ IF chan[w] = <<>>
       THEN /\ WStep(w, "drainChan", "stopped")
            /\ UNCHANGED <<chan, future>>
       ELSE /\ wpc[w] = "drainChan"
            /\ SetResult(Head(chan[w]), "closed")
            /\ chan' = [chan EXCEPT ![w] = <<>>]
            /\ UNCHANGED wpc
    /\ UNCHANGED <<workUnchanged, local, stopVars, current, isActive, started>>
-----------------------------------------------------------------------------
(* Shutdown: the first call, the only one shutdownOnce lets in.            *)

HStep(from, to) == hpc = from /\ hpc' = to

shutUnchanged == <<sendVars, overtaken, roomVars, workVars, dropped>>

Shutdown ==
    /\ HStep("open", "stopScheduler")
    /\ state' = "shutdown"
    /\ UNCHANGED <<shutUnchanged, queue, stopVars, schedVars, pools, at, future>>

(* Variant: scheduler.stop does not cancel the loop's context.             *)
StopSchedulerFlagOnly ==
    /\ HStep("stopScheduler", "waitLoop")
    /\ accepting' = FALSE
    /\ UNCHANGED <<shutUnchanged, queue, stopVars, schedDone, state, pools, at,
                   future>>

(* scheduler.stop: callers read isRunning and only the loop reads the      *)
(* context, so the two stores are one step.                                *)
StopScheduler ==
    /\ HStep("stopScheduler", "waitLoop")
    /\ accepting' = FALSE
    /\ schedDone' = TRUE
    /\ UNCHANGED <<shutUnchanged, queue, stopVars, state, pools, at, future>>

(* Variant: scheduler.stop does not wait for the loop.                     *)
WaitLoopNot ==
    /\ HStep("waitLoop", "scan")
    /\ UNCHANGED <<shutUnchanged, queue, stopVars, schedVars, state, pools, at,
                   future>>

WaitLoop ==
    /\ pc[Dispatcher] = "exited"
    /\ HStep("waitLoop", "scan")
    /\ UNCHANGED <<shutUnchanged, queue, stopVars, schedVars, state, pools, at,
                   future>>

(* One tick of waitForRunningTasks looks at the workers one by one; a      *)
(* worker seen active sends it back to wait for the next tick.             *)
ScanWorker ==
    /\ IF isActive[at] THEN HStep("scan", "scan") /\ at' = 1
       ELSE IF at < NWorkers THEN HStep("scan", "scan") /\ at' = at + 1
       ELSE HStep("scan", "stopWorkers") /\ at' = 1
    /\ UNCHANGED <<shutUnchanged, queue, stopVars, schedVars, state, pools,
                   future>>

(* forceShutdown: the context expired between two ticks.                   *)
ExpireRunning ==
    /\ MayExpire /\ at = 1
    /\ HStep("scan", "forceCancel")
    /\ UNCHANGED <<shutUnchanged, queue, stopVars, schedVars, state, pools, at,
                   future>>

(* The loops of stopWorkers and forceShutdown over the workers.            *)
NextWorker(from, to) ==
    IF at < NWorkers THEN HStep(from, from) /\ at' = at + 1
                     ELSE HStep(from, to) /\ at' = 1

StopWorker ==
    /\ NextWorker("stopWorkers", "waitWorkers")
    /\ isRunning' = [isRunning EXCEPT ![at] = FALSE]
    /\ cancelled' = [cancelled EXCEPT ![at] = TRUE]
    /\ UNCHANGED <<shutUnchanged, queue, schedVars, state, pools, future>>

CancelWorker ==
    /\ NextWorker("forceCancel", "forceClear")
    /\ cancelled' = [cancelled EXCEPT ![at] = TRUE]
    /\ UNCHANGED <<shutUnchanged, queue, isRunning, schedVars, state, pools,
                   future>>

(* Variant: Shutdown counts a worker that looks inactive as gone.          *)
LooksGone(w) == ~isActive[w]

Gone(w) == wpc[w] \in {"drainLocal", "drainChan", "stopped"}

(* wg.Wait returned; then cleanupResources sets the object pools to nil.   *)
WorkersDone ==
    /\ \A w \in Workers : Gone(w)
    /\ HStep("waitWorkers", "clear")
    /\ pools' = FALSE
    /\ UNCHANGED <<shutUnchanged, queue, stopVars, schedVars, state, at, future>>

(* Shutdown gives up: the queue is not cleared, the state stays shutdown.  *)
ExpireWaiting ==
    /\ MayExpire
    /\ HStep("waitWorkers", "failed")
    /\ UNCHANGED <<shutUnchanged, queue, stopVars, schedVars, state, pools, at,
                   future>>

(* clearPendingTasks, on the way to closed or after forceShutdown.         *)
ClearPending ==
    /\ IF queue # <<>>
       THEN /\ hpc \in {"clear", "forceClear"}
            /\ SetResult(Head(queue), "closed")
            /\ queue' = Tail(queue)
            /\ UNCHANGED hpc
       ELSE /\ HStep("clear", "close") \/ HStep("forceClear", "failed")
            /\ UNCHANGED <<queue, future>>
    /\ UNCHANGED <<shutUnchanged, stopVars, schedVars, state, pools, at>>

Close ==
    /\ HStep("close", "closed")
    /\ state' = "closed"
    /\ UNCHANGED <<shutUnchanged, queue, stopVars, schedVars, pools, at, future>>
-----------------------------------------------------------------------------
SendStep(s) ==
    SelectWorker(s) \/ EnqueueLocal(s) \/ SendChan(s) \/ Enqueue(s)
    \/ EnqueueRefused(s)

CallerStep(t) ==
    Submit(t) \/ Schedule(t) \/ Wrap(t) \/ Fail(t) \/ SendStep(t)

LoopStep == Tick \/ Dequeue \/ LoopExit \/ SendStep(Dispatcher)

WorkerStep(w) ==
    \/ LoopTest(w) \/ SeeDone(w) \/ ReceiveChan(w) \/ NoneReady(w)
    \/ DequeueLocal(w) \/ ExecuteTask(w) \/ TaskReturns(w) \/ ReportResult(w)
    \/ WorkerExit(w) \/ DrainLocal(w) \/ DrainChan(w)

ShutdownStep ==
    \/ StopScheduler \/ WaitLoop \/ ScanWorker \/ StopWorker \/ CancelWorker
    \/ WorkersDone \/ ClearPending \/ Close

(* Every goroutine has ended or waits for nobody: not a deadlock.          *)
Terminated ==
    /\ \A t \in Tasks : pc[t] \in {"refused", "done", "panicked"}
    /\ pc[Dispatcher] = "exited"
    /\ \A w \in Workers : wpc[w] = "stopped"
    /\ hpc \in {"closed", "failed"}
    /\ UNCHANGED vars

Next ==
    \/ \E t \in Tasks : SubmitAsync(t) \/ CallerStep(t) \/ Cancel(t)
    \/ LoopStep
    \/ \E w \in Workers : WorkerStep(w)
    \/ Shutdown \/ ShutdownStep \/ ExpireRunning \/ ExpireWaiting
    \/ Terminated

Spec == Init /\ [][Next]_vars

(* Goroutines keep running and tasks return.  A select with several ready  *)
(* cases takes each of them if it is asked often enough, which is strong   *)
(* fairness for the two exits that race with other cases.  Nobody has to   *)
(* submit, to cancel or to call Shutdown, and no context has to expire.    *)
Fairness ==
    /\ \A t \in Tasks : WF_vars(CallerStep(t))
    /\ WF_vars(LoopStep) /\ SF_vars(LoopExit)
    /\ \A w \in Workers : WF_vars(WorkerStep(w)) /\ SF_vars(SeeDone(w))
    /\ WF_vars(ShutdownStep)

FairSpec == Spec /\ Fairness
-----------------------------------------------------------------------------
CallerLabels == {"new", "check", "schedule", "wrap", "select", "local", "chan",
                 "enqueue", "failing", "refused", "done", "panicked"}
LoopLabels   == {"wait", "dequeue", "select", "local", "chan", "enqueue",
                 "exited"}
WorkerLabels == {"loop", "choose", "pop", "begin", "execute", "report",
                 "exiting", "drainLocal", "drainChan", "stopped"}
ShutLabels   == {"open", "stopScheduler", "waitLoop", "scan", "stopWorkers",
                 "waitWorkers", "clear", "close", "closed", "forceCancel",
                 "forceClear", "failed"}
Outcomes     == {"result", "refused", "cancelled", "closed"}

(* Type invariant.                                                         *)
TypeOK ==
    /\ state \in {"running", "shutdown", "closed"}
    /\ pools \in BOOLEAN /\ accepting \in BOOLEAN /\ schedDone \in BOOLEAN
    /\ queue \in Seq(Tasks) /\ Len(queue) <= QueueLimit
    /\ overtaken \subseteq Senders
    /\ counter \in 0 .. Turns - 1
    /\ local \in [Workers -> Seq(Tasks)]
    /\ chan \in [Workers -> Seq(Tasks)]
    /\ \A w \in Workers : Len(local[w]) <= LocalLimit /\ Len(chan[w]) <= 1
    /\ isRunning \in [Workers -> BOOLEAN]
    /\ cancelled \in [Workers -> BOOLEAN]
    /\ isActive \in [Workers -> BOOLEAN]
    /\ pc \in [Senders -> CallerLabels \cup LoopLabels]
    /\ \A t \in Tasks : pc[t] \in CallerLabels
    /\ pc[Dispatcher] \in LoopLabels
    /\ target \in [Senders -> {0} \cup Workers]
    /\ \A s \in Senders : pc[s] \in {"local", "chan"} => target[s] # 0
    /\ inHand \in Tasks \cup {None}
    /\ pc[Dispatcher] \in {"select", "local", "chan", "enqueue"} =>
          inHand # None
    /\ moved \in 0 .. BatchSize
    /\ wpc \in [Workers -> WorkerLabels]
    /\ current \in [Workers -> Tasks \cup {None}]
    /\ \A w \in Workers :
          wpc[w] \in {"begin", "execute", "report"} <=> current[w] # None
    /\ hpc \in ShutLabels
    /\ at \in Workers
    /\ future \in [Tasks -> {"pending"} \cup Outcomes]
    /\ started \subseteq Tasks
    /\ dropped \subseteq Tasks

(* Where a task's wrapper is: at an index of a queue, or held by someone.  *)
Positions(s, t) == {i \in 1 .. Len(s) : s[i] = t}

Places(t) ==
    {<<"queue", 0, i>> : i \in Positions(queue, t)}
    \cup (UNION {{<<"local", w, i>> : i \in Positions(local[w], t)} : w \in Workers})
    \cup (UNION {{<<"chan", w, i>> : i \in Positions(chan[w], t)} : w \in Workers})
    \cup {<<"worker", w, 0>> : w \in {v \in Workers : current[v] = t}}
    \cup (IF inHand = t THEN {<<"loop", 0, 0>>} ELSE {})
    \cup (IF pc[t] \in {"select", "local", "chan", "enqueue"}
          THEN {<<"caller", 0, 0>>} ELSE {})

(* A wrapper is never in two places, so no one still uses it when it is    *)
(* zeroed and given back to the pool it is reused from (pool.go:1075).     *)
OneHolder == \A t \in Tasks : Cardinality(Places(t)) <= 1

(* The global queue is never consumed by the loop and by clearPendingTasks *)
(* at the same time: LockFreeQueue is only correct with one consumer.      *)
QueueHasOneConsumer ==
    hpc \in {"clear", "forceClear"} => pc[Dispatcher] = "exited"

(* The comment "put it back into the queue" (pool.go:1252): a task the     *)
(* loop could not hand to a worker is not forgotten.                       *)
RequeueKeepsTask == dropped = {}

(* A task is where no one looks any more: behind a worker's cleanup, or in *)
(* the global queue after Shutdown is done with it.                        *)
Stranded(t) ==
    \/ Positions(queue, t) # {} /\ hpc \in {"close", "closed", "failed"}
    \/ \E w \in Workers :
          \/ Positions(local[w], t) # {} /\ wpc[w] \in {"drainChan", "stopped"}
          \/ Positions(chan[w], t) # {} /\ wpc[w] = "stopped"

(* Future.Get "blocks until the task is complete and gets the result"      *)
(* (docs/api.md): the Future of an accepted task is settled in the end.    *)
EveryFutureSettles ==
    \A t \in Tasks : pc[t] = "done" ~> future[t] # "pending"

(* The ways a submission stays without an answer are these and no other:   *)
(* the loop's second Enqueue was refused, it reached a worker or the queue *)
(* after their last cleanup, or it found the object pools gone.            *)
OnlyKnownLosses ==
    \A t \in Tasks :
        pc[t] # "new" ~>
            \/ future[t] # "pending"
            \/ t \in dropped
            \/ Stranded(t)
            \/ pc[t] = "panicked"

(* Shutdown returns: no goroutine it waits for waits on it.                *)
ShutdownReturns == hpc = "stopScheduler" ~> hpc \in {"closed", "failed"}
-----------------------------------------------------------------------------
(* Refinement: what the pool does to each task is what TaskLedger allows.  *)
Status(t) ==
    CASE pc[t] = "new" -> "new"
      [] pc[t] = "refused" -> "refused"
      [] pc[t] \notin {"new", "refused", "done"} -> "offered"
      [] OTHER ->
           LET doing == {wpc[w] : w \in {v \in Workers : current[v] = t}} IN
           CASE "execute" \in doing -> "running"
             [] "report" \in doing -> "ran"
             [] t \in started /\ doing \cap {"execute", "report"} = {} -> "reported"
             [] t \notin started /\ (Places(t) # {} \/ t \in dropped) -> "accepted"
             [] OTHER -> "discarded"

Ledger == INSTANCE TaskLedger WITH
              pool <- state,
              status <- [t \in Tasks |-> Status(t)]

(* A refused task never runs, an accepted one runs at most once or is      *)
(* discarded, its Future is settled once, and nothing runs in a closed     *)
(* pool: Close waits for every task whose execution has begun.             *)
KeepsTheLedger == Ledger!Spec
=============================================================================
