------------------------------- MODULE Worker -------------------------------
(***************************************************************************)
(* internal/worker/worker.go: workers with a local queue and a one-place   *)
(* channel, what others do to them (SubmitTask, StealWork, Stop), the      *)
(* goroutines that run them, and the restart of a goroutine that panicked. *)
(*                                                                         *)
(* A worker has one goroutine per run; run k + 1 is started by a run that  *)
(* recovered from a panic.  A task stands for its wrapper and its Future.  *)
(* The ring localQueue is the sequence of what it holds.  What a task      *)
(* computes, its context, the object cache and the statistics other than   *)
(* taskCount are left out.                                                 *)
(***************************************************************************)
EXTENDS Integers, Sequences, FiniteSets

CONSTANTS Tasks,        \* the tasks
          None,         \* no task
          NWorkers,     \* how many workers there are
          LocalLimit,   \* what a local queue holds: LocalQueueSize - 1
          MaxRestarts   \* maxRestarts

Workers == 1 .. NWorkers
Runs    == Workers \X (1 .. MaxRestarts)

ASSUME WorkerAssumption ==
    /\ NWorkers \in Nat \ {0}
    /\ LocalLimit \in Nat
    /\ MaxRestarts \in Nat \ {0}
    /\ None \notin Tasks

VARIABLES
    local, chan,    \* localQueue and taskChan of each worker
    isRunning,      \* isRunning of each worker
    cancelled,      \* ctx of each worker is cancelled
    taskCount,      \* taskCount of each worker
    restartCount,   \* restartCount of each worker
    wpc, current,   \* of each run: next step, task it took
    future,         \* what each Future holds
    started,        \* history: tasks whose Execute has been called
    unanswered,     \* history: tasks whose report was cut short by a panic
    outsiders       \* what those outside do in this behaviour: "stop workers",
                    \* "panic" (the monitor or the error handler), ...

roomVars   == <<local, chan>>
runVars    == <<wpc, current>>
stopVars   == <<isRunning, cancelled>>
countVars  == <<taskCount, restartCount>>
resultVars == <<future, started, unanswered, outsiders>>
workerVars == <<roomVars, runVars, stopVars, countVars, resultVars>>

(* Every worker has been started once; those in up still run.              *)
WorkerInit(locals, chans, counts, up) ==
    /\ local = locals /\ chan = chans
    /\ isRunning = [w \in Workers |-> w \in up]
    /\ cancelled = [w \in Workers |-> w \notin up]
    /\ taskCount = counts
    /\ restartCount = [w \in Workers |-> 0]
    /\ wpc = [r \in Runs |-> IF r[2] > 1 THEN "none"
                              ELSE IF r[1] \in up THEN "loop" ELSE "stopped"]
    /\ current = [r \in Runs |-> None]
    /\ future = [t \in Tasks |-> "pending"]
    /\ started = {} /\ unanswered = {}
-----------------------------------------------------------------------------
(* What others do to a worker.  SubmitTask tries PutLocal, then PutChan;   *)
(* neither asks whether the worker still runs.                             *)

(* Variant: enqueueLocal without its test for a full ring.                 *)
PutLocalAlways(w, t) == local' = [local EXCEPT ![w] = Append(@, t)]

PutLocal(w, t) ==
    /\ Len(local[w]) < LocalLimit
    /\ local' = [local EXCEPT ![w] = Append(@, t)]

PutChan(w, t) ==
    /\ chan[w] = <<>>
    /\ chan' = [chan EXCEPT ![w] = <<t>>]

CanStealWork(w) == Len(local[w]) > 1

Load(w) == taskCount[w] + Len(local[w])

Newest(w) == local[w][Len(local[w])]

(* Variant: stealFromLocal leaves localTail where it was.                  *)
PeekNewest(w) == UNCHANGED local

(* stealFromLocal of a queue that is not empty.                            *)
TakeNewest(w) ==
    local' = [local EXCEPT ![w] = SubSeq(@, 1, Len(@) - 1)]

(* Worker.Stop.                                                            *)
StopWorker(w) ==
    /\ "stop workers" \in outsiders
    /\ ~cancelled[w]
    /\ isRunning' = [isRunning EXCEPT ![w] = FALSE]
    /\ cancelled' = [cancelled EXCEPT ![w] = TRUE]
    /\ UNCHANGED <<roomVars, runVars, countVars, resultVars>>
-----------------------------------------------------------------------------
(* run and executeTask.                                                    *)

RunStep(r, from, to) == wpc[r] = from /\ wpc' = [wpc EXCEPT ![r] = to]

LoopTest(r) ==
    /\ RunStep(r, "loop", IF isRunning[r[1]] THEN "choose" ELSE "exiting")
    /\ UNCHANGED <<roomVars, current, stopVars, countVars, resultVars>>

SeeDone(r) ==
    /\ cancelled[r[1]]
    /\ RunStep(r, "choose", "exiting")
    /\ UNCHANGED <<roomVars, current, stopVars, countVars, resultVars>>

(* The task is taken and its Execute called.                               *)
Begin(r, from, t) ==
    /\ RunStep(r, from, "execute")
    /\ current' = [current EXCEPT ![r] = t]
    /\ started' = started \cup {t}

ReceiveChan(r) ==
    LET w == r[1] IN
    /\ chan[w] # <<>>
    /\ Begin(r, "choose", Head(chan[w]))
    /\ chan' = [chan EXCEPT ![w] = <<>>]
    /\ UNCHANGED <<local, stopVars, countVars, future, unanswered, outsiders>>

(* Variant: dequeueLocal does not advance localHead.                       *)
PeekOldest(w) == UNCHANGED local

(* dequeueLocal of a queue that is not empty.                              *)
TakeOldest(w) == local' = [local EXCEPT ![w] = Tail(@)]

(* The default of the select: no other case was ready when it was asked.   *)
NoneReady(r) ==
    /\ ~cancelled[r[1]] /\ chan[r[1]] = <<>>
    /\ RunStep(r, "choose", "pop")
    /\ UNCHANGED <<roomVars, current, stopVars, countVars, resultVars>>

DequeueLocal(r) ==
    LET w == r[1] IN
    /\ local[w] # <<>>
    /\ Begin(r, "pop", Head(local[w]))
    /\ TakeOldest(w)
    /\ UNCHANGED <<chan, stopVars, countVars, future, unanswered, outsiders>>

(* A pass without a task: the worker idles and tests isRunning again.      *)
FindNothing(r) ==
    /\ local[r[1]] = <<>>
    /\ RunStep(r, "pop", "loop")
    /\ UNCHANGED <<roomVars, current, stopVars, countVars, resultVars>>

(* Execute returned, timed out or panicked, and the deferred function has  *)
(* counted the task.                                                       *)
TaskReturns(r) ==
    /\ RunStep(r, "execute", "report")
    /\ taskCount' = [taskCount EXCEPT ![r[1]] = @ + 1]
    /\ UNCHANGED <<roomVars, current, stopVars, restartCount, resultVars>>

(* setResult: the first outcome stays.                                     *)
SetResult(t, outcome) ==
    future' = IF future[t] = "pending" THEN [future EXCEPT ![t] = outcome]
                                       ELSE future

ReportResult(r) ==
    /\ RunStep(r, "report", "loop")
    /\ SetResult(current[r], "result")
    /\ current' = [current EXCEPT ![r] = None]
    /\ UNCHANGED <<roomVars, stopVars, countVars, started, unanswered, outsiders>>

(* The error handler or the monitor panics inside the deferred function,   *)
(* before or after the task is counted: nothing recovers before run does,  *)
(* and the Future is never set.                                            *)
ReportPanics(r) ==
    /\ "panic" \in outsiders
    /\ RunStep(r, "execute", "recover") \/ RunStep(r, "report", "recover")
    /\ unanswered' = unanswered \cup {current[r]}
    /\ current' = [current EXCEPT ![r] = None]
    /\ restartCount' = [restartCount EXCEPT ![r[1]] = @ + 1]
    /\ UNCHANGED <<roomVars, stopVars, taskCount, future, started, outsiders>>
-----------------------------------------------------------------------------
(* The deferred functions of run.                                          *)

Recover(r) ==
    LET w == r[1] IN
    /\ IF restartCount[w] < MaxRestarts /\ isRunning[w]
       THEN /\ RunStep(r, "recover", "backoff")
            /\ UNCHANGED isRunning
       ELSE /\ RunStep(r, "recover", "exiting")
            /\ isRunning' = [isRunning EXCEPT ![w] = FALSE]
    /\ UNCHANGED <<roomVars, current, cancelled, countVars, resultVars>>

NextRun(w) ==
    <<w, CHOOSE k \in 1 .. MaxRestarts :
             /\ wpc[<<w, k>>] = "none"
             /\ \A j \in 1 .. k - 1 : wpc[<<w, j>>] # "none">>

(* After the backoff a new goroutine starts and this one ends.             *)
Restart(r) ==
    /\ wpc[r] = "backoff"
    /\ wpc' = [wpc EXCEPT ![r] = "exiting", ![NextRun(r[1])] = "loop"]
    /\ UNCHANGED <<roomVars, current, stopVars, countVars, resultVars>>

MarkStopped(w) == isRunning' = [isRunning EXCEPT ![w] = FALSE]

(* The outer deferred function: isRunning = 0 and wg.Done, then cleanup,   *)
(* even if another run has just been started.                              *)
RunExits(r) ==
    /\ RunStep(r, "exiting", "drainLocal")
    /\ MarkStopped(r[1])
    /\ UNCHANGED <<roomVars, current, cancelled, countVars, resultVars>>

(* Variant: cleanup leaves the Futures of what it throws away alone.       *)
DiscardSilently(t) == UNCHANGED future

Discard(t) == SetResult(t, "closed")

DrainLocal(r) ==
    LET w == r[1] IN
    /\ IF local[w] = <<>>
       THEN /\ RunStep(r, "drainLocal", "drainChan")
            /\ UNCHANGED <<local, future>>
       ELSE /\ wpc[r] = "drainLocal"
            /\ Discard(Head(local[w]))
            /\ TakeOldest(w)
            /\ UNCHANGED wpc
    /\ UNCHANGED <<chan, current, stopVars, countVars, started, unanswered, outsiders>>

DrainChan(r) ==
    LET w == r[1] IN
    /\ IF chan[w] = <<>>
       THEN /\ RunStep(r, "drainChan", "stopped")
            /\ UNCHANGED <<chan, future>>
       ELSE /\ wpc[r] = "drainChan"
            /\ Discard(Head(chan[w]))
            /\ chan' = [chan EXCEPT ![w] = <<>>]
            /\ UNCHANGED wpc
    /\ UNCHANGED <<local, current, stopVars, countVars, started, unanswered, outsiders>>

RunNext(r) ==
    \/ LoopTest(r) \/ SeeDone(r) \/ ReceiveChan(r) \/ NoneReady(r)
    \/ DequeueLocal(r) \/ FindNothing(r) \/ TaskReturns(r) \/ ReportResult(r)
    \/ Recover(r) \/ Restart(r) \/ RunExits(r) \/ DrainLocal(r) \/ DrainChan(r)

WorkerNext ==
    \/ \E r \in Runs : RunNext(r) \/ ReportPanics(r)
    \/ \E w \in Workers : StopWorker(w)
-----------------------------------------------------------------------------
RunLabels == {"none", "loop", "choose", "pop", "execute", "report", "recover",
              "backoff", "exiting", "drainLocal", "drainChan", "stopped"}

WorkerTypeOK ==
    /\ local \in [Workers -> Seq(Tasks)]
    /\ chan \in [Workers -> Seq(Tasks)]
    /\ \A w \in Workers : Len(local[w]) <= LocalLimit /\ Len(chan[w]) <= 1
    /\ isRunning \in [Workers -> BOOLEAN]
    /\ cancelled \in [Workers -> BOOLEAN]
    /\ taskCount \in [Workers -> Nat]
    /\ restartCount \in [Workers -> 0 .. MaxRestarts]
    /\ wpc \in [Runs -> RunLabels]
    /\ current \in [Runs -> Tasks \cup {None}]
    /\ \A r \in Runs : wpc[r] \in {"execute", "report"} <=> current[r] # None
    /\ future \in [Tasks -> {"pending", "result", "closed"}]
    /\ started \subseteq Tasks /\ unanswered \subseteq Tasks

(* "Start the worker goroutine again" (worker.go:278), and give it up only  *)
(* when "the maximum number of restarts is reached" (worker.go:283): unless *)
(* somebody stops it, a worker stays running.  Violated: the deferred       *)
(* function of the old run marks the worker as stopped whatever the new     *)
(* one does (worker.go:252-256 against 279-281).                            *)
RestartRecovers ==
    [][\A w \in Workers :
         isRunning[w] /\ ~isRunning'[w] =>
             cancelled'[w] \/ restartCount[w] >= MaxRestarts]_workerVars
=============================================================================
