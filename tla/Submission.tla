----------------------------- MODULE Submission -----------------------------
(***************************************************************************)
(* What pkg/pool/pool.go does around a task besides queueing it: Submit    *)
(* and SubmitWithTimeout with the interceptor, the middleware chain and    *)
(* the events of extension.go before it is scheduled, executeTask with the *)
(* same after it was executed, and the monitor's count of queued tasks.    *)
(*                                                                         *)
(* Scheduling is what Pool models: here a task is refused, executed or     *)
(* discarded.  The chain's lock is held through a whole pass, so a pass is *)
(* one step.  Listeners are called on goroutines of their own.             *)
(***************************************************************************)
EXTENDS Integers, Sequences, FiniteSets, SequencesExt

CONSTANTS Submitted,     \* the tasks, one submission each
          Timed,         \* those handed to SubmitWithTimeout
          Middleware,    \* what users may add to the chain
          Interceptor,   \* config.TaskInterceptor
          Listeners,     \* what users may add to the event manager
          MaxChain,      \* bound: length of the chain
          MaxEdits       \* bound: how often the chain or the listeners change

ASSUME SubmissionAssumption ==
    /\ Timed \subseteq Submitted
    /\ IsFiniteSet(Submitted)
    /\ Interceptor \notin Middleware
    /\ MaxChain \in Nat /\ MaxEdits \in Nat

VARIABLES
    chain,       \* MiddlewareChain.middlewares
    listening,   \* EventManager.listeners
    edits,       \* how often either was changed
    submitter,   \* next step of each caller
    execution,   \* how far each task has come
    befores,     \* whose Before was called for each task, in order
    afters,      \* whose After was called for each task, in order
    ctxLive,     \* tasks whose timeout context is not done
    queuedTasks, \* monitor.queuedTasks
    pending,     \* events whose goroutine has not called its listener yet
    heard,       \* history: events that reached their listener
    rechained,   \* history: tasks under way while the chain changed
    moved,       \* history: listeners that were added or removed
    expired      \* history: tasks whose timeout has passed

chainVars == <<chain, listening, edits, rechained, moved>>
submissionVars == <<chainVars, submitter, execution, befores, afters, ctxLive,
                    queuedTasks, pending, heard, expired>>

SubmissionInit ==
    /\ chain = <<>> /\ listening \in SUBSET Listeners /\ edits = 0
    /\ submitter = [t \in Submitted |-> "new"]
    /\ execution = [t \in Submitted |-> "none"]
    /\ befores = [t \in Submitted |-> <<>>]
    /\ afters = [t \in Submitted |-> <<>>]
    /\ ctxLive = {}
    /\ queuedTasks = 0
    /\ pending = {} /\ heard = {}
    /\ rechained = {} /\ moved = {} /\ expired = {}
-----------------------------------------------------------------------------
(* AddMiddleware, RemoveMiddleware, AddEventListener, RemoveEventListener. *)

editUnchanged == <<submitter, execution, befores, afters, ctxLive, queuedTasks,
                   pending, heard, expired>>

(* The tasks for which Before ran and After did not yet.                   *)
UnderWay ==
    {t \in Submitted : befores[t] # <<>> /\ afters[t] = <<>>}

EditChain(new) ==
    /\ edits < MaxEdits
    /\ edits' = edits + 1
    /\ chain' = new
    /\ rechained' = rechained \cup UnderWay
    /\ UNCHANGED <<editUnchanged, listening, moved>>

AddMiddleware(m) == Len(chain) < MaxChain /\ EditChain(Append(chain, m))

(* The first occurrence goes.                                              *)
RemoveMiddleware(m) == Contains(chain, m) /\ EditChain(RemoveFirst(chain, m))

EditListeners(l, new) ==
    /\ edits < MaxEdits
    /\ edits' = edits + 1
    /\ listening' = new
    /\ moved' = moved \cup {l}
    /\ UNCHANGED <<editUnchanged, chain, rechained>>

AddEventListener(l) == l \notin listening /\ EditListeners(l, listening \cup {l})

RemoveEventListener(l) == l \in listening /\ EditListeners(l, listening \ {l})
-----------------------------------------------------------------------------
(* Submit and SubmitWithTimeout.                                           *)

SubStep(t, from, to) ==
    submitter[t] = from /\ submitter' = [submitter EXCEPT ![t] = to]

(* Variant: the interceptor comes after the chain.                         *)
BeforeInnermost(t) == Append(chain, Interceptor)

(* The interceptor is the outermost: its Before comes first.               *)
BeforeOrder(t) == <<Interceptor>> \o chain

SubmitTask(t) ==
    /\ SubStep(t, "new", "schedule")
    /\ ctxLive' = IF t \in Timed THEN ctxLive \cup {t} ELSE ctxLive
    /\ befores' = [befores EXCEPT ![t] = BeforeOrder(t)]
    /\ UNCHANGED <<chainVars, execution, afters, queuedTasks, pending, heard,
                   expired>>

(* schedule refuses before it counts: no After, no event, and the monitor  *)
(* hears nothing of the task.                                              *)
SchedulerStopped(t) ==
    /\ SubStep(t, "schedule", "return")
    /\ execution' = [execution EXCEPT ![t] = "rejected"]
    /\ UNCHANGED <<chainVars, befores, afters, ctxLive, queuedTasks, pending,
                   heard, expired>>

(* While the scheduler runs, the task is counted before it is handed over. *)
RecordTaskSubmit(t) ==
    /\ SubStep(t, "schedule", "handOver")
    /\ queuedTasks' = queuedTasks + 1
    /\ UNCHANGED <<chainVars, execution, befores, afters, ctxLive, pending, heard,
                   expired>>

(* The worker and the global queue are full: no After, no event, and the   *)
(* monitor, which has counted the task, is not told.                       *)
ScheduleRefuses(t) ==
    /\ SubStep(t, "handOver", "return")
    /\ execution' = [execution EXCEPT ![t] = "refused"]
    /\ UNCHANGED <<chainVars, befores, afters, ctxLive, queuedTasks, pending,
                   heard, expired>>

ScheduleAccepts(t) ==
    /\ SubStep(t, "handOver", "announce")
    /\ execution' = [execution EXCEPT ![t] = "queued"]
    /\ UNCHANGED <<chainVars, befores, afters, ctxLive, queuedTasks, pending,
                   heard, expired>>

(* One goroutine for each listener there is now.                           *)
EmitTo(kind, t) ==
    pending' = pending \cup {<<kind, t, l>> : l \in listening}

(* Variant: a submission is announced only while its task has not run.     *)
EmitUnlessDone(t) ==
    /\ SubStep(t, "announce", "return")
    /\ IF execution[t] = "queued" THEN EmitTo("submit", t) ELSE UNCHANGED pending
    /\ UNCHANGED <<chainVars, execution, befores, afters, ctxLive, queuedTasks,
                   heard, expired>>

(* The worker may be done with the task before its submission is announced.*)
EmitTaskSubmit(t) ==
    /\ SubStep(t, "announce", "return")
    /\ EmitTo("submit", t)
    /\ UNCHANGED <<chainVars, execution, befores, afters, ctxLive, queuedTasks,
                   heard, expired>>

(* The deferred cancel of SubmitWithTimeout (pool.go:339).                 *)
SubmitReturns(t) ==
    /\ SubStep(t, "return", "returned")
    /\ ctxLive' = ctxLive \ {t}
    /\ UNCHANGED <<chainVars, execution, befores, afters, queuedTasks, pending,
                   heard, expired>>
-----------------------------------------------------------------------------
(* executeTask, from the call of Execute to the Future; cleanup.           *)

ExecStep(t, from, to) ==
    execution[t] = from /\ execution' = [execution EXCEPT ![t] = to]

executionUnchanged == <<chainVars, submitter, befores>>

(* timeoutTask.Execute runs the task in the context of SubmitWithTimeout.  *)
ExecuteTask(t) ==
    /\ ExecStep(t, "queued", "executing")
    /\ UNCHANGED <<executionUnchanged, afters, ctxLive, queuedTasks, pending, heard,
                   expired>>

(* The worker's cleanup, clearPendingTasks: the Future, and nothing else.  *)
DiscardTask(t) ==
    /\ ExecStep(t, "queued", "discarded")
    /\ UNCHANGED <<executionUnchanged, afters, ctxLive, queuedTasks, pending, heard,
                   expired>>

(* Variant: a task that panicked is not recorded as ended.                 *)
PanicsUnrecorded(t) ==
    /\ ExecStep(t, "executing", "recorded")
    /\ EmitTo("panic", t)
    /\ UNCHANGED <<executionUnchanged, afters, ctxLive, queuedTasks, heard, expired>>

TaskPanics(t) ==
    /\ ExecStep(t, "executing", "ran")
    /\ EmitTo("panic", t)
    /\ UNCHANGED <<executionUnchanged, afters, ctxLive, queuedTasks, heard, expired>>

TaskSucceeds(t) ==
    /\ ExecStep(t, "executing", "ran")
    /\ UNCHANGED <<executionUnchanged, afters, ctxLive, queuedTasks, pending, heard,
                   expired>>

(* RecordTaskComplete or RecordTaskFail.                                   *)
RecordTaskEnd(t) ==
    /\ ExecStep(t, "ran", "recorded")
    /\ queuedTasks' = queuedTasks - 1
    /\ UNCHANGED <<executionUnchanged, afters, ctxLive, pending, heard, expired>>

(* The chain in reverse, then the interceptor.                             *)
ExecuteAfter(t) ==
    /\ ExecStep(t, "recorded", "after")
    /\ afters' = [afters EXCEPT ![t] = Append(Reverse(chain), Interceptor)]
    /\ UNCHANGED <<executionUnchanged, ctxLive, queuedTasks, pending, heard, expired>>

EmitTaskComplete(t) ==
    /\ ExecStep(t, "after", "done")
    /\ EmitTo("complete", t)
    /\ UNCHANGED <<executionUnchanged, afters, ctxLive, queuedTasks, heard, expired>>

(* A goroutine of Emit... calls its listener, who may be gone by now.      *)
Deliver(e) ==
    /\ e \in pending
    /\ pending' = pending \ {e}
    /\ heard' = heard \cup {e}
    /\ UNCHANGED <<chainVars, submitter, execution, befores, afters, ctxLive,
                   queuedTasks, expired>>

(* The timeout of SubmitWithTimeout passes.                                *)
Expire(t) ==
    /\ t \in ctxLive
    /\ ctxLive' = ctxLive \ {t}
    /\ expired' = expired \cup {t}
    /\ UNCHANGED <<chainVars, submitter, execution, befores, afters, queuedTasks,
                   pending, heard>>
-----------------------------------------------------------------------------
SubmitStep(t) ==
    \/ SchedulerStopped(t) \/ RecordTaskSubmit(t) \/ ScheduleRefuses(t)
    \/ ScheduleAccepts(t) \/ EmitTaskSubmit(t) \/ SubmitReturns(t)

ExecutionStep(t) ==
    \/ ExecuteTask(t) \/ DiscardTask(t) \/ TaskPanics(t) \/ TaskSucceeds(t)
    \/ RecordTaskEnd(t) \/ ExecuteAfter(t) \/ EmitTaskComplete(t)

SubmissionNext ==
    \/ \E m \in Middleware : AddMiddleware(m) \/ RemoveMiddleware(m)
    \/ \E l \in Listeners : AddEventListener(l) \/ RemoveEventListener(l)
    \/ \E t \in Submitted :
          SubmitTask(t) \/ SubmitStep(t) \/ ExecutionStep(t) \/ Expire(t)
    \/ \E e \in pending : Deliver(e)

(* Calls that have begun go on, tasks return, goroutines are scheduled.    *)
SubmissionFairness ==
    /\ \A t \in Submitted :
          WF_submissionVars(SubmitStep(t)) /\ WF_submissionVars(ExecutionStep(t))
    /\ WF_submissionVars(\E e \in pending : Deliver(e))

SubmissionSpec == SubmissionInit /\ [][SubmissionNext]_submissionVars
-----------------------------------------------------------------------------
(* Middleware nests: what ran Before a task runs After it in the opposite  *)
(* order, the interceptor outermost, unless the chain changed in between   *)
(* (extension.go:43-63, pool.go:295-301 and 989-996).                      *)
MiddlewareNests ==
    \A t \in Submitted \ rechained :
        afters[t] # <<>> => afters[t] = Reverse(befores[t])

(* A listener may hear of the completion of a task before it hears of its  *)
(* submission (pool.go:304-310), but it hears of both, unless it was added *)
(* or removed meanwhile.                                                   *)
CompletionIsAnnounced ==
    \A t \in Submitted, l \in Listeners :
        <<"complete", t, l>> \in heard ~> <<"submit", t, l>> \in heard \/ l \in moved

(* The timeout of SubmitWithTimeout is that of the execution of its task   *)
(* (docs/api.md:136-140): while the task executes, its context is done only*)
(* if the timeout has passed.  The code cancels the context as soon as     *)
(* Submit has returned (pool.go:339), and executes the task in it whenever *)
(* a worker gets to it (pool.go:1291-1297).                                *)
TimeoutIsForExecution ==
    \A t \in Timed :
        execution[t] = "executing" /\ t \notin ctxLive => t \in expired

(* The monitor's queued tasks are those handed over and not yet recorded   *)
(* as ended, together with every task that was refused by full queues or   *)
(* discarded: these are never taken back (monitor.go:171, pool.go:1172), so*)
(* an idle pool may report queued tasks for ever.  A task refused by a     *)
(* stopped scheduler is not among them (pool.go:1164-1166).                *)
QueuedTasksAddUp ==
    queuedTasks =
        Cardinality({t \in Submitted :
            /\ submitter[t] \notin {"new", "schedule"}
            /\ execution[t] \in {"none", "queued", "executing", "ran",
                                 "refused", "discarded"}})
=============================================================================
