---------------------------- MODULE TaskLedger ----------------------------
(***************************************************************************)
(* What the pool promises about each task handed to SubmitAsync, with no   *)
(* queues, workers or scheduler: a task is refused or accepted, an         *)
(* accepted one is executed at most once or discarded, never both, its     *)
(* Future is set once and says which, and a closed pool executes nothing.  *)
(***************************************************************************)
CONSTANT Tasks

VARIABLES pool,    \* "running", "shutdown" or "closed"
          status,  \* what has become of each task
          future   \* what its Future holds

ledgerVars == <<pool, status, future>>

Init ==
    /\ pool = "running"
    /\ status = [t \in Tasks |-> "new"]
    /\ future = [t \in Tasks |-> "pending"]

Becomes(t, from, to) ==
    /\ status[t] = from
    /\ status' = [status EXCEPT ![t] = to]

(* A Future keeps the first outcome it is given.                           *)
Settle(t, outcome) ==
    future' = IF future[t] = "pending" THEN [future EXCEPT ![t] = outcome]
                                       ELSE future

Offer(t) == Becomes(t, "new", "offered") /\ UNCHANGED <<pool, future>>

Refuse(t) ==
    /\ Becomes(t, "offered", "refused")
    /\ Settle(t, "refused")
    /\ UNCHANGED pool

Accept(t) == Becomes(t, "offered", "accepted") /\ UNCHANGED <<pool, future>>

Start(t) ==
    /\ pool # "closed"
    /\ Becomes(t, "accepted", "running")
    /\ UNCHANGED <<pool, future>>

Finish(t) == Becomes(t, "running", "ran") /\ UNCHANGED <<pool, future>>

Report(t) ==
    /\ pool # "closed"
    /\ Becomes(t, "ran", "reported")
    /\ Settle(t, "result")
    /\ UNCHANGED pool

(* Only a pool that is shutting down gives up a task it has accepted.      *)
Discard(t) ==
    /\ pool # "running"
    /\ Becomes(t, "accepted", "discarded")
    /\ Settle(t, "closed")
    /\ UNCHANGED pool

(* Cancel settles the Future; it does not stop the task.                   *)
Cancel(t) ==
    /\ status[t] # "new"
    /\ Settle(t, "cancelled")
    /\ UNCHANGED <<pool, status>>

Shutdown ==
    /\ pool = "running"
    /\ pool' = "shutdown"
    /\ UNCHANGED <<status, future>>

(* No task is being executed, or executed and still unreported.            *)
Close ==
    /\ pool = "shutdown"
    /\ \A t \in Tasks : status[t] \notin {"running", "ran"}
    /\ pool' = "closed"
    /\ UNCHANGED <<status, future>>

Next ==
    \/ Shutdown
    \/ Close
    \/ \E t \in Tasks :
          \/ Offer(t) \/ Refuse(t) \/ Accept(t) \/ Start(t) \/ Finish(t)
          \/ Report(t) \/ Discard(t) \/ Cancel(t)

Spec == Init /\ [][Next]_ledgerVars
=============================================================================
