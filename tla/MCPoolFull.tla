----------------------------- MODULE MCPoolFull -----------------------------
(***************************************************************************)
(* An instance of Pool for TLC that starts when every place is taken: one  *)
(* worker, with a task in its local queue and one in its channel, and one  *)
(* in the global queue.  Three callers have returned, a fourth may come.   *)
(***************************************************************************)
EXTENDS Pool

CONSTANTS t1, t2, t3, t4

AllFull ==
    /\ state = "running" /\ pools = TRUE
    /\ accepting = TRUE /\ schedDone = FALSE
    /\ local = <<<<t1>>>> /\ chan = <<<<t2>>>> /\ queue = <<t3>>
    /\ pc = [s \in Senders |-> CASE s = Dispatcher -> "wait"
                                 [] s = t4 -> "new"
                                 [] OTHER -> "done"]
    /\ overtaken = {} /\ counter = 0 /\ target = [s \in Senders |-> 0]
    /\ isRunning = <<TRUE>> /\ cancelled = <<FALSE>> /\ isActive = <<FALSE>>
    /\ inHand = None /\ moved = 0 /\ wpc = <<"loop">> /\ current = <<None>>
    /\ hpc = "open" /\ at = 1 /\ future = [t \in Tasks |-> "pending"]
    /\ started = {} /\ dropped = {}

SpecWhenFull == AllFull /\ [][Next]_vars /\ Fairness
=============================================================================
