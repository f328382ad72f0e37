---------------------------- MODULE MCScheduler ----------------------------
(***************************************************************************)
(* Instances of Scheduler for TLC: two workers, up to six tasks, and a     *)
(* scenario for each thing that is hard for the scheduler.                 *)
(***************************************************************************)
EXTENDS Scheduler, TLC

CONSTANTS t1, t2, t3, t4, t5, t6

(* t3 has a priority that does not exist and is treated as normal.         *)
TaskPriority ==
    [t \in Tasks |-> IF t = t3 THEN 7 ELSE IF t = t4 THEN 1 ELSE 0]

TaskLevels == 0 .. 1

OneEach == [l \in TaskLevels |-> 1]

None2 == <<<<>>, <<>>>>

Scenario(locals, chans, counts, queued, running, arriving, events) ==
    [local |-> locals, chan |-> chans, count |-> counts, queue |-> queued,
     up |-> running, callers |-> arriving, outsiders |-> events]

(* The first worker is worth stealing from while a task arrives.           *)
Unbalanced ==
    Scenario(<<<<t1, t2>>, <<>>>>, None2, <<1, 0>>, <<>>, {1, 2}, {t4}, {})

(* So it is here, but the thief is full, and the global queue may be.      *)
ThiefFull ==
    Scenario(<<<<t1, t2>>, <<t3, t4>>>>, <<<<>>, <<t5>>>>, <<4, 0>>, <<t6>>,
             {1, 2}, {}, {})

(* No worker runs: the callers fill the queues.                            *)
NobodyWorks ==
    Scenario(None2, None2, <<0, 0>>, <<>>, {}, {t1, t2, t3}, {})

(* The scheduler is stopped while tasks are in its queues.                 *)
StopWithTasks ==
    Scenario(None2, None2, <<0, 0>>, <<>>, {}, {t1, t4}, {"stop"})

(* The only worker is stopped under the callers.                           *)
WorkerStops ==
    Scenario(None2, None2, <<0, 0>>, <<>>, {1}, {t1, t2}, {"stop workers"})

(* The scheduler is stopped, started and stopped.                          *)
LifeCycle ==
    Scenario(<<<<t1>>, <<>>>>, None2, <<0, 0>>, <<>>, {1}, {t4}, {"stop"})

(* A worker's monitor panics, again and again.                             *)
Panics ==
    Scenario(<<<<t1, t2>>, <<>>>>, None2, <<0, 0>>, <<>>, {1}, {t4},
             {"panic"})

OnlyPanics == {Panics}

AllScenarios ==
    {Unbalanced, ThiefFull, NobodyWorks, StopWithTasks, WorkerStops,
     LifeCycle, Panics}
=============================================================================
