------------------------------ MODULE Monitor ------------------------------
(***************************************************************************)
(* pkg/pool/monitor.go with metrics enabled: the history of completed      *)
(* tasks, the update loop that derives a throughput from it, and the users *)
(* that start and stop the monitor.                                        *)
(*                                                                         *)
(* Time is a number that time.Now reads and that never goes back.  The     *)
(* counters that are only added to, how long a task took, and the figures  *)
(* on memory are left out.                                                 *)
(***************************************************************************)
EXTENDS Integers, Sequences

CONSTANTS Recorded,      \* the tasks that complete
          MaxHistory,    \* maxHistorySize
          MaxTime,       \* bound: the last moment of the clock
          MaxStarts      \* bound: how often Start starts a loop

ASSUME MonitorAssumption ==
    /\ MaxHistory \in Nat \ {0}
    /\ MaxTime \in Nat
    /\ MaxStarts \in Nat \ {0}

Loops == 1 .. MaxStarts

VARIABLES
    clock,       \* what time.Now returns
    recorded,    \* the tasks whose completion has been recorded
    taskTimes,   \* the history: when a task was completed, and which
    lastStats,   \* lastStatsTime
    running,     \* monitor.running
    stopClosed,  \* stopCh is closed
    starts,      \* how many loops have been started
    loop,        \* next step of each loop
    now, since,  \* of each loop: currentTime and lastTime
    counted,     \* history: in how many intervals each task was counted
    ends         \* history: when an interval ended, and when the first began

monitorVars == <<clock, recorded, taskTimes, lastStats, running, stopClosed,
                 starts, loop, now, since, counted, ends>>

MonitorInit ==
    /\ clock = 0
    /\ recorded = {}
    /\ taskTimes = <<>>
    /\ lastStats = 0
    /\ running = FALSE /\ stopClosed = FALSE /\ starts = 0
    /\ loop = [l \in Loops |-> "none"]
    /\ now = [l \in Loops |-> 0] /\ since = [l \in Loops |-> 0]
    /\ counted = [t \in Recorded |-> 0] /\ ends = {lastStats}

TimePasses ==
    /\ clock < MaxTime
    /\ clock' = clock + 1
    /\ UNCHANGED <<recorded, taskTimes, lastStats, running, stopClosed,
                   starts, loop, now, since, counted, ends>>
-----------------------------------------------------------------------------
(* RecordTaskComplete, from where it takes the lock.                       *)

(* The newest MaxHistory entries.                                          *)
Trimmed(times) ==
    IF Len(times) > MaxHistory THEN Tail(times) ELSE times

RecordTaskComplete(t) ==
    /\ t \notin recorded
    /\ recorded' = recorded \cup {t}
    /\ taskTimes' = Trimmed(Append(taskTimes, [at |-> clock, task |-> t]))
    /\ UNCHANGED <<clock, lastStats, running, stopClosed, starts, loop, now,
                   since, counted, ends>>
-----------------------------------------------------------------------------
(* Start and Stop.                                                         *)

switchUnchanged == <<clock, recorded, taskTimes, lastStats, now, since,
                     counted, ends>>

StartMonitor ==
    /\ ~running /\ starts < MaxStarts
    /\ running' = TRUE
    /\ starts' = starts + 1
    /\ loop' = [loop EXCEPT ![starts'] = "select"]
    /\ UNCHANGED <<switchUnchanged, stopClosed>>

(* A second Stop closes the closed channel: it has cleared running when it *)
(* panics, and its deferred function unlocks mu.                           *)
StopMonitor ==
    /\ running
    /\ running' = FALSE
    /\ stopClosed' = TRUE
    /\ UNCHANGED <<switchUnchanged, starts, loop>>
-----------------------------------------------------------------------------
(* updateLoop and updateThroughput.  The ticker may have fired before it   *)
(* was stopped, so a tick can still be received after Stop.                *)

LStep(l, from, to) == loop[l] = from /\ loop' = [loop EXCEPT ![l] = to]

loopUnchanged == <<clock, recorded, taskTimes, running, stopClosed, starts>>

UpdateTick(l) ==
    /\ LStep(l, "select", "load")
    /\ now' = [now EXCEPT ![l] = clock]
    /\ UNCHANGED <<loopUnchanged, lastStats, since, counted, ends>>

(* Variant: the loop also asks whether the monitor has been started again. *)
ReturnsUnlessRestarted(l) ==
    /\ stopClosed /\ ~running
    /\ LStep(l, "select", "ended")
    /\ UNCHANGED <<loopUnchanged, lastStats, now, since, counted, ends>>

LoopReturns(l) ==
    /\ stopClosed
    /\ LStep(l, "select", "ended")
    /\ UNCHANGED <<loopUnchanged, lastStats, now, since, counted, ends>>

LoadLastStats(l) ==
    /\ IF lastStats < now[l]
       THEN /\ LStep(l, "load", "count")
            /\ since' = [since EXCEPT ![l] = lastStats]
            /\ UNCHANGED now
       ELSE /\ LStep(l, "load", "select")
            /\ now' = [now EXCEPT ![l] = 0]
            /\ UNCHANGED since
    /\ UNCHANGED <<loopUnchanged, lastStats, counted, ends>>

(* The scan from the newest entry back to the first that is not later than *)
(* cutoffTime.                                                             *)
InInterval(cutoff) ==
    {i \in DOMAIN taskTimes :
        \A j \in i .. Len(taskTimes) : taskTimes[j].at > cutoff}

CountInterval(l) ==
    /\ LStep(l, "count", "store")
    /\ LET seen == {taskTimes[i].task : i \in InInterval(since[l])} IN
         counted' = [t \in Recorded |->
                        IF t \in seen THEN counted[t] + 1 ELSE counted[t]]
    /\ UNCHANGED <<loopUnchanged, lastStats, now, since, ends>>

(* The local variables of updateThroughput end with the call.              *)
ForgetTimes(l) == now' = [now EXCEPT ![l] = 0] /\ since' = [since EXCEPT ![l] = 0]

(* Variant: the interval starts anew only when something was counted.      *)
StoreIfCounted(l) ==
    /\ LStep(l, "store", "select")
    /\ lastStats' = IF InInterval(since[l]) = {} THEN now[l] ELSE lastStats
    /\ ends' = ends \cup {lastStats'}
    /\ ForgetTimes(l)
    /\ UNCHANGED <<loopUnchanged, counted>>

(* Variant: the interval ends when its figures are stored.                 *)
StoreTheClock(l) ==
    /\ LStep(l, "store", "select")
    /\ lastStats' = clock
    /\ ends' = ends \cup {lastStats'}
    /\ ForgetTimes(l)
    /\ UNCHANGED <<loopUnchanged, counted>>

StoreLastStats(l) ==
    /\ LStep(l, "store", "select")
    /\ lastStats' = now[l]
    /\ ends' = ends \cup {lastStats'}
    /\ ForgetTimes(l)
    /\ UNCHANGED <<loopUnchanged, counted>>
-----------------------------------------------------------------------------
UpdateStep(l) ==
    \/ UpdateTick(l) \/ LoopReturns(l) \/ LoadLastStats(l) \/ CountInterval(l)
    \/ StoreLastStats(l)

MonitorNext ==
    \/ TimePasses \/ StartMonitor \/ StopMonitor
    \/ \E t \in Recorded : RecordTaskComplete(t)
    \/ \E l \in Loops : UpdateStep(l)

(* A loop goes on, and its select takes the closed channel in the end.     *)
MonitorFairness ==
    \A l \in Loops : WF_monitorVars(UpdateStep(l)) /\ SF_monitorVars(LoopReturns(l))

MonitorSpec == MonitorInit /\ [][MonitorNext]_monitorVars
-----------------------------------------------------------------------------
(* A completed task is counted in two intervals if it is recorded between  *)
(* the reading of the clock and the scan (monitor.go:128 and 144), but not *)
(* in three: the throughput forgets a task two intervals later.  After a   *)
(* restart the old loop and the new one may both count for a moment.       *)
CountedAtMostTwice == starts <= 1 => \A t \in Recorded : counted[t] <= 2

(* A completion that is still in the history has been counted by the time  *)
(* the interval it was recorded in has ended, whatever was recorded, begun *)
(* or stored while that interval was scanned, unless it was recorded at the*)
(* very moment at which an interval ended: after the scan, it belongs to   *)
(* neither of the two that meet there (monitor.go:128-162).                *)
CountedUnlessOnTheEdge ==
    starts <= 1 =>
        \A i \in DOMAIN taskTimes :
            taskTimes[i].at < lastStats /\ taskTimes[i].at \notin ends
               => counted[taskTimes[i].task] >= 1

(* Stop ends the update loop, and a monitor that is started again after it *)
(* has no loop for long either: the channel stays closed (monitor.go:94).  *)
StoppedForGood ==
    \A l \in Loops : stopClosed /\ loop[l] # "none" ~> loop[l] = "ended"
=============================================================================
