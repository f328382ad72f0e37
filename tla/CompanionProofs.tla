-------------------------- MODULE CompanionProofs --------------------------
(***************************************************************************)
(* Proofs about four components around the pool: Monitor, whose throughput *)
(* counts a completed task in one interval or two; Submission, what is     *)
(* done around a task before and after it is scheduled; Plugins, of which  *)
(* one that has left the map stays down and none is stopped twice; and     *)
(* Configuration, whose builders share no config.  They hold for any       *)
(* tasks, middleware, listeners, plugins, builders, settings, bounds and   *)
(* length of the history.                                                  *)
(***************************************************************************)
EXTENDS Monitor, Submission, Plugins, Configuration, WellFoundedInduction, FiniteSetTheorems, TLAPS
-----------------------------------------------------------------------------
(* Monitor.                                                                *)

MonitorTypeOK ==
    /\ clock \in Nat
    /\ recorded \subseteq Recorded
    /\ taskTimes \in Seq([at : Nat, task : Recorded])
    /\ lastStats \in Nat
    /\ running \in BOOLEAN /\ stopClosed \in BOOLEAN /\ starts \in 0 .. MaxStarts
    /\ loop \in [Loops -> {"none", "select", "load", "count", "store", "ended"}]
    /\ now \in [Loops -> Nat] /\ since \in [Loops -> Nat]
    /\ counted \in [Recorded -> Nat] /\ ends \subseteq Nat

(* Until the monitor is restarted there is one loop, and its interval      *)
(* begins where the last one ended and ends after it has begun.            *)
OneLoop ==
    /\ \A l \in Loops : l > starts => loop[l] = "none"
    /\ starts <= 1 =>
          /\ loop[1] \in {"count", "store"} => since[1] = lastStats
          /\ loop[1] \in {"count", "store"} => since[1] < now[1]

(* No entry is newer than the clock, and only what was recorded has been   *)
(* counted or is in the history.                                           *)
HistorySound ==
    /\ \A i \in DOMAIN taskTimes :
          taskTimes[i].at <= clock /\ taskTimes[i].task \in recorded
    /\ \A t \in Recorded \ recorded : counted[t] = 0

(* A task that was counted once is behind the end of the next interval,    *)
(* and one that was counted twice is behind its beginning.                 *)
CountsFallBehind ==
    \A i \in DOMAIN taskTimes :
        LET a == taskTimes[i].at
            c == counted[taskTimes[i].task]
        IN  /\ c = 1 /\ loop[1] \in {"load", "count"} => a <= now[1]
            /\ c = 2 => a <= IF loop[1] = "store" THEN now[1] ELSE lastStats

(* The history is in the order of time, and no interval ends in the future.*)
TimesInOrder ==
    /\ \A i, j \in DOMAIN taskTimes : i < j => taskTimes[i].at <= taskTimes[j].at
    /\ lastStats \in ends /\ lastStats <= clock
    /\ \A l \in Loops : loop[l] \in {"load", "count", "store"} => now[l] <= clock

(* What was recorded before the last interval ended, or the one that has   *)
(* been scanned, was counted, unless it was recorded where one ended.      *)
NoneMissed ==
    \A i \in DOMAIN taskTimes :
        /\ taskTimes[i].at < (IF loop[1] = "store" THEN now[1] ELSE lastStats)
        /\ taskTimes[i].at \notin ends
        => counted[taskTimes[i].task] >= 1

MonitorInv ==
    /\ MonitorTypeOK /\ OneLoop /\ HistorySound
    /\ starts <= 1 => CountsFallBehind
    /\ CountedAtMostTwice
    /\ TimesInOrder
    /\ starts <= 1 => NoneMissed

(* A trimmed history has lost at most its oldest entry.                    *)
LEMMA TrimmedHistory ==
    ASSUME NEW S, NEW s \in Seq(S), NEW e \in S
    PROVE  LET times == Trimmed(Append(s, e)) IN
           /\ times \in Seq(S)
           /\ \A i \in DOMAIN times :
                 times[i] = e \/ \E j \in DOMAIN s : times[i] = s[j]
<1> DEFINE long == Append(s, e)
<1>1. /\ long \in Seq(S) /\ Len(long) = Len(s) + 1 /\ Len(s) \in Nat
      /\ \A i \in 1 .. Len(long) :
            long[i] = e \/ \E j \in DOMAIN s : long[i] = s[j]
  OBVIOUS
<1> HIDE DEF long
<1>2. CASE Len(long) > MaxHistory
  <2>1. Trimmed(long) = Tail(long)
    BY <1>2 DEF Trimmed
  <2>2. /\ Tail(long) \in Seq(S) /\ Len(Tail(long)) = Len(long) - 1
        /\ \A i \in 1 .. Len(long) - 1 : Tail(long)[i] = long[i + 1]
    BY <1>1
  <2>3. \A i \in 1 .. Len(long) - 1 : i + 1 \in 1 .. Len(long)
    BY <1>1
  <2>4. DOMAIN Tail(long) = 1 .. Len(long) - 1
    BY <2>2
  <2> QED BY <1>1, <2>1, <2>2, <2>3, <2>4 DEF long
<1>3. CASE ~(Len(long) > MaxHistory)
  <2>1. Trimmed(long) = long
    BY <1>3 DEF Trimmed
  <2> QED BY <1>1, <2>1 DEF long
<1> QED BY <1>2, <1>3

(* The order of time survives a new entry and the loss of the oldest.      *)
LEMMA TrimmedInOrder ==
    ASSUME NEW S, NEW s \in Seq(S), NEW e \in S
    PROVE  LET times == Trimmed(Append(s, e)) IN
           \A i, j \in DOMAIN times : i < j =>
              \E p \in DOMAIN s :
                 /\ times[i] = s[p]
                 /\ times[j] = e \/ \E q \in DOMAIN s : p < q /\ times[j] = s[q]
<1> DEFINE long  == Append(s, e)
           times == Trimmed(long)
<1>1. /\ long \in Seq(S) /\ Len(long) = Len(s) + 1 /\ Len(s) \in Nat
      /\ \A i \in 1 .. Len(s) : long[i] = s[i]
      /\ long[Len(s) + 1] = e
  OBVIOUS
<1> HIDE DEF long
<1>2. \E k \in {0, 1} : /\ \A i \in DOMAIN times : times[i] = long[i + k]
                        /\ DOMAIN times = 1 .. Len(long) - k
  <2>1. CASE Len(long) > MaxHistory
    <3>1. times = Tail(long)
      BY <2>1 DEF Trimmed
    <3>2. /\ Len(Tail(long)) = Len(long) - 1 /\ Tail(long) \in Seq(S)
          /\ \A i \in 1 .. Len(long) - 1 : Tail(long)[i] = long[i + 1]
      BY <1>1
    <3> QED BY <3>1, <3>2
  <2>2. CASE ~(Len(long) > MaxHistory)
    <3>1. times = long
      BY <2>2 DEF Trimmed
    <3>2. DOMAIN long = 1 .. Len(long) - 0 /\ \A i \in DOMAIN long : long[i] = long[i + 0]
      BY <1>1
    <3> QED BY <3>1, <3>2
  <2> QED BY <2>1, <2>2
<1> HIDE DEF times
<1>3. PICK k \in {0, 1} : /\ \A i \in DOMAIN times : times[i] = long[i + k]
                         /\ DOMAIN times = 1 .. Len(long) - k
  BY <1>2
<1>4. ASSUME NEW i \in DOMAIN times, NEW j \in DOMAIN times, i < j
      PROVE  \E p \in DOMAIN s :
                 /\ times[i] = s[p]
                 /\ times[j] = e \/ \E q \in DOMAIN s : p < q /\ times[j] = s[q]
  <2>1. /\ i + k \in 1 .. Len(s) /\ times[i] = s[i + k] /\ i + k \in DOMAIN s
        /\ j + k \in 1 .. Len(s) + 1 /\ i + k < j + k
    BY <1>1, <1>3, <1>4
  <2>2. CASE j + k = Len(s) + 1
    BY <1>1, <1>3, <2>1, <2>2
  <2>3. CASE j + k \in 1 .. Len(s)
    BY <1>1, <1>3, <2>1, <2>3
  <2> QED BY <2>1, <2>2, <2>3
<1> QED BY <1>4 DEF times, long

(* The entries of the history.                                             *)
LEMMA HistoryTyped ==
    ASSUME MonitorTypeOK
    PROVE  \A i \in DOMAIN taskTimes :
              taskTimes[i].at \in Nat /\ taskTimes[i].task \in Recorded
<1> DEFINE R == [at : Nat, task : Recorded]
<1>1. taskTimes \in Seq(R)
  BY DEF MonitorTypeOK
<1>2. \A e \in R : e.at \in Nat /\ e.task \in Recorded
  OBVIOUS
<1> HIDE DEF R
<1>3. \A i \in DOMAIN taskTimes : taskTimes[i] \in R
  BY <1>1
<1> QED BY <1>2, <1>3

(* The variables of Monitor keep their types.                              *)
LEMMA MonitorTypes ==
    MonitorTypeOK /\ [MonitorNext]_monitorVars => MonitorTypeOK'
<1> SUFFICES ASSUME MonitorTypeOK, [MonitorNext]_monitorVars PROVE MonitorTypeOK'
  OBVIOUS
<1> USE MonitorAssumption DEF MonitorTypeOK, Loops
<1>1. CASE TimePasses
  BY <1>1 DEF TimePasses
<1>2. CASE StartMonitor
  <2>1. starts' \in 1 .. MaxStarts /\ loop' = [loop EXCEPT ![starts'] = "select"]
    BY <1>2 DEF StartMonitor
  <2>2. loop' \in [Loops -> {"none", "select", "load", "count", "store", "ended"}]
    BY <2>1
  <2> QED BY <1>2, <2>1, <2>2 DEF StartMonitor, switchUnchanged
<1>6. CASE StopMonitor
  BY <1>6 DEF StopMonitor, switchUnchanged
<1>3. ASSUME NEW t \in Recorded, RecordTaskComplete(t) PROVE MonitorTypeOK'
  <2>1. [at |-> clock, task |-> t] \in [at : Nat, task : Recorded]
    OBVIOUS
  <2>2. taskTimes' \in Seq([at : Nat, task : Recorded])
    BY <1>3, <2>1, TrimmedHistory DEF RecordTaskComplete
  <2> QED BY <1>3, <2>2 DEF RecordTaskComplete
<1>4. ASSUME NEW l \in Loops, UpdateStep(l) PROVE MonitorTypeOK'
  <2>1. CASE UpdateTick(l) \/ LoopReturns(l)
    BY <2>1 DEF UpdateTick, LoopReturns, LStep, loopUnchanged
  <2>2. CASE LoadLastStats(l)
    <3>1. /\ loop' = [loop EXCEPT ![l] = "count"] \/ loop' = [loop EXCEPT ![l] = "select"]
          /\ now' = now \/ now' = [now EXCEPT ![l] = 0]
          /\ since' = since \/ since' = [since EXCEPT ![l] = lastStats]
          /\ UNCHANGED <<loopUnchanged, lastStats, counted, ends>>
      BY <2>2 DEF LoadLastStats, LStep
    <3>2. loop' \in [Loops -> {"none", "select", "load", "count", "store", "ended"}]
      BY <3>1
    <3>3. now' \in [Loops -> Nat] /\ since' \in [Loops -> Nat]
      <4>1. now \in [Loops -> Nat] /\ since \in [Loops -> Nat] /\ lastStats \in Nat
        OBVIOUS
      <4> HIDE DEF MonitorTypeOK
      <4>2. now' \in [Loops -> Nat]
        BY <3>1, <4>1
      <4>3. since' \in [Loops -> Nat]
        BY <3>1, <4>1
      <4> QED BY <4>2, <4>3
    <3>4. UNCHANGED <<clock, recorded, taskTimes, running, stopClosed, starts,
                      lastStats, counted, ends>>
      BY <3>1 DEF loopUnchanged
    <3> QED BY <3>2, <3>3, <3>4
  <2>3. CASE CountInterval(l)
    <3>1. \E T : counted' = [t \in Recorded |-> IF t \in T THEN counted[t] + 1
                                                         ELSE counted[t]]
      BY <2>3 DEF CountInterval
    <3>2. counted' \in [Recorded -> Nat]
      BY <3>1
    <3> QED BY <2>3, <3>2 DEF CountInterval, LStep, loopUnchanged
  <2>4. CASE StoreLastStats(l)
    BY <2>4 DEF StoreLastStats, ForgetTimes, LStep, loopUnchanged
  <2> QED BY <1>4, <2>1, <2>2, <2>3, <2>4 DEF UpdateStep
<1>5. CASE UNCHANGED monitorVars
  BY <1>5 DEF monitorVars
<1> QED BY <1>1, <1>2, <1>3, <1>4, <1>5, <1>6 DEF MonitorNext

(* What does not touch the loop, nor what it reads but the clock.          *)
LEMMA OutsideTheLoop ==
    ASSUME MonitorInv, TimePasses \/ StopMonitor \/ UNCHANGED monitorVars
    PROVE  OneLoop' /\ HistorySound' /\ (starts' <= 1 => CountsFallBehind')
           /\ CountedAtMostTwice'
<1>1. /\ UNCHANGED <<recorded, taskTimes, lastStats, starts, loop, now, since, counted>>
      /\ clock <= clock' /\ clock \in Nat /\ clock' \in Nat
  BY DEF TimePasses, StopMonitor, switchUnchanged, monitorVars, MonitorInv,
         MonitorTypeOK
<1>2. OneLoop' /\ CountedAtMostTwice'
  BY <1>1 DEF MonitorInv, OneLoop, CountedAtMostTwice
<1>3. HistorySound'
  <2>1. \A i \in DOMAIN taskTimes : taskTimes[i].at \in Nat
    BY HistoryTyped DEF MonitorInv
  <2> QED BY <1>1, <2>1 DEF MonitorInv, HistorySound
<1>4. starts' <= 1 => CountsFallBehind'
  BY <1>1 DEF MonitorInv, CountsFallBehind
<1> QED BY <1>2, <1>3, <1>4

(* The first loop starts before anything was counted.                      *)
LEMMA StartPreserves ==
    ASSUME MonitorInv, StartMonitor
    PROVE  OneLoop' /\ HistorySound' /\ (starts' <= 1 => CountsFallBehind')
           /\ CountedAtMostTwice'
<1>1. /\ UNCHANGED <<clock, recorded, taskTimes, lastStats, now, since, counted>>
      /\ starts' = starts + 1 /\ starts \in Nat
      /\ loop' = [loop EXCEPT ![starts + 1] = "select"] /\ starts + 1 \in Loops
      /\ loop \in [Loops -> {"none", "select", "load", "count", "store", "ended"}]
  BY MonitorAssumption
     DEF StartMonitor, switchUnchanged, MonitorInv, MonitorTypeOK, Loops
<1>2. \A l \in Loops : l > starts' => loop'[l] = "none"
  BY <1>1 DEF MonitorInv, OneLoop, Loops
<1>3. starts' <= 1 => starts = 0 /\ loop[1] = "none" /\ loop'[1] = "select" /\ 1 \in Loops
  BY <1>1 DEF MonitorInv, OneLoop, Loops
<1>4. OneLoop'
  BY <1>2, <1>3 DEF OneLoop
<1>5. HistorySound'
  BY <1>1 DEF MonitorInv, HistorySound
<1>6. starts' <= 1 => CountsFallBehind'
  BY <1>1, <1>3 DEF MonitorInv, CountsFallBehind
<1>7. CountedAtMostTwice'
  BY <1>1, <1>3 DEF MonitorInv, CountedAtMostTwice
<1> QED BY <1>4, <1>5, <1>6, <1>7

(* A completion enters the history uncounted.                              *)
LEMMA RecordPreserves ==
    ASSUME MonitorInv, NEW t \in Recorded, RecordTaskComplete(t)
    PROVE  OneLoop' /\ HistorySound' /\ (starts' <= 1 => CountsFallBehind')
           /\ CountedAtMostTwice'
<1> DEFINE e == [at |-> clock, task |-> t]
<1>1. /\ UNCHANGED <<clock, lastStats, starts, loop, now, since, counted>>
      /\ t \notin recorded /\ recorded' = recorded \cup {t} /\ clock \in Nat
      /\ counted[t] = 0 /\ e \in [at : Nat, task : Recorded]
  BY DEF RecordTaskComplete, MonitorInv, MonitorTypeOK, HistorySound
<1>2. \A i \in DOMAIN taskTimes' :
         taskTimes'[i] = e \/ \E j \in DOMAIN taskTimes : taskTimes'[i] = taskTimes[j]
  <2>1. taskTimes \in Seq([at : Nat, task : Recorded])
    BY DEF MonitorInv, MonitorTypeOK
  <2>2. taskTimes' = Trimmed(Append(taskTimes, e))
    BY DEF RecordTaskComplete
  <2> DEFINE R == [at : Nat, task : Recorded]
             times == Trimmed(Append(taskTimes, e))
  <2>3. taskTimes \in Seq(R) /\ e \in R
    BY <1>1, <2>1
  <2> HIDE DEF e, R
  <2>4. \A i \in DOMAIN times :
           times[i] = e \/ \E j \in DOMAIN taskTimes : times[i] = taskTimes[j]
    BY <2>3, TrimmedHistory
  <2> HIDE DEF times
  <2>5. taskTimes' = times
    BY <2>2 DEF times
  <2> QED BY <2>4, <2>5
<1>3. OneLoop' /\ CountedAtMostTwice'
  BY <1>1 DEF MonitorInv, OneLoop, CountedAtMostTwice
<1>4. HistorySound'
  BY <1>1, <1>2 DEF MonitorInv, HistorySound
<1>5. starts' <= 1 => CountsFallBehind'
  BY <1>1, <1>2 DEF MonitorInv, CountsFallBehind
<1> QED BY <1>3, <1>4, <1>5

(* A step of a loop; with one start it is the first loop's.                *)
LEMMA LoopPreserves ==
    ASSUME MonitorInv, NEW l \in Loops, UpdateStep(l)
    PROVE  OneLoop' /\ HistorySound' /\ (starts' <= 1 => CountsFallBehind')
           /\ CountedAtMostTwice'
<1>1. /\ UNCHANGED <<clock, recorded, taskTimes, starts>>
      /\ loop \in [Loops -> {"none", "select", "load", "count", "store", "ended"}]
      /\ now \in [Loops -> Nat] /\ since \in [Loops -> Nat]
      /\ counted \in [Recorded -> Nat] /\ lastStats \in Nat /\ clock \in Nat
      /\ starts \in Nat
      /\ \A i \in DOMAIN taskTimes : /\ taskTimes[i].at \in Nat
                                     /\ taskTimes[i].task \in Recorded
      /\ loop[l] # "none"
  <2>1. UNCHANGED <<clock, recorded, taskTimes, starts>> /\ loop[l] # "none"
    BY DEF UpdateStep, UpdateTick, LoopReturns, LoadLastStats, CountInterval,
           StoreLastStats, LStep, loopUnchanged
  <2>2. MonitorTypeOK
    BY DEF MonitorInv
  <2>3. starts \in Nat
    BY <2>2, MonitorAssumption DEF MonitorTypeOK
  <2> QED BY <2>1, <2>2, <2>3, HistoryTyped DEF MonitorTypeOK
<1>2. /\ l <= starts
      /\ starts <= 1 => l = 1
  BY <1>1 DEF MonitorInv, OneLoop, Loops
<1>3. \A k \in Loops : k > starts' => loop'[k] = "none"
  <2>1. loop' = [loop EXCEPT ![l] = loop'[l]]
    BY <1>1 DEF UpdateStep, UpdateTick, LoopReturns, LoadLastStats, CountInterval,
                StoreLastStats, LStep
  <2> QED BY <1>1, <1>2, <2>1 DEF MonitorInv, OneLoop, Loops
<1>4. CASE UpdateTick(l) \/ LoopReturns(l)
  <2>1. /\ UNCHANGED <<lastStats, since, counted>> /\ loop[l] = "select"
        /\ loop'[l] \in {"load", "ended"}
        /\ loop'[l] = "load" => now'[l] = clock
    BY <1>1, <1>4 DEF UpdateTick, LoopReturns, LStep, loopUnchanged
  <2> QED BY <1>1, <1>2, <1>3, <2>1
          DEF MonitorInv, OneLoop, HistorySound, CountsFallBehind, CountedAtMostTwice
<1>5. CASE LoadLastStats(l)
  <2>1. /\ UNCHANGED <<lastStats, counted>> /\ loop[l] = "load"
        /\ \/ loop'[l] = "select"
           \/ /\ loop'[l] = "count" /\ now' = now
              /\ since'[l] = lastStats /\ lastStats < now[l]
    BY <1>1, <1>5 DEF LoadLastStats, LStep, loopUnchanged
  <2> QED BY <1>1, <1>2, <1>3, <2>1
          DEF MonitorInv, OneLoop, HistorySound, CountsFallBehind, CountedAtMostTwice
<1>6. CASE StoreLastStats(l)
  <2>1. /\ counted' = counted /\ loop[l] = "store" /\ loop'[l] = "select"
        /\ lastStats' = now[l]
    BY <1>1, <1>6 DEF StoreLastStats, LStep, loopUnchanged
  <2> QED BY <1>1, <1>2, <1>3, <2>1
          DEF MonitorInv, OneLoop, HistorySound, CountsFallBehind, CountedAtMostTwice
<1>7. CASE CountInterval(l)
  <2> DEFINE counts == {taskTimes[i].task : i \in InInterval(since[l])}
  <2>1. /\ UNCHANGED <<lastStats, now, since>> /\ loop[l] = "count"
        /\ loop'[l] = "store"
        /\ counted' = [t \in Recorded |->
                          IF t \in counts THEN counted[t] + 1 ELSE counted[t]]
    BY <1>1, <1>7 DEF CountInterval, LStep, loopUnchanged
  <2>2. ASSUME NEW t \in counts
        PROVE  \E i \in DOMAIN taskTimes :
                  taskTimes[i].task = t /\ taskTimes[i].at > since[l]
    <3>1. PICK i \in InInterval(since[l]) : taskTimes[i].task = t
      OBVIOUS
    <3>2. i \in DOMAIN taskTimes /\ i \in i .. Len(taskTimes)
      BY <3>1 DEF InInterval, MonitorInv, MonitorTypeOK
    <3> QED BY <3>1, <3>2 DEF InInterval
  <2> HIDE DEF counts
  <2>3. counts \subseteq recorded
    BY <2>2 DEF MonitorInv, HistorySound
  <2>4. OneLoop' /\ HistorySound'
    <3>1. OneLoop'
      BY <1>1, <1>2, <1>3, <2>1 DEF MonitorInv, OneLoop
    <3>2. HistorySound'
      BY <1>1, <2>1, <2>3 DEF MonitorInv, HistorySound
    <3> QED BY <3>1, <3>2
  <2>5. ASSUME starts <= 1
        PROVE  CountsFallBehind' /\ \A t \in Recorded : counted'[t] <= 2
    <3>1. /\ l = 1 /\ since[1] = lastStats /\ since[1] < now[1] /\ CountsFallBehind
          /\ loop[1] = "count" /\ loop'[1] = "store" /\ 1 \in Loops
      BY <1>2, <2>1, <2>5 DEF MonitorInv, OneLoop
    <3>2. ASSUME NEW t \in counts PROVE t \in Recorded /\ counted[t] # 2
      BY <1>1, <2>2, <3>1 DEF CountsFallBehind
    <3>3. \A t \in Recorded : counted'[t] <= 2
      <4>1. \A t \in Recorded : counted[t] \in Nat /\ counted[t] <= 2
        BY <1>1, <2>5 DEF MonitorInv, CountedAtMostTwice
      <4> QED BY <2>1, <3>2, <4>1
    <3>4. CountsFallBehind'
      <4> SUFFICES ASSUME NEW i \in DOMAIN taskTimes,
                          counted'[taskTimes[i].task] = 2
                   PROVE  taskTimes[i].at <= now[1]
        BY <1>1, <2>1, <3>1 DEF CountsFallBehind
      <4>1. CASE counted[taskTimes[i].task] = 2
        BY <1>1, <3>1, <4>1 DEF CountsFallBehind
      <4>2. CASE counted[taskTimes[i].task] = 1
        BY <1>1, <3>1, <4>2 DEF CountsFallBehind
      <4>3. counted[taskTimes[i].task] \in Nat
        BY <1>1
      <4> QED BY <1>1, <2>1, <4>1, <4>2, <4>3
    <3> QED BY <3>3, <3>4
  <2> QED BY <1>1, <2>4, <2>5 DEF CountedAtMostTwice
<1> QED BY <1>4, <1>5, <1>6, <1>7 DEF UpdateStep

(* An interval counts all that lies in it, for the history is in order.    *)
LEMMA IntervalIsWhole ==
    ASSUME MonitorInv, NEW cutoff \in Nat, NEW i \in DOMAIN taskTimes,
           taskTimes[i].at > cutoff
    PROVE  i \in InInterval(cutoff)
<1>1. DOMAIN taskTimes = 1 .. Len(taskTimes) /\ Len(taskTimes) \in Nat
  BY DEF MonitorInv, MonitorTypeOK
<1>2. ASSUME NEW j \in i .. Len(taskTimes) PROVE taskTimes[j].at > cutoff
  <2>1. j \in DOMAIN taskTimes /\ (j = i \/ i < j)
    BY <1>1
  <2>2. taskTimes[i].at \in Nat /\ taskTimes[j].at \in Nat
    BY <2>1, HistoryTyped DEF MonitorInv
  <2> QED BY <2>1, <2>2 DEF MonitorInv, TimesInOrder
<1> QED BY <1>2 DEF InInterval

(* A step keeps the order of time and misses nothing.                      *)
LEMMA NothingIsMissed ==
    ASSUME MonitorInv, [MonitorNext]_monitorVars
    PROVE  TimesInOrder' /\ (starts' <= 1 => NoneMissed')
<1>1. /\ MonitorTypeOK /\ OneLoop /\ TimesInOrder /\ (starts <= 1 => NoneMissed)
      /\ \A i \in DOMAIN taskTimes :
            /\ taskTimes[i].at \in Nat /\ taskTimes[i].task \in Recorded
            /\ taskTimes[i].at <= clock
      /\ starts \in Nat /\ starts <= MaxStarts /\ 1 \in Loops
  <2>1. MonitorTypeOK /\ OneLoop /\ HistorySound /\ TimesInOrder /\ (starts <= 1 => NoneMissed)
    BY DEF MonitorInv
  <2>2. starts \in Nat /\ starts <= MaxStarts /\ 1 \in Loops
    BY <2>1, MonitorAssumption DEF MonitorTypeOK, Loops
  <2> QED BY <2>1, <2>2, HistoryTyped DEF HistorySound
<1>2. CASE TimePasses \/ StopMonitor \/ UNCHANGED monitorVars
  <2>1. /\ UNCHANGED <<taskTimes, lastStats, starts, loop, now, counted, ends>>
        /\ clock <= clock' /\ clock' \in Nat
    BY <1>1, <1>2 DEF TimePasses, StopMonitor, switchUnchanged, monitorVars, MonitorTypeOK
  <2>2. TimesInOrder'
    BY <1>1, <2>1 DEF TimesInOrder, MonitorTypeOK
  <2> QED BY <1>1, <2>1, <2>2 DEF NoneMissed
<1>3. CASE StartMonitor
  <2>1. /\ UNCHANGED <<clock, taskTimes, lastStats, now, counted, ends>>
        /\ starts' = starts + 1 /\ loop' = [loop EXCEPT ![starts + 1] = "select"]
    BY <1>3 DEF StartMonitor, switchUnchanged
  <2>2. \A l \in Loops : loop'[l] \in {"select", loop[l]}
    BY <1>1, <2>1 DEF MonitorTypeOK
  <2>3. TimesInOrder'
    BY <1>1, <2>1, <2>2 DEF TimesInOrder
  <2>4. starts' <= 1 => loop[1] = "none" /\ loop'[1] = "select"
    BY <1>1, <2>1 DEF OneLoop, MonitorTypeOK, Loops
  <2> QED BY <1>1, <2>1, <2>3, <2>4 DEF NoneMissed
<1>4. ASSUME NEW t \in Recorded, RecordTaskComplete(t)
      PROVE  TimesInOrder' /\ (starts' <= 1 => NoneMissed')
  <2> DEFINE R == [at : Nat, task : Recorded]
             e == [at |-> clock, task |-> t]
             times == Trimmed(Append(taskTimes, e))
  <2>1. /\ UNCHANGED <<clock, lastStats, starts, loop, now, counted, ends>>
        /\ taskTimes' = times
    BY <1>4 DEF RecordTaskComplete
  <2>2. taskTimes \in Seq(R) /\ e \in R /\ e.at = clock
    BY <1>1 DEF MonitorTypeOK
  <2> HIDE DEF R, e
  <2>3. \A i \in DOMAIN times : times[i] = e \/ \E j \in DOMAIN taskTimes : times[i] = taskTimes[j]
    BY <2>2, TrimmedHistory
  <2>4. \A i, j \in DOMAIN times : i < j =>
           \E p \in DOMAIN taskTimes :
              /\ times[i] = taskTimes[p]
              /\ times[j] = e \/ \E q \in DOMAIN taskTimes : p < q /\ times[j] = taskTimes[q]
    BY <2>2, TrimmedInOrder
  <2> HIDE DEF times
  <2>5. ASSUME NEW i \in DOMAIN times, NEW j \in DOMAIN times, i < j
        PROVE  times[i].at <= times[j].at
    BY <1>1, <2>2, <2>4, <2>5 DEF TimesInOrder
  <2>6. TimesInOrder'
    BY <1>1, <2>1, <2>5 DEF TimesInOrder
  <2>7. ASSUME starts <= 1 PROVE NoneMissed'
    <3>1. ~(clock < IF loop[1] = "store" THEN now[1] ELSE lastStats)
      BY <1>1 DEF TimesInOrder, MonitorTypeOK
    <3> QED BY <1>1, <2>1, <2>2, <2>3, <2>7, <3>1 DEF NoneMissed
  <2> QED BY <2>1, <2>6, <2>7
<1>5. ASSUME NEW l \in Loops, UpdateStep(l)
      PROVE  TimesInOrder' /\ (starts' <= 1 => NoneMissed')
  <2>1. /\ UNCHANGED <<clock, taskTimes, starts>>
        /\ \A k \in Loops : k # l => loop'[k] = loop[k] /\ now'[k] = now[k]
        /\ loop[l] # "none"
    BY <1>1, <1>5 DEF UpdateStep, UpdateTick, LoopReturns, LoadLastStats, CountInterval,
           StoreLastStats, ForgetTimes, LStep, loopUnchanged, MonitorTypeOK
  <2>2. starts <= 1 => l = 1
    BY <1>1, <2>1 DEF OneLoop, Loops
  <2>3. CASE UpdateTick(l) \/ LoopReturns(l)
    <3>1. /\ UNCHANGED <<lastStats, counted, ends>> /\ loop[l] = "select"
          /\ \/ loop'[l] = "load" /\ now'[l] = clock
             \/ loop'[l] = "ended"
      BY <1>1, <2>3 DEF UpdateTick, LoopReturns, LStep, loopUnchanged, MonitorTypeOK
    <3>2. TimesInOrder'
      <4>1. \A k \in Loops : loop'[k] \in {"load", "count", "store"} => now'[k] <= clock'
        <5>1. clock \in Nat /\ clock' = clock
          BY <1>1, <2>1 DEF MonitorTypeOK
        <5>2. loop'[l] \in {"load", "count", "store"} => now'[l] <= clock'
          BY <3>1, <5>1
        <5>3. \A k \in Loops \ {l} :
                 loop'[k] \in {"load", "count", "store"} => now'[k] <= clock'
          BY <1>1, <2>1, <5>1 DEF TimesInOrder
        <5> QED BY <5>2, <5>3
      <4> QED BY <1>1, <2>1, <3>1, <4>1 DEF TimesInOrder
    <3> QED BY <1>1, <2>1, <2>2, <3>1, <3>2 DEF NoneMissed
  <2>4. CASE LoadLastStats(l)
    <3>1. /\ UNCHANGED <<lastStats, counted, ends>> /\ loop[l] = "load"
          /\ \/ loop'[l] = "count" /\ now'[l] = now[l]
             \/ loop'[l] = "select"
      BY <1>1, <2>4 DEF LoadLastStats, LStep, loopUnchanged, MonitorTypeOK
    <3>2. TimesInOrder'
      BY <1>1, <2>1, <3>1 DEF TimesInOrder
    <3> QED BY <1>1, <2>1, <2>2, <3>1, <3>2 DEF NoneMissed
  <2>5. CASE CountInterval(l)
    <3> DEFINE counts == {taskTimes[i].task : i \in InInterval(since[l])}
    <3>1. /\ UNCHANGED <<lastStats, now, since, ends>> /\ loop[l] = "count" /\ loop'[l] = "store"
          /\ counted' = [t \in Recorded |->
                            IF t \in counts THEN counted[t] + 1 ELSE counted[t]]
      BY <1>1, <2>5 DEF CountInterval, LStep, loopUnchanged, MonitorTypeOK
    <3>2. \A i \in DOMAIN taskTimes : taskTimes[i].at > since[l] => taskTimes[i].task \in counts
      BY <1>1, IntervalIsWhole DEF MonitorTypeOK
    <3> HIDE DEF counts
    <3>3. TimesInOrder'
      BY <1>1, <2>1, <3>1 DEF TimesInOrder
    <3>4. ASSUME starts <= 1 PROVE NoneMissed'
      <4>1. /\ l = 1 /\ since[1] = lastStats /\ lastStats \in ends /\ NoneMissed
            /\ lastStats \in Nat /\ counted \in [Recorded -> Nat]
        BY <1>1, <2>2, <3>1, <3>4 DEF OneLoop, TimesInOrder, MonitorTypeOK
      <4>2. ASSUME NEW i \in DOMAIN taskTimes, taskTimes[i].at \notin ends
            PROVE  counted'[taskTimes[i].task] >= 1
                   \/ ~(taskTimes[i].at < now[1])
        <5>1. taskTimes[i].at > lastStats \/ taskTimes[i].at < lastStats
          BY <1>1, <4>1, <4>2
        <5>2. CASE taskTimes[i].at > lastStats
          BY <1>1, <3>1, <3>2, <4>1, <5>2
        <5>3. CASE taskTimes[i].at < lastStats
          <6>1. counted[taskTimes[i].task] >= 1
            BY <3>1, <4>1, <4>2, <5>3 DEF NoneMissed
          <6> QED BY <1>1, <3>1, <4>1, <6>1
        <5> QED BY <5>1, <5>2, <5>3
      <4> QED BY <2>1, <3>1, <4>1, <4>2 DEF NoneMissed
    <3> QED BY <2>1, <3>3, <3>4
  <2>6. CASE StoreLastStats(l)
    <3>1. /\ counted' = counted /\ loop[l] = "store" /\ loop'[l] = "select"
          /\ lastStats' = now[l] /\ ends' = ends \cup {now[l]}
      BY <1>1, <2>6 DEF StoreLastStats, LStep, loopUnchanged, MonitorTypeOK
    <3>2. TimesInOrder'
      BY <1>1, <2>1, <3>1 DEF TimesInOrder
    <3> QED BY <1>1, <2>1, <2>2, <3>1, <3>2 DEF NoneMissed
  <2> QED BY <1>5, <2>3, <2>4, <2>5, <2>6 DEF UpdateStep
<1> QED BY <1>2, <1>3, <1>4, <1>5 DEF MonitorNext

(* The invariant of Monitor: its one loop, the order of the history, and   *)
(* how often what is in it has been counted.                               *)
THEOREM MonitorCorrect == MonitorSpec => []MonitorInv
<1>1. MonitorInit => MonitorInv
  <2> SUFFICES ASSUME MonitorInit PROVE MonitorInv
    OBVIOUS
  <2>1. MonitorTypeOK
    <3>1. taskTimes \in Seq([at : Nat, task : Recorded])
      <4> DEFINE R == [at : Nat, task : Recorded]
      <4> HIDE DEF R
      <4>1. <<>> \in Seq(R)
        OBVIOUS
      <4> QED BY <4>1 DEF R, MonitorInit
    <3>2. /\ loop \in [Loops -> {"none", "select", "load", "count", "store", "ended"}]
          /\ now \in [Loops -> Nat] /\ since \in [Loops -> Nat]
          /\ counted \in [Recorded -> Nat]
      BY DEF MonitorInit
    <3>3. running \in BOOLEAN /\ stopClosed \in BOOLEAN
      BY DEF MonitorInit
    <3>4. clock \in Nat /\ lastStats \in Nat /\ starts \in 0 .. MaxStarts
          /\ ends \subseteq Nat
      BY MonitorAssumption DEF MonitorInit
    <3> QED BY <3>1, <3>2, <3>3, <3>4 DEF MonitorInit, MonitorTypeOK
  <2>2. \A t \in Recorded : counted[t] = 0
    BY DEF MonitorInit
  <2>3. \A l \in Loops : loop[l] = "none"
    BY DEF MonitorInit
  <2>4. /\ 1 \in Loops /\ taskTimes = <<>> /\ starts = 0 /\ DOMAIN taskTimes = {}
        /\ lastStats \in ends /\ lastStats <= clock
    BY MonitorAssumption DEF MonitorInit, Loops
  <2> QED BY <2>1, <2>2, <2>3, <2>4
          DEF MonitorInv, OneLoop, HistorySound, CountsFallBehind, CountedAtMostTwice,
              TimesInOrder, NoneMissed
<1>2. MonitorInv /\ [MonitorNext]_monitorVars => MonitorInv'
  <2> SUFFICES ASSUME MonitorInv, [MonitorNext]_monitorVars PROVE MonitorInv'
    OBVIOUS
  <2>1. MonitorTypeOK'
    BY MonitorTypes DEF MonitorInv
  <2>2. OneLoop' /\ HistorySound' /\ (starts' <= 1 => CountsFallBehind')
        /\ CountedAtMostTwice'
    BY OutsideTheLoop, StartPreserves, RecordPreserves, LoopPreserves DEF MonitorNext
  <2> QED BY <2>1, <2>2, NothingIsMissed DEF MonitorInv
<1> QED BY <1>1, <1>2, PTL DEF MonitorSpec

(* A completed task is counted by at most two intervals of the throughput, *)
(* for any number of tasks and any length of the history.                  *)
THEOREM CountsAreBounded == MonitorSpec => []CountedAtMostTwice
<1>1. MonitorInv => CountedAtMostTwice
  BY DEF MonitorInv
<1> QED BY <1>1, MonitorCorrect, PTL

(* No completion falls between two intervals while it is in the history,   *)
(* unless it was recorded at the very moment at which one ended.           *)
THEOREM NoCompletionIsMissed == MonitorSpec => []CountedUnlessOnTheEdge
<1>1. ASSUME MonitorInv PROVE CountedUnlessOnTheEdge
  <2>1. /\ starts <= 1 => NoneMissed
        /\ starts <= 1 /\ loop[1] = "store" => lastStats < now[1]
    BY <1>1 DEF MonitorInv, OneLoop
  <2>2. lastStats \in Nat /\ now[1] \in Nat
    BY <1>1, MonitorAssumption DEF MonitorInv, MonitorTypeOK, Loops
  <2>3. \A i \in DOMAIN taskTimes : taskTimes[i].at \in Nat
    BY <1>1, HistoryTyped DEF MonitorInv
  <2> QED BY <2>1, <2>2, <2>3 DEF NoneMissed, CountedUnlessOnTheEdge
<1> QED BY <1>1, MonitorCorrect, PTL
-----------------------------------------------------------------------------
(* Submission.                                                             *)

SubmissionTypeOK ==
    /\ chain \in Seq(Middleware)
    /\ submitter \in [Submitted -> {"new", "schedule", "handOver", "announce",
                                    "return", "returned"}]
    /\ execution \in [Submitted -> {"none", "rejected", "refused", "queued", "executing",
                                    "ran", "recorded", "after", "done", "discarded"}]
    /\ befores \in [Submitted -> Seq(Middleware \cup {Interceptor})]
    /\ afters \in [Submitted -> Seq(Middleware \cup {Interceptor})]
    /\ ctxLive \subseteq Submitted
    /\ queuedTasks \in Int
    /\ rechained \subseteq Submitted

(* How far the call of Submit and the task have come says what has run.    *)
StepsAgree ==
    \A t \in Submitted :
       /\ submitter[t] = "new" <=> befores[t] = <<>>
       /\ submitter[t] \in {"new", "schedule", "handOver"} => execution[t] = "none"
       /\ afters[t] # <<>> => execution[t] \in {"after", "done"}

(* As long as the chain stays the same it is what ran Before a task.       *)
ChainStands ==
    \A t \in Submitted \ rechained :
       befores[t] # <<>> /\ afters[t] = <<>> => befores[t] = <<Interceptor>> \o chain

SubmissionInv ==
    /\ SubmissionTypeOK /\ StepsAgree /\ ChainStands
    /\ MiddlewareNests /\ QueuedTasksAddUp

(* A set of numbers that is not empty has a least one.                     *)
LEMMA LeastExists ==
    ASSUME NEW T \in SUBSET Nat, T # {}
    PROVE  Min(T) \in T
<1> DEFINE R == OpToRel(<, Nat)
<1>1. \A x, y \in Nat : <<y, x>> \in R <=> y < x
  BY DEF OpToRel
<1>2. IsWellFoundedOn(R, Nat)
  BY NatLessThanWellFounded
<1> HIDE DEF R
<1>3. PICK x \in T : \A y \in T : ~(<<y, x>> \in R)
  BY <1>2, WFMin
<1>4. \A y \in T : x =< y
  <2> TAKE y \in T
  <2>1. x \in Nat /\ y \in Nat
    OBVIOUS
  <2>2. ~(y < x)
    BY <1>1, <1>3, <2>1
  <2> QED BY <2>1, <2>2
<1> QED BY <1>4 DEF Min

(* RemoveMiddleware leaves a chain.                                        *)
LEMMA RemoveFirstIsSequence ==
    ASSUME NEW S, NEW s \in Seq(S), NEW e
    PROVE  RemoveFirst(s, e) \in Seq(S)
<1>1. CASE \E i \in 1 .. Len(s) : s[i] = e
  <2> DEFINE I == {i \in 1 .. Len(s) : s[i] = e}
             k == SelectInSeq(s, LAMBDA v : v = e)
  <2>1. I # {} /\ I \in SUBSET Nat /\ I \subseteq 1 .. Len(s)
    BY <1>1
  <2>2. k = Min(I)
    BY <2>1 DEF SelectInSeq
  <2> HIDE DEF I, k
  <2>3. k \in 1 .. Len(s)
    BY <2>1, <2>2, LeastExists
  <2>4. RemoveFirst(s, e) = RemoveAt(s, k)
    BY <1>1 DEF RemoveFirst, k
  <2>5. SubSeq(s, 1, k - 1) \in Seq(S) /\ SubSeq(s, k + 1, Len(s)) \in Seq(S)
    <3>1. \A i \in 1 .. Len(s) : s[i] \in S
      OBVIOUS
    <3> QED BY <2>3, <3>1
  <2> QED BY <2>4, <2>5 DEF RemoveAt
<1>2. CASE ~\E i \in 1 .. Len(s) : s[i] = e
  BY <1>2 DEF RemoveFirst
<1> QED BY <1>1, <1>2

(* What is first in the chain is last in its reverse.                      *)
LEMMA OutermostLast ==
    ASSUME NEW S, NEW s \in Seq(S), NEW x \in S
    PROVE  /\ <<x>> \o s \in Seq(S) /\ <<x>> \o s # <<>>
           /\ Append(Reverse(s), x) \in Seq(S) /\ Append(Reverse(s), x) # <<>>
           /\ Append(Reverse(s), x) = Reverse(<<x>> \o s)
<1>1. Reverse(s) \in Seq(S) /\ Len(Reverse(s)) = Len(s)
  <2>1. \A i \in 1 .. Len(s) : Len(s) - i + 1 \in 1 .. Len(s)
    OBVIOUS
  <2> QED BY <2>1 DEF Reverse
<1>2. \A i \in 1 .. Len(s) : Reverse(s)[i] = s[Len(s) - i + 1]
  BY DEF Reverse
<1> DEFINE a == Append(Reverse(s), x)
           b == <<x>> \o s
<1>3. /\ b \in Seq(S) /\ b # <<>> /\ Len(b) = Len(s) + 1 /\ b[1] = x
      /\ \A i \in 1 .. Len(s) : b[i + 1] = s[i]
  OBVIOUS
<1>4. /\ a \in Seq(S) /\ a # <<>> /\ Len(a) = Len(s) + 1 /\ a[Len(s) + 1] = x
      /\ \A i \in 1 .. Len(s) : a[i] = s[Len(s) - i + 1]
  <2> HIDE DEF Reverse
  <2> QED BY <1>1, <1>2
<1> HIDE DEF a, b
<1>5. \A i \in 1 .. Len(b) : Len(b) - i + 1 \in 1 .. Len(b)
  BY <1>3
<1>6. /\ Reverse(b) \in Seq(S) /\ Len(Reverse(b)) = Len(b)
      /\ \A i \in 1 .. Len(b) : Reverse(b)[i] = b[Len(b) - i + 1]
  BY <1>3, <1>5 DEF Reverse
<1>7. ASSUME NEW i \in 1 .. Len(a) PROVE a[i] = Reverse(b)[i]
  <2>1. CASE i = Len(s) + 1
    BY <1>3, <1>4, <1>6, <2>1
  <2>2. CASE i \in 1 .. Len(s)
    <3>1. Len(s) - i + 1 \in 1 .. Len(s) /\ Len(b) - i + 1 = (Len(s) - i + 1) + 1
      BY <1>3, <2>2
    <3> QED BY <1>3, <1>4, <1>6, <2>2, <3>1
  <2> QED BY <1>4, <2>1, <2>2
<1>8. a = Reverse(b)
  BY <1>3, <1>4, <1>6, <1>7
<1> QED BY <1>3, <1>4, <1>8 DEF a, b

(* The variables of Submission keep their types.                           *)
LEMMA SubmissionTypes ==
    SubmissionTypeOK /\ [SubmissionNext]_submissionVars => SubmissionTypeOK'
<1> SUFFICES ASSUME SubmissionTypeOK, [SubmissionNext]_submissionVars
             PROVE  SubmissionTypeOK'
  OBVIOUS
<1> USE SubmissionAssumption DEF SubmissionTypeOK, chainVars
<1>1. ASSUME NEW m \in Middleware, AddMiddleware(m) \/ RemoveMiddleware(m)
      PROVE  SubmissionTypeOK'
  <2>1. chain' \in Seq(Middleware)
    <3>1. chain' = Append(chain, m) \/ chain' = RemoveFirst(chain, m)
      BY <1>1 DEF AddMiddleware, RemoveMiddleware, EditChain
    <3>2. Append(chain, m) \in Seq(Middleware)
      OBVIOUS
    <3>3. RemoveFirst(chain, m) \in Seq(Middleware)
      <4>1. chain \in Seq(Middleware)
        OBVIOUS
      <4> HIDE DEF SubmissionTypeOK
      <4> QED BY <4>1, RemoveFirstIsSequence
    <3> QED BY <3>1, <3>2, <3>3
  <2>2. rechained' = rechained \cup UnderWay /\ UNCHANGED editUnchanged
    BY <1>1 DEF AddMiddleware, RemoveMiddleware, EditChain
  <2> QED BY <2>1, <2>2 DEF editUnchanged, UnderWay
<1>2. ASSUME NEW l \in Listeners, AddEventListener(l) \/ RemoveEventListener(l)
      PROVE  SubmissionTypeOK'
  BY <1>2 DEF AddEventListener, RemoveEventListener, EditListeners, editUnchanged
<1>3. ASSUME NEW t \in Submitted, SubmitTask(t) PROVE SubmissionTypeOK'
  <2>1. BeforeOrder(t) \in Seq(Middleware \cup {Interceptor})
    <3>1. chain \in Seq(Middleware \cup {Interceptor})
      OBVIOUS
    <3> QED BY <3>1, OutermostLast DEF BeforeOrder
  <2> QED BY <1>3, <2>1 DEF SubmitTask, SubStep
<1>4. ASSUME NEW t \in Submitted, SubmitStep(t) PROVE SubmissionTypeOK'
  <2>1. /\ \E to \in {"handOver", "announce", "return", "returned"} :
               submitter' = [submitter EXCEPT ![t] = to]
        /\ execution' = execution \/ execution' = [execution EXCEPT ![t] = "refused"]
              \/ execution' = [execution EXCEPT ![t] = "rejected"]
              \/ execution' = [execution EXCEPT ![t] = "queued"]
        /\ ctxLive' \subseteq ctxLive
        /\ queuedTasks' = queuedTasks \/ queuedTasks' = queuedTasks + 1
        /\ UNCHANGED <<chain, befores, afters, rechained>>
    BY <1>4 DEF SubmitStep, SchedulerStopped, RecordTaskSubmit, ScheduleRefuses, ScheduleAccepts,
                EmitTaskSubmit, SubmitReturns, SubStep
  <2>2. execution' \in [Submitted -> {"none", "rejected", "refused", "queued", "executing",
                                      "ran", "recorded", "after", "done", "discarded"}]
    BY <2>1
  <2>3. queuedTasks' \in Int
    BY <2>1
  <2> QED BY <2>1, <2>2, <2>3
<1>5. ASSUME NEW t \in Submitted, ExecutionStep(t) PROVE SubmissionTypeOK'
  <2>1. CASE ExecuteAfter(t)
    <3>1. Append(Reverse(chain), Interceptor) \in Seq(Middleware \cup {Interceptor})
      <4>1. chain \in Seq(Middleware \cup {Interceptor})
        OBVIOUS
      <4> QED BY <4>1, OutermostLast
    <3> QED BY <2>1, <3>1 DEF ExecuteAfter, ExecStep, executionUnchanged
  <2>2. CASE ExecuteTask(t) \/ DiscardTask(t) \/ TaskPanics(t) \/ TaskSucceeds(t)
             \/ RecordTaskEnd(t) \/ EmitTaskComplete(t)
    <3>1. /\ \E to \in {"executing", "discarded", "ran", "recorded", "done"} :
                 execution' = [execution EXCEPT ![t] = to]
          /\ queuedTasks' = queuedTasks \/ queuedTasks' = queuedTasks - 1
          /\ UNCHANGED <<chain, submitter, befores, afters, ctxLive, rechained>>
      BY <2>2 DEF ExecuteTask, DiscardTask, TaskPanics, TaskSucceeds, RecordTaskEnd,
                  EmitTaskComplete, ExecStep, executionUnchanged
    <3>2. queuedTasks' \in Int
      BY <3>1
    <3> QED BY <3>1, <3>2
  <2> QED BY <1>5, <2>1, <2>2 DEF ExecutionStep
<1>6. ASSUME NEW t \in Submitted, Expire(t) PROVE SubmissionTypeOK'
  BY <1>6 DEF Expire
<1>7. ASSUME NEW e \in pending, Deliver(e) PROVE SubmissionTypeOK'
  BY <1>7 DEF Deliver
<1>8. CASE UNCHANGED submissionVars
  BY <1>8 DEF submissionVars
<1> QED BY <1>1, <1>2, <1>3, <1>4, <1>5, <1>6, <1>7, <1>8 DEF SubmissionNext

(* What runs Before and After a task.                                      *)
LEMMA OrdersOfChain ==
    ASSUME SubmissionTypeOK
    PROVE  /\ <<Interceptor>> \o chain # <<>>
           /\ Append(Reverse(chain), Interceptor) # <<>>
           /\ Append(Reverse(chain), Interceptor) = Reverse(<<Interceptor>> \o chain)
<1> DEFINE S == Middleware \cup {Interceptor}
<1>1. chain \in Seq(S) /\ Interceptor \in S
  BY DEF SubmissionTypeOK
<1> HIDE DEF S
<1> QED BY <1>1, OutermostLast

(* Once the chain has changed a task is left alone, before that its After  *)
(* is the reverse of its Before.                                           *)
LEMMA OrderPreserves ==
    ASSUME SubmissionInv, [SubmissionNext]_submissionVars
    PROVE  StepsAgree' /\ ChainStands' /\ MiddlewareNests'
<1> USE DEF chainVars
<1> DEFINE before == <<Interceptor>> \o chain
           after  == Append(Reverse(chain), Interceptor)
<1>1. before # <<>> /\ after # <<>> /\ after = Reverse(before)
  BY OrdersOfChain DEF SubmissionInv
<1>2. /\ \A t \in Submitted : submitter[t] = "new" <=> befores[t] = <<>>
      /\ \A t \in Submitted :
            submitter[t] \in {"new", "schedule", "handOver"} => execution[t] = "none"
      /\ \A t \in Submitted : afters[t] # <<>> => execution[t] \in {"after", "done"}
      /\ \A t \in Submitted \ rechained :
            befores[t] # <<>> /\ afters[t] = <<>> => befores[t] = before
      /\ \A t \in Submitted \ rechained :
            afters[t] # <<>> => afters[t] = Reverse(befores[t])
  BY DEF SubmissionInv, StepsAgree, ChainStands, MiddlewareNests
<1>3. /\ submitter \in [Submitted -> {"new", "schedule", "handOver", "announce",
                                      "return", "returned"}]
      /\ execution \in [Submitted -> {"none", "rejected", "refused", "queued", "executing",
                                      "ran", "recorded", "after", "done", "discarded"}]
      /\ DOMAIN befores = Submitted /\ DOMAIN afters = Submitted
  BY DEF SubmissionInv, SubmissionTypeOK
<1>4. ASSUME NEW m \in Middleware, AddMiddleware(m) \/ RemoveMiddleware(m)
      PROVE  StepsAgree' /\ ChainStands' /\ MiddlewareNests'
  <2>1. /\ rechained' = rechained \cup UnderWay
        /\ UNCHANGED <<submitter, execution, befores, afters>>
    BY <1>4 DEF AddMiddleware, RemoveMiddleware, EditChain, editUnchanged
  <2> HIDE DEF before, after
  <2> QED BY <1>2, <2>1 DEF StepsAgree, ChainStands, MiddlewareNests, UnderWay
<1>5. ASSUME UNCHANGED <<chain, rechained, submitter, execution, befores, afters>>
      PROVE  StepsAgree' /\ ChainStands' /\ MiddlewareNests'
  BY <1>5 DEF SubmissionInv, StepsAgree, ChainStands, MiddlewareNests
<1>6. ASSUME NEW t \in Submitted, SubmitTask(t)
      PROVE  StepsAgree' /\ ChainStands' /\ MiddlewareNests'
  <2>1. /\ submitter[t] = "new" /\ submitter' = [submitter EXCEPT ![t] = "schedule"]
        /\ befores' = [befores EXCEPT ![t] = before]
        /\ UNCHANGED <<chain, rechained, execution, afters>>
    BY <1>6 DEF SubmitTask, SubStep, BeforeOrder
  <2>2. execution[t] = "none" /\ afters[t] = <<>>
    BY <1>2, <2>1
  <2> DEFINE others == \A u \in Submitted \ {t} :
                          befores'[u] = befores[u] /\ submitter'[u] = submitter[u]
  <2>3. others /\ befores'[t] = before /\ submitter'[t] = "schedule"
    BY <1>3, <2>1
  <2>4. before' = before
    BY <2>1
  <2> HIDE DEF before, after
  <2>5. StepsAgree'
    BY <1>1, <1>2, <2>1, <2>2, <2>3 DEF StepsAgree
  <2>6. ChainStands'
    BY <1>2, <2>1, <2>3, <2>4 DEF ChainStands, before
  <2>7. MiddlewareNests'
    BY <1>2, <2>1, <2>2, <2>3 DEF MiddlewareNests
  <2> QED BY <2>5, <2>6, <2>7
<1>7. ASSUME NEW t \in Submitted, SubmitStep(t)
      PROVE  StepsAgree' /\ ChainStands' /\ MiddlewareNests'
  <2>1. /\ submitter[t] # "new" /\ submitter' = [submitter EXCEPT ![t] = submitter'[t]]
        /\ submitter'[t] # "new"
        /\ \/ execution' = execution
           \/ /\ execution' = [execution EXCEPT ![t] = execution'[t]]
              /\ submitter[t] \in {"schedule", "handOver"}
              /\ submitter'[t] \notin {"schedule", "handOver"}
        /\ submitter'[t] \in {"schedule", "handOver"} =>
              submitter[t] = "schedule" /\ execution' = execution
        /\ UNCHANGED <<chain, rechained, befores, afters>>
    BY <1>3, <1>7 DEF SubmitStep, SchedulerStopped, RecordTaskSubmit, ScheduleRefuses, ScheduleAccepts,
                EmitTaskSubmit, SubmitReturns, SubStep
  <2>2. submitter[t] \in {"schedule", "handOver"} => afters[t] = <<>>
    BY <1>2
  <2>3. \A u \in Submitted \ {t} :
           submitter'[u] = submitter[u] /\ execution'[u] = execution[u]
    BY <1>3, <2>1
  <2>4. StepsAgree'
    BY <1>2, <2>1, <2>2, <2>3 DEF StepsAgree
  <2>5. ChainStands' /\ MiddlewareNests'
    BY <2>1 DEF SubmissionInv, ChainStands, MiddlewareNests
  <2> QED BY <2>4, <2>5
<1>8. ASSUME NEW t \in Submitted, ExecutionStep(t), ~ExecuteAfter(t)
      PROVE  StepsAgree' /\ ChainStands' /\ MiddlewareNests'
  <2>1. /\ execution[t] \in {"queued", "executing", "ran", "after"}
        /\ execution' = [execution EXCEPT ![t] = execution'[t]]
        /\ execution[t] = "after" => execution'[t] = "done"
        /\ UNCHANGED <<chain, rechained, submitter, befores, afters>>
    BY <1>3, <1>8 DEF ExecutionStep, ExecuteTask, DiscardTask, TaskPanics,
          TaskSucceeds, RecordTaskEnd, EmitTaskComplete, ExecStep, executionUnchanged
  <2>2. \A u \in Submitted \ {t} : execution'[u] = execution[u]
    BY <1>3, <2>1
  <2>3. StepsAgree'
    BY <1>2, <2>1, <2>2 DEF StepsAgree
  <2>4. ChainStands' /\ MiddlewareNests'
    BY <2>1 DEF SubmissionInv, ChainStands, MiddlewareNests
  <2> QED BY <2>3, <2>4
<1>9. ASSUME NEW t \in Submitted, ExecuteAfter(t)
      PROVE  StepsAgree' /\ ChainStands' /\ MiddlewareNests'
  <2>1. /\ execution[t] = "recorded" /\ execution' = [execution EXCEPT ![t] = "after"]
        /\ afters' = [afters EXCEPT ![t] = after]
        /\ UNCHANGED <<chain, rechained, submitter, befores>>
    BY <1>9 DEF ExecuteAfter, ExecStep, executionUnchanged
  <2> HIDE DEF before, after
  <2>2. /\ afters'[t] = after /\ execution'[t] = "after"
        /\ \A u \in Submitted \ {t} :
              afters'[u] = afters[u] /\ execution'[u] = execution[u]
    BY <1>3, <2>1
  <2>3. /\ afters[t] = <<>> /\ befores[t] # <<>>
        /\ submitter[t] \notin {"new", "schedule", "handOver"}
    BY <1>2, <2>1
  <2>4. t \notin rechained => after = Reverse(befores[t])
    BY <1>1, <1>2, <2>3
  <2>5. StepsAgree'
    BY <1>2, <2>1, <2>2, <2>3 DEF StepsAgree
  <2>6. ChainStands'
    BY <1>1, <1>2, <2>1, <2>2 DEF ChainStands, before
  <2>7. MiddlewareNests'
    BY <1>2, <2>1, <2>2, <2>4 DEF MiddlewareNests
  <2> QED BY <2>5, <2>6, <2>7
<1>10. ASSUME NEW l \in Listeners, AddEventListener(l) \/ RemoveEventListener(l)
       PROVE  UNCHANGED <<chain, rechained, submitter, execution, befores, afters>>
  BY <1>10 DEF AddEventListener, RemoveEventListener, EditListeners, editUnchanged
<1>11. ASSUME NEW t \in Submitted, Expire(t)
       PROVE  UNCHANGED <<chain, rechained, submitter, execution, befores, afters>>
  BY <1>11 DEF Expire
<1>12. ASSUME NEW e \in pending, Deliver(e)
       PROVE  UNCHANGED <<chain, rechained, submitter, execution, befores, afters>>
  BY <1>12 DEF Deliver
<1>13. CASE UNCHANGED submissionVars
  BY <1>5, <1>13 DEF submissionVars
<1> QED BY <1>4, <1>5, <1>6, <1>7, <1>8, <1>9, <1>10, <1>11, <1>12, <1>13
        DEF SubmissionNext

(* The tasks the monitor counts as queued.                                 *)
Counted ==
    {t \in Submitted :
        /\ submitter[t] \notin {"new", "schedule"}
        /\ execution[t] \in {"none", "queued", "executing", "ran", "refused",
                             "discarded"}}

(* The count moves with the set: up when a task is handed over, down when  *)
(* its end is recorded.                                                    *)
LEMMA CountPreserves ==
    ASSUME SubmissionInv, [SubmissionNext]_submissionVars
    PROVE  QueuedTasksAddUp'
<1> USE DEF chainVars
<1>1. /\ submitter \in [Submitted -> {"new", "schedule", "handOver", "announce",
                                      "return", "returned"}]
      /\ execution \in [Submitted -> {"none", "rejected", "refused", "queued", "executing",
                                      "ran", "recorded", "after", "done", "discarded"}]
      /\ \A t \in Submitted :
            submitter[t] \in {"new", "schedule", "handOver"} => execution[t] = "none"
      /\ queuedTasks = Cardinality(Counted)
  BY DEF SubmissionInv, SubmissionTypeOK, StepsAgree, QueuedTasksAddUp, Counted
<1>2. IsFiniteSet(Counted)
  BY SubmissionAssumption, FS_Subset DEF Counted
<1>3. SUFFICES queuedTasks' = Cardinality(Counted')
  BY DEF QueuedTasksAddUp, Counted
<1>4. ASSUME queuedTasks' = queuedTasks, Counted' = Counted
      PROVE  queuedTasks' = Cardinality(Counted')
  BY <1>1, <1>4
<1>5. ASSUME NEW t \in Submitted, RecordTaskSubmit(t)
      PROVE  queuedTasks' = Cardinality(Counted')
  <2>1. /\ submitter[t] = "schedule" /\ submitter' = [submitter EXCEPT ![t] = "handOver"]
        /\ execution' = execution /\ queuedTasks' = queuedTasks + 1
    BY <1>5 DEF RecordTaskSubmit, SubStep
  <2>2. Counted' = Counted \cup {t} /\ t \notin Counted
    BY <1>1, <2>1 DEF Counted
  <2> HIDE DEF Counted
  <2> QED BY <1>1, <1>2, <2>1, <2>2, FS_AddElement
<1>6. ASSUME NEW t \in Submitted, RecordTaskEnd(t)
      PROVE  queuedTasks' = Cardinality(Counted')
  <2>1. /\ execution[t] = "ran" /\ execution' = [execution EXCEPT ![t] = "recorded"]
        /\ submitter' = submitter /\ queuedTasks' = queuedTasks - 1
    BY <1>6 DEF RecordTaskEnd, ExecStep, executionUnchanged
  <2>2. Counted' = Counted \ {t} /\ t \in Counted
    BY <1>1, <2>1 DEF Counted
  <2> HIDE DEF Counted
  <2> QED BY <1>1, <1>2, <2>1, <2>2, FS_RemoveElement
<1>7. ASSUME NEW t \in Submitted, SubmitTask(t)
      PROVE  queuedTasks' = queuedTasks /\ Counted' = Counted
  BY <1>1, <1>7 DEF SubmitTask, SubStep, Counted
<1>8. ASSUME NEW t \in Submitted, SubmitStep(t), ~RecordTaskSubmit(t)
      PROVE  queuedTasks' = queuedTasks /\ Counted' = Counted
  <2>1. CASE SchedulerStopped(t)
    <3>1. /\ submitter[t] = "schedule" /\ submitter' = [submitter EXCEPT ![t] = "return"]
          /\ execution' = [execution EXCEPT ![t] = "rejected"]
          /\ queuedTasks' = queuedTasks
      BY <2>1 DEF SchedulerStopped, SubStep
    <3> QED BY <1>1, <3>1 DEF Counted
  <2>2. CASE ~SchedulerStopped(t)
    <3>1. /\ submitter[t] \in {"handOver", "announce", "return"}
          /\ \E to \in {"announce", "return", "returned"} :
                submitter' = [submitter EXCEPT ![t] = to]
          /\ \/ execution' = execution
             \/ /\ submitter[t] = "handOver"
                /\ \E to \in {"refused", "queued"} :
                      execution' = [execution EXCEPT ![t] = to]
          /\ queuedTasks' = queuedTasks
      BY <1>8, <2>2 DEF SubmitStep, ScheduleRefuses, ScheduleAccepts, EmitTaskSubmit,
                        SubmitReturns, SubStep
    <3>2. submitter[t] = "handOver" => execution[t] = "none"
      BY <1>1
    <3> QED BY <1>1, <3>1, <3>2 DEF Counted
  <2> QED BY <2>1, <2>2
<1>9. ASSUME NEW t \in Submitted, ExecutionStep(t), ~RecordTaskEnd(t)
      PROVE  queuedTasks' = queuedTasks /\ Counted' = Counted
  <2>1. /\ submitter' = submitter /\ queuedTasks' = queuedTasks
        /\ \/ /\ execution[t] \in {"queued", "executing"}
              /\ \E to \in {"executing", "discarded", "ran"} :
                    execution' = [execution EXCEPT ![t] = to]
           \/ /\ execution[t] \in {"recorded", "after"}
              /\ \E to \in {"after", "done"} : execution' = [execution EXCEPT ![t] = to]
    BY <1>9 DEF ExecutionStep, ExecuteTask, DiscardTask, TaskPanics, TaskSucceeds,
                ExecuteAfter, EmitTaskComplete, ExecStep, executionUnchanged
  <2> QED BY <1>1, <2>1 DEF Counted
<1>10. ASSUME \/ \E m \in Middleware : AddMiddleware(m) \/ RemoveMiddleware(m)
              \/ \E l \in Listeners : AddEventListener(l) \/ RemoveEventListener(l)
              \/ \E t \in Submitted : Expire(t)
              \/ \E e \in pending : Deliver(e)
              \/ UNCHANGED submissionVars
       PROVE  queuedTasks' = queuedTasks /\ Counted' = Counted
  <2>1. UNCHANGED <<submitter, execution, queuedTasks>>
    BY <1>10 DEF AddMiddleware, RemoveMiddleware, EditChain, AddEventListener,
                 RemoveEventListener, EditListeners, editUnchanged, Expire, Deliver,
                 submissionVars
  <2> QED BY <2>1 DEF Counted
<1> HIDE DEF Counted
<1> QED BY <1>4, <1>5, <1>6, <1>7, <1>8, <1>9, <1>10 DEF SubmissionNext

(* What the two properties of Submission rest on.                          *)
THEOREM SubmissionCorrect == SubmissionSpec => []SubmissionInv
<1>1. SubmissionInit => SubmissionInv
  <2> SUFFICES ASSUME SubmissionInit PROVE SubmissionInv
    OBVIOUS
  <2>1. SubmissionTypeOK
    BY DEF SubmissionInit, SubmissionTypeOK
  <2>2. StepsAgree /\ ChainStands /\ MiddlewareNests
    BY DEF SubmissionInit, StepsAgree, ChainStands, MiddlewareNests
  <2>3. Counted = {} /\ queuedTasks = 0
    BY DEF SubmissionInit, Counted
  <2>4. queuedTasks = Cardinality(Counted)
    BY <2>3, FS_EmptySet
  <2> QED BY <2>1, <2>2, <2>4 DEF SubmissionInv, QueuedTasksAddUp, Counted
<1>2. SubmissionInv /\ [SubmissionNext]_submissionVars => SubmissionInv'
  <2> SUFFICES ASSUME SubmissionInv, [SubmissionNext]_submissionVars
               PROVE  SubmissionInv'
    OBVIOUS
  <2>1. SubmissionTypeOK'
    BY SubmissionTypes DEF SubmissionInv
  <2> QED BY <2>1, OrderPreserves, CountPreserves DEF SubmissionInv
<1> QED BY <1>1, <1>2, PTL DEF SubmissionSpec

(* What ran Before a task runs After it in the opposite order, unless the  *)
(* chain changed in between (extension.go:43-63).                          *)
THEOREM AfterMirrorsBefore == SubmissionSpec => []MiddlewareNests
<1>1. SubmissionInv => MiddlewareNests
  BY DEF SubmissionInv
<1> QED BY <1>1, SubmissionCorrect, PTL

(* The monitor's count of queued tasks is the number of tasks handed over  *)
(* whose end was not recorded, those refused by full queues and those      *)
(* discarded among them, those refused by a stopped scheduler not          *)
(* (monitor.go:171, pool.go:1163-1173).                                    *)
THEOREM QueuedTasksCounted == SubmissionSpec => []QueuedTasksAddUp
<1>1. SubmissionInv => QueuedTasksAddUp
  BY DEF SubmissionInv
<1> QED BY <1>1, SubmissionCorrect, PTL
-----------------------------------------------------------------------------
(* Plugins.                                                                *)

(* A plugin is in the map under its own name only, so that whoever removes *)
(* it leaves no other entry behind.                                        *)
NamedRightly ==
    /\ plugins \in [Names -> PluginSet \cup {NoPlugin}]
    /\ \A n \in Names : plugins[n] # NoPlugin => NameOf[plugins[n]] = n

(* What a loop has yet to visit is in the map: the lock keeps it there.    *)
ListsInMap == starting \subseteq Taken /\ stopping \subseteq Taken

(* What is in the map has not left it.                                     *)
PresentNotRemoved == \A n \in Taken : plugins[n] \notin removed

(* Without a StopAll, what is in the map has not been stopped.             *)
PresentNotStopped ==
    ~stopAllRan => stopping = {} /\ \A n \in Taken : plugins[n] \notin stopped

PluginInv ==
    /\ NamedRightly
    /\ ListsInMap
    /\ PresentNotRemoved
    /\ RemovedStaysDown
    /\ PresentNotStopped
    /\ StoppedOnce

-----------------------------------------------------------------------------
LEMMA PluginsStart == PluginInit => PluginInv
<1> SUFFICES ASSUME PluginInit PROVE PluginInv
    OBVIOUS
<1>1. NamedRightly /\ ListsInMap
    BY DEF PluginInit, NamedRightly, ListsInMap
<1>2. PresentNotRemoved /\ PresentNotStopped
    BY DEF PluginInit, PresentNotRemoved, PresentNotStopped
<1>3. RemovedStaysDown /\ StoppedOnce
    BY DEF PluginInit, RemovedStaysDown, StoppedOnce
<1> QED
    BY <1>1, <1>2, <1>3 DEF PluginInv

(* The write lock is free only when no list is left to visit.              *)
LEMMA RegisterKeeps ==
    ASSUME PluginInv, NEW p \in PluginSet, Register(p)
    PROVE  PluginInv'
<1> USE DEF PluginInv, NamedRightly
<1>1. plugins' = [plugins EXCEPT ![NameOf[p]] = p] /\ p # NoPlugin
    BY PluginAssumption DEF Register
<1>2. NameOf[p] \in Names
    BY PluginAssumption
<1>3. NamedRightly'
    BY <1>1, <1>2
<1> USE DEF Taken
<1>4. ListsInMap'
    BY DEF Register, ReadLocked, ListsInMap
<1>5. PresentNotRemoved'
    BY <1>1, <1>2 DEF Register, PresentNotRemoved
<1>6. RemovedStaysDown'
    BY DEF Register, RemovedStaysDown
<1>7. PresentNotStopped'
    BY <1>1, <1>2 DEF Register, PresentNotStopped
<1>8. StoppedOnce'
    BY DEF Register, StoppedOnce
<1> QED
    BY <1>3, <1>4, <1>5, <1>6, <1>7, <1>8

(* Used by Unregister and by a registration that is undone: the plugin is  *)
(* in no other entry, so all that is said of the map holds without it.     *)
LEMMA StopAndDeleteKeeps ==
    ASSUME PluginInv, NEW n \in Names, StopAndDelete(n),
           UNCHANGED <<starting, stopping, lateStart, stopAllRan>>
    PROVE  PluginInv'
<1> USE DEF PluginInv, NamedRightly
<1>1. CASE UNCHANGED <<plugins, up, stopped, twice, removed>>
    BY <1>1 DEF ListsInMap, Taken, PresentNotRemoved, RemovedStaysDown,
                PresentNotStopped, StoppedOnce
<1>2. CASE /\ plugins[n] # NoPlugin
           /\ StopCalled(plugins[n])
           /\ plugins' = [plugins EXCEPT ![n] = NoPlugin]
           /\ removed' = removed \cup {plugins[n]}
  <2>1. Taken' = Taken \ {n} /\ n \in Taken
      BY <1>2 DEF Taken
  <2>2. \A m \in Taken' : plugins'[m] = plugins[m] /\ plugins[m] # plugins[n]
      BY <1>2, <2>1 DEF Taken
  <2>3. NamedRightly'
      BY <1>2
  <2>4. ListsInMap'
      BY <1>2 DEF StopAndDelete, ReadLocked, ListsInMap
  <2>5. PresentNotRemoved'
      BY <1>2, <2>1, <2>2 DEF PresentNotRemoved
  <2>6. RemovedStaysDown'
      BY <1>2 DEF StopCalled, RemovedStaysDown
  <2>7. PresentNotStopped'
      BY <1>2, <2>1, <2>2 DEF StopCalled, PresentNotStopped
  <2>8. StoppedOnce'
      BY <1>2, <2>1 DEF StopCalled, PresentNotStopped, StoppedOnce
  <2> QED
      BY <2>3, <2>4, <2>5, <2>6, <2>7, <2>8
<1> QED
    BY <1>1, <1>2 DEF StopAndDelete

LEMMA StartPluginKeeps ==
    ASSUME PluginInv, NEW n \in Names, StartPlugin(n)
    PROVE  PluginInv'
<1> USE DEF PluginInv
<1>1. n \in Taken /\ plugins[n] \notin removed /\ plugins[n] # NoPlugin
    BY DEF StartPlugin, ListsInMap, PresentNotRemoved, Taken
<1>2. RemovedStaysDown'
    BY <1>1 DEF StartPlugin, RemovedStaysDown
<1>3. NamedRightly' /\ ListsInMap'
    BY DEF StartPlugin, NamedRightly, ListsInMap, Taken
<1>4. PresentNotRemoved' /\ PresentNotStopped' /\ StoppedOnce'
    BY DEF StartPlugin, PresentNotRemoved, PresentNotStopped, StoppedOnce, Taken
<1> QED
    BY <1>2, <1>3, <1>4

(* A plugin is visited by StopAll only after stopAllRan has been set.      *)
LEMMA StopPluginKeeps ==
    ASSUME PluginInv, NEW n \in Names, StopPlugin(n)
    PROVE  PluginInv'
<1> USE DEF PluginInv
<1>1. stopAllRan'
    BY DEF StopPlugin, PresentNotStopped
<1>2. PresentNotStopped' /\ StoppedOnce'
    BY <1>1 DEF PresentNotStopped, StoppedOnce
<1>3. NamedRightly' /\ ListsInMap' /\ PresentNotRemoved'
    BY DEF StopPlugin, NamedRightly, ListsInMap, PresentNotRemoved, Taken
<1>4. RemovedStaysDown'
    BY DEF StopPlugin, StopCalled, RemovedStaysDown
<1> QED
    BY <1>2, <1>3, <1>4

LEMMA PluginsStep == PluginInv /\ [PluginNext]_pluginVars => PluginInv'
<1> SUFFICES ASSUME PluginInv, [PluginNext]_pluginVars PROVE PluginInv'
    OBVIOUS
<1> USE DEF Taken
<1>1. CASE SetPool \/ \E p \in PluginSet : InitPlugin(p)
    BY <1>1 DEF SetPool, InitPlugin, history, PluginInv, NamedRightly,
                ListsInMap, PresentNotRemoved, RemovedStaysDown,
                PresentNotStopped, StoppedOnce
<1>2. CASE StartAll \/ StopAll
    BY <1>2 DEF StartAll, StopAll, history, PluginInv, NamedRightly, ListsInMap,
                PresentNotRemoved, RemovedStaysDown, PresentNotStopped, StoppedOnce
<1>3. CASE \E p \in PluginSet : Register(p)
    BY <1>3, RegisterKeeps
<1>4. CASE \E p \in PluginSet : UndoRegister(p)
    BY <1>4, StopAndDeleteKeeps, PluginAssumption DEF UndoRegister
<1>5. CASE \E n \in Names : Unregister(n)
    BY <1>5, StopAndDeleteKeeps DEF Unregister
<1>6. CASE \E n \in Names : StartPlugin(n)
    BY <1>6, StartPluginKeeps
<1>7. CASE \E n \in Names : StopPlugin(n)
    BY <1>7, StopPluginKeeps
<1>8. CASE UNCHANGED pluginVars
    BY <1>8 DEF pluginVars, history, PluginInv, NamedRightly, ListsInMap,
                PresentNotRemoved, RemovedStaysDown, PresentNotStopped, StoppedOnce
<1> QED
    BY <1>1, <1>2, <1>3, <1>4, <1>5, <1>6, <1>7, <1>8 DEF PluginNext

-----------------------------------------------------------------------------
(* The inductive invariant holds whatever users register, remove, start    *)
(* and stop, and whatever of their own calls fails.                        *)
THEOREM PluginsCorrect == PluginSpec => []PluginInv
<1> QED
    BY PluginsStart, PluginsStep, PTL DEF PluginSpec

(* A plugin that has left the map has been stopped, does not run, and is   *)
(* not started by a StartAll that began before it left (extension.go:94    *)
(* and 133).                                                               *)
THEOREM RemovedPluginsStayDown == PluginSpec => []RemovedStaysDown
<1>1. PluginInv => RemovedStaysDown
    BY DEF PluginInv
<1> QED
    BY <1>1, PluginsCorrect, PTL

(* As long as nobody calls StopAll, no plugin is stopped twice in one      *)
(* registration, so a Stop that closes a channel is safe                   *)
(* (builtin_extensions.go:165).                                            *)
THEOREM PluginsStoppedOnce == PluginSpec => []StoppedOnce
<1>1. PluginInv => StoppedOnce
    BY DEF PluginInv
<1> QED
    BY <1>1, PluginsCorrect, PTL
-----------------------------------------------------------------------------
(* Configuration: who shares a config with whom.                           *)

ConfigTypeOK ==
    /\ heap \in [Configs -> [Fields -> Int] \cup {NoConfig}]
    /\ config \in [Builders -> Configs \cup {Nowhere}]
    /\ given \subseteq Configs
    /\ lent \subseteq Builders

(* A pointer somebody has points to a config, so a fresh one is nobody's.  *)
PointersValid ==
    /\ \A b \in Builders : Made(b) => config[b] \notin Free
    /\ given \cap Free = {}

ConfigInv == ConfigTypeOK /\ PointersValid /\ ConfigsAreNotShared

LEMMA NoConfigIsNone == NoConfig \notin [Fields -> Int]
    BY DEF NoConfig, Fields

LEMMA FreshIsFree == Free # {} => Fresh \in Free
    BY DEF Fresh

LEMMA PointersOfBuilders ==
    ASSUME ConfigInv, NEW b \in Builders, Made(b)
    PROVE  config[b] \in Configs /\ heap[config[b]] \in [Fields -> Int]
    BY DEF ConfigInv, ConfigTypeOK, PointersValid, Made, Free

LEMMA ConfigStarts == ConfigInit => ConfigInv
<1> SUFFICES ASSUME ConfigInit PROVE ConfigInv
    OBVIOUS
<1>1. 1 \in Configs /\ 1 # Nowhere /\ Nowhere \notin Configs
    BY ConfigurationAssumption DEF Configs, Nowhere
<1>2. Defaults \in [Fields -> Int] /\ Defaults # NoConfig
    BY ConfigurationAssumption, NoConfigIsNone
<1>3. ConfigTypeOK
    BY <1>1, <1>2 DEF ConfigInit, ConfigTypeOK
<1>4. PointersValid
    BY <1>1, <1>2 DEF ConfigInit, PointersValid, Free, Made
<1>5. ConfigsAreNotShared
    BY <1>1 DEF ConfigInit, ConfigsAreNotShared, Made
<1> QED
    BY <1>3, <1>4, <1>5 DEF ConfigInv

-----------------------------------------------------------------------------
(* What is written over a config leaves the pointers as they are.          *)
LEMMA OverwritingKeeps ==
    ASSUME ConfigInv, NEW p \in Configs, NEW c \in [Fields -> Int],
           heap' = [heap EXCEPT ![p] = c], UNCHANGED <<config, given, lent>>
    PROVE  ConfigInv'
<1>1. ConfigTypeOK'
    BY DEF ConfigInv, ConfigTypeOK
<1>2. Free' \subseteq Free
    BY NoConfigIsNone DEF ConfigInv, ConfigTypeOK, Free
<1>3. PointersValid'
    BY <1>2 DEF ConfigInv, PointersValid, Made
<1>4. ConfigsAreNotShared'
    BY DEF ConfigInv, ConfigsAreNotShared, Made
<1> QED
    BY <1>1, <1>3, <1>4 DEF ConfigInv

(* A fresh config is no longer free.                                       *)
LEMMA MakingFills ==
    ASSUME ConfigInv, Free # {}, NEW c \in [Fields -> Int],
           heap' = [heap EXCEPT ![Fresh] = c]
    PROVE  /\ heap' \in [Configs -> [Fields -> Int] \cup {NoConfig}]
           /\ Fresh \in Configs /\ Fresh \in Free /\ Free' = Free \ {Fresh}
<1>1. Fresh \in Free /\ Fresh \in Configs
    BY FreshIsFree DEF Free
<1> QED
    BY <1>1, NoConfigIsNone DEF ConfigInv, ConfigTypeOK, Free

LEMMA SetKeeps ==
    ASSUME ConfigInv, NEW b \in Builders, NEW s \in Settings, Set(b, s[1], s[2])
    PROVE  ConfigInv'
<1> DEFINE c == [heap[config[b]] EXCEPT ![s[1]] = s[2]]
<1>1. config[b] \in Configs /\ c \in [Fields -> Int]
    BY PointersOfBuilders, ConfigurationAssumption DEF Set
<1>2. heap' = [heap EXCEPT ![config[b]] = c] /\ UNCHANGED <<config, given, lent>>
    BY DEF Set
<1> HIDE DEF c
<1> QED
    BY <1>1, <1>2, OverwritingKeeps

LEMMA FillInKeeps ==
    ASSUME ConfigInv, NEW p \in Configs, FillIn(p)
    PROVE  ConfigInv'
<1>1. heap[p] \in [Fields -> Int]
    BY DEF FillIn, ConfigInv, ConfigTypeOK, PointersValid, Free
<1>2. WithDefaults(heap[p]) \in [Fields -> Int]
    BY <1>1, ConfigurationAssumption DEF WithDefaults
<1>3. heap' = [heap EXCEPT ![p] = WithDefaults(heap[p])]
    BY DEF FillIn
<1> QED
    BY <1>2, <1>3, OverwritingKeeps DEF FillIn

(* No other builder has the config that is given away.                     *)
LEMMA GiveKeeps ==
    ASSUME ConfigInv, NEW b \in Builders, Made(b), Give(b)
    PROVE  ConfigInv'
<1>1. config[b] \in Configs /\ config[b] \notin Free
    BY PointersOfBuilders DEF ConfigInv, PointersValid
<1> QED
    BY <1>1 DEF Give, ConfigInv, ConfigTypeOK, PointersValid, Free,
                ConfigsAreNotShared, Made

LEMMA ResetKeeps ==
    ASSUME ConfigInv, NEW b \in Builders, Reset(b)
    PROVE  ConfigInv'
<1>1. /\ heap' \in [Configs -> [Fields -> Int] \cup {NoConfig}]
      /\ Fresh \in Configs /\ Fresh \in Free /\ Free' = Free \ {Fresh}
    BY MakingFills, ConfigurationAssumption DEF Reset
<1> QED
    BY <1>1 DEF Reset, ConfigInv, ConfigTypeOK, PointersValid,
                ConfigsAreNotShared, Made

LEMMA CloneKeeps ==
    ASSUME ConfigInv, NEW b \in Builders, NEW c \in Builders, Clone(b, c)
    PROVE  ConfigInv'
<1>1. heap[config[b]] \in [Fields -> Int]
    BY PointersOfBuilders DEF Clone
<1>2. /\ heap' \in [Configs -> [Fields -> Int] \cup {NoConfig}]
      /\ Fresh \in Configs /\ Fresh \in Free /\ Free' = Free \ {Fresh}
    BY <1>1, MakingFills DEF Clone
<1> QED
    BY <1>2 DEF Clone, ConfigInv, ConfigTypeOK, PointersValid,
                ConfigsAreNotShared, Made

LEMMA CopyKeeps ==
    ASSUME ConfigInv, NEW p \in Configs, Copy(p)
    PROVE  ConfigInv'
<1>1. heap[p] \in [Fields -> Int]
    BY DEF Copy, ConfigInv, ConfigTypeOK, PointersValid, Free
<1>2. /\ heap' \in [Configs -> [Fields -> Int] \cup {NoConfig}]
      /\ Fresh \in Configs /\ Fresh \in Free /\ Free' = Free \ {Fresh}
    BY <1>1, MakingFills DEF Copy
<1> QED
    BY <1>2 DEF Copy, ConfigInv, ConfigTypeOK, PointersValid,
                ConfigsAreNotShared, Made

LEMMA ConfigStep == ConfigInv /\ [ConfigNext]_configVars => ConfigInv'
<1> SUFFICES ASSUME ConfigInv, [ConfigNext]_configVars PROVE ConfigInv'
    OBVIOUS
<1>1. ASSUME NEW b \in Builders, NEW s \in Settings, Set(b, s[1], s[2])
      PROVE  ConfigInv'
    BY <1>1, SetKeeps
<1>2. ASSUME NEW b \in Builders, Build(b) \/ BuildUnsafe(b)
      PROVE  ConfigInv'
    BY <1>2, GiveKeeps DEF Build, BuildUnsafe
<1>3. ASSUME NEW b \in Builders, Reset(b)
      PROVE  ConfigInv'
    BY <1>3, ResetKeeps
<1>4. ASSUME NEW b \in Builders, NEW c \in Builders, Clone(b, c)
      PROVE  ConfigInv'
    BY <1>4, CloneKeeps
<1>5. ASSUME NEW p \in Configs, Copy(p) \/ FillIn(p)
      PROVE  ConfigInv'
    BY <1>5, CopyKeeps, FillInKeeps
<1>6. CASE UNCHANGED configVars
    BY <1>6 DEF configVars, ConfigInv, ConfigTypeOK, PointersValid, Free, Made,
                ConfigsAreNotShared
<1> QED
    BY <1>1, <1>2, <1>3, <1>4, <1>5, <1>6 DEF ConfigNext

-----------------------------------------------------------------------------
(* Types, and pointers that lead to configs, in every behaviour.           *)
THEOREM ConfigCorrect == ConfigSpec => []ConfigInv
<1> QED
    BY ConfigStarts, ConfigStep, PTL DEF ConfigSpec

(* Only the builder that gave a config to the user may still change it,    *)
(* and not after its Reset (config.go, Build, Reset, Clone and Copy).      *)
THEOREM ConfigsStayPrivate == ConfigSpec => []ConfigsAreNotShared
<1>1. ConfigInv => ConfigsAreNotShared
    BY DEF ConfigInv
<1> QED
    BY <1>1, ConfigCorrect, PTL
=============================================================================
