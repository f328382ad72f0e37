----------------------------- MODULE PoolProofs -----------------------------
(***************************************************************************)
(* Proofs about Pool for every number of tasks and workers and every       *)
(* limit of the queues: the types, one owner for every wrapper, one        *)
(* consumer for the global queue, and that the pool implements TaskLedger. *)
(*                                                                         *)
(* The argument speaks of holders (a queue, the loop, a caller, a worker's *)
(* ring, channel or hand) and of the tasks held by each of them.  Every    *)
(* step leaves all holders alone, hands one task to one holder or frees    *)
(* one task (the lemmas named ...Transfers); the invariant and then the    *)
(* refinement follow from that and from little else.                       *)
(***************************************************************************)
EXTENDS Pool, FiniteSetTheorems, TLAPS
-----------------------------------------------------------------------------
(* Who can hold a task's wrapper, and which tasks each of them holds.      *)

Elements(s) == {s[i] : i \in 1 .. Len(s)}

NoRepeats(s) == \A i, j \in 1 .. Len(s) : s[i] = s[j] => i = j

Queue     == <<"queue", 0>>
Loop      == <<"loop", 0>>
Caller    == <<"caller", 0>>
Local(w)  == <<"local", w>>
Chan(w)   == <<"chan", w>>
Worker(w) == <<"worker", w>>

Holders == {Queue, Loop, Caller}
           \cup {Local(w) : w \in Workers}
           \cup {Chan(w) : w \in Workers}
           \cup {Worker(w) : w \in Workers}

Sending == {"select", "local", "chan", "enqueue"}

Holds(h, t) ==
    \/ h = Queue /\ t \in Elements(queue)
    \/ h = Loop /\ inHand = t
    \/ h = Caller /\ pc[t] \in Sending
    \/ \E w \in Workers :
          \/ h = Local(w) /\ t \in Elements(local[w])
          \/ h = Chan(w) /\ t \in Elements(chan[w])
          \/ h = Worker(w) /\ current[w] = t

held == [h \in Holders |-> {t \in Tasks : Holds(h, t)}]

(* The inductive invariant, part by part.                                  *)

(* No queue has the same task twice.                                       *)
QueuedOnce ==
    /\ NoRepeats(queue)
    /\ \A w \in Workers : NoRepeats(local[w]) /\ NoRepeats(chan[w])

(* No two holders hold the same task.                                      *)
Apart == \A g, h \in Holders : g # h => held[g] \cap held[h] = {}

(* Until SubmitAsync has handed the task over, only its caller has it.     *)
CallerOwns ==
    \A t \in Tasks : pc[t] # "done" =>
        /\ t \notin started \cup dropped
        /\ \A h \in Holders : t \in held[h] => h = Caller

(* A task whose Execute was called is only with the worker that called it. *)
StartedIsHeldByWorker ==
    \A t \in started : \A h \in Holders : t \in held[h] =>
        \E w \in Workers : h = Worker(w) /\ wpc[w] \in {"execute", "report"}

ExecutingIsStarted ==
    \A w \in Workers : wpc[w] \in {"execute", "report"} => current[w] \in started

(* A task the loop has dropped is nowhere and never runs.                  *)
DroppedIsGone ==
    \A t \in dropped : t \notin started /\ \A h \in Holders : t \notin held[h]

(* How far Shutdown is, and what it has already waited for.                *)
ShutdownOrder ==
    /\ state = CASE hpc = "open" -> "running"
                 [] hpc = "closed" -> "closed"
                 [] OTHER -> "shutdown"
    /\ hpc \notin {"open", "stopScheduler", "waitLoop"} => pc[Dispatcher] = "exited"
    /\ hpc \in {"clear", "close", "closed"} => \A w \in Workers : Gone(w)
    /\ hpc = "open" => \A w \in Workers :
          isRunning[w] /\ ~cancelled[w] /\ wpc[w] # "exiting" /\ ~Gone(w)

Ownership ==
    /\ Apart /\ CallerOwns /\ StartedIsHeldByWorker /\ ExecutingIsStarted
    /\ DroppedIsGone

-----------------------------------------------------------------------------
(* A set of naturals that is not empty has a least element.                *)
LEMMA LeastNatural ==
    ASSUME NEW S \in SUBSET Nat, S # {}
    PROVE  \E n \in S : \A m \in S : n <= m
<1> DEFINE R == OpToRel(<, Nat)
<1>1. IsWellFoundedOn(R, Nat)
  BY NatLessThanWellFounded
<1>2. PICK n \in S : \A m \in S : <<m, n>> \notin R
  <2> HIDE DEF R
  <2> QED BY <1>1, WFMin
<1>3. \A m \in S : ~(m < n)
  BY <1>2 DEF OpToRel
<1> QED BY <1>3

(* Among the elements of a set of workers, one has exactly k below it.     *)
LEMMA RankReached ==
    ASSUME NEW n \in Nat, NEW R \in SUBSET (1 .. n),
           NEW k \in Nat, k < Cardinality(R)
    PROVE  \E w \in R : Cardinality({v \in R : v < w}) = k
<1> DEFINE Below(i) == {v \in R : v < i}
           Count(i) == Cardinality(Below(i))
           Bad      == {i \in 1 .. n + 1 : Count(i) > k}
<1>1. IsFiniteSet(R) /\ \A v \in R : v \in Nat /\ 1 <= v /\ v <= n
  <2>1. IsFiniteSet(1 .. n)
    BY FS_Interval
  <2>2. IsFiniteSet(R)
    BY <2>1, FS_Subset, Zenon
  <2> QED BY <2>2
<1>2. ASSUME NEW i \in Nat
      PROVE  IsFiniteSet(Below(i)) /\ Count(i) \in Nat
  <2>1. Below(i) \in SUBSET R
    OBVIOUS
  <2> QED BY <1>1, <2>1, FS_Subset, FS_CardinalityType
<1>3. n + 1 \in Bad
  <2>1. Below(n + 1) = R
    <3>1. \A v \in R : v < n + 1
      BY <1>1
    <3> QED BY <3>1, Zenon
  <2> QED BY <2>1
<1>4. PICK i \in 1 .. n + 1 : Count(i) > k /\ \A j \in Bad : i <= j
  <2> HIDE DEF Bad
  <2>1. Bad \in SUBSET Nat
    BY DEF Bad
  <2>2. PICK i \in Bad : \A j \in Bad : i <= j
    BY <1>3, <2>1, LeastNatural
  <2> QED BY <2>2 DEF Bad
<1>5. i # 1
  <2>1. Below(1) = {}
    <3>1. \A v \in R : ~(v < 1)
      BY <1>1
    <3> QED BY <3>1, Zenon
  <2>2. Count(1) = 0
    BY <2>1, FS_EmptySet
  <2> HIDE DEF Count
  <2> QED BY <2>2, <1>4
<1>6. i - 1 \in 1 .. n /\ Count(i - 1) \in Nat /\ Count(i - 1) <= k
  <2>1. i - 1 \in 1 .. n /\ i - 1 \in 1 .. n + 1 /\ i - 1 \in Nat
    BY <1>5
  <2>2. Count(i - 1) \in Nat
    BY <1>2, <2>1
  <2> HIDE DEF Count
  <2>3. ~(Count(i - 1) > k)
    BY <1>4, <2>1
  <2> QED BY <2>1, <2>2, <2>3
<1>7. i - 1 \in R
  <2> SUFFICES ASSUME i - 1 \notin R PROVE FALSE
    OBVIOUS
  <2>1. Below(i) = Below(i - 1)
    <3>1. \A v \in R : v < i <=> v < i - 1
      BY <1>1
    <3> QED BY <3>1, Zenon
  <2>2. Count(i) = Count(i - 1)
    BY <2>1
  <2> HIDE DEF Count
  <2> QED BY <2>2, <1>4, <1>6
<1>8. Count(i) = Count(i - 1) + 1
  <2>1. Below(i) = Below(i - 1) \cup {i - 1}
    <3>1. \A v \in R : v < i <=> v < i - 1 \/ v = i - 1
      BY <1>1
    <3> QED BY <1>7, <3>1
  <2>2. i - 1 \notin Below(i - 1) /\ IsFiniteSet(Below(i - 1))
    BY <1>2, <1>6
  <2> HIDE DEF Below
  <2> QED BY <2>1, <2>2, FS_AddElement
<1>9. Count(i - 1) = k
  <2> HIDE DEF Count
  <2> QED BY <1>4, <1>6, <1>8
<1> QED BY <1>7, <1>9

(* SelectWorker hits one of the running workers (pool.go:1141).            *)
LEMMA NthRuns ==
    ASSUME NEW k \in Nat, k < Cardinality(Running)
    PROVE  Nth(k) \in Running
<1>1. Running \in SUBSET (1 .. NWorkers) /\ NWorkers \in Nat
  BY PoolAssumption DEF Running, Workers
<1>2. \E w \in Running : Cardinality({v \in Running : v < w}) = k
  BY <1>1, RankReached
<1> QED BY <1>2 DEF Nth
-----------------------------------------------------------------------------
(* Appending a task that is not in a queue yet.                            *)
LEMMA Appended ==
    ASSUME NEW q \in Seq(Tasks), NEW x \in Tasks
    PROVE  /\ Append(q, x) \in Seq(Tasks)
           /\ Len(Append(q, x)) = Len(q) + 1
           /\ Elements(Append(q, x)) = Elements(q) \cup {x}
           /\ NoRepeats(q) /\ x \notin Elements(q) => NoRepeats(Append(q, x))
<1> DEFINE r == Append(q, x)
<1>1. /\ r \in Seq(Tasks) /\ Len(r) = Len(q) + 1 /\ r[Len(q) + 1] = x
      /\ \A i \in 1 .. Len(q) : r[i] = q[i]
      /\ Len(q) \in Nat
  OBVIOUS
<1> HIDE DEF r
<1>2. \A y : y \in Elements(r) <=> y \in Elements(q) \/ y = x
  BY <1>1 DEF Elements
<1>3. NoRepeats(q) /\ x \notin Elements(q) => NoRepeats(r)
  BY <1>1 DEF Elements, NoRepeats
<1> QED BY <1>1, <1>2, <1>3 DEF r

(* Taking the first task of a queue.                                       *)
LEMMA Removed ==
    ASSUME NEW q \in Seq(Tasks), q # <<>>
    PROVE  /\ Head(q) \in Tasks /\ Head(q) \in Elements(q)
           /\ Tail(q) \in Seq(Tasks)
           /\ Len(q) \in Nat /\ Len(q) > 0 /\ Len(Tail(q)) = Len(q) - 1
           /\ Elements(q) = Elements(Tail(q)) \cup {Head(q)}
           /\ NoRepeats(q) => NoRepeats(Tail(q)) /\ Head(q) \notin Elements(Tail(q))
<1> DEFINE r == Tail(q)
<1>1. /\ r \in Seq(Tasks) /\ Len(q) \in Nat /\ Len(q) > 0
      /\ Len(r) = Len(q) - 1 /\ Head(q) = q[1] /\ q[1] \in Tasks
      /\ \A i \in 1 .. Len(r) : r[i] = q[i + 1]
  OBVIOUS
<1> HIDE DEF r
<1>2. \A i \in 1 .. Len(q) : i = 1 \/ (i - 1 \in 1 .. Len(r) /\ q[i] = r[i - 1])
  BY <1>1
<1>3. \A y : y \in Elements(q) <=> y \in Elements(r) \/ y = q[1]
  <2>1. 1 \in 1 .. Len(q) /\ \A i \in 1 .. Len(r) : i + 1 \in 1 .. Len(q)
    BY <1>1
  <2>2. ASSUME NEW y \in Elements(q) PROVE y \in Elements(r) \/ y = q[1]
    BY <1>2 DEF Elements
  <2>3. ASSUME NEW y \in Elements(r) PROVE y \in Elements(q)
    BY <1>1, <2>1 DEF Elements
  <2>4. q[1] \in Elements(q)
    BY <2>1 DEF Elements
  <2> QED BY <2>2, <2>3, <2>4
<1>4. NoRepeats(q) => NoRepeats(r) /\ q[1] \notin Elements(r)
  BY <1>1 DEF Elements, NoRepeats
<1> QED BY <1>1, <1>3, <1>4 DEF r

(* A channel that holds one task, or none.                                 *)
LEMMA OneElement ==
    ASSUME NEW x \in Tasks
    PROVE  /\ <<x>> \in Seq(Tasks) /\ Len(<<x>>) = 1
           /\ Elements(<<x>>) = {x} /\ NoRepeats(<<x>>)
           /\ <<>> \in Seq(Tasks) /\ Len(<<>>) = 0
           /\ Elements(<<>>) = {} /\ NoRepeats(<<>>)
<1>1. /\ <<x>> \in Seq(Tasks) /\ Len(<<x>>) = 1 /\ <<x>>[1] = x
      /\ <<>> \in Seq(Tasks) /\ Len(<<>>) = 0
  OBVIOUS
<1>2. Elements(<<x>>) = {x}
  BY <1>1 DEF Elements
<1>3. Elements(<<>>) = {}
  BY <1>1 DEF Elements
<1> QED BY <1>1, <1>2, <1>3 DEF NoRepeats
-----------------------------------------------------------------------------
(* The variables keep their types, actor by actor.                         *)

PcTyped ==
    /\ pc \in [Senders -> CallerLabels \cup LoopLabels]
    /\ \A t \in Tasks : pc[t] \in CallerLabels
    /\ pc[Dispatcher] \in LoopLabels

(* The part of TypeOK about the senders.  It is only inductive with the    *)
(* fact that the loop never carries more tasks than its batch has.         *)
SendTyped ==
    /\ PcTyped
    /\ target \in [Senders -> {0} \cup Workers]
    /\ \A s \in Senders : pc[s] \in {"local", "chan"} => target[s] # 0
    /\ inHand \in Tasks \cup {None}
    /\ moved \in 0 .. BatchSize
    /\ pc[Dispatcher] \in Sending => inHand # None /\ moved < BatchSize
    /\ pc[Dispatcher] \notin Sending => inHand = None

TypeInv == TypeOK /\ SendTyped

PoolInv == TypeInv /\ QueuedOnce /\ Ownership /\ ShutdownOrder

(* A sender moves on, and the others stay where they are.                  *)
LEMMA SenderMoves ==
    ASSUME PcTyped, NEW s \in Senders, NEW l, pc' = [pc EXCEPT ![s] = l],
           l \in IF s = Dispatcher THEN LoopLabels ELSE CallerLabels
    PROVE  /\ PcTyped' /\ pc'[s] = l
           /\ \A r \in Senders \ {s} : pc'[r] = pc[r]
<1>1. Dispatcher \in Senders /\ Tasks \subseteq Senders /\ Dispatcher \notin Tasks
  BY PoolAssumption DEF Senders
<1>2. pc'[s] = l /\ \A r \in Senders \ {s} : pc'[r] = pc[r]
  BY DEF PcTyped
<1>3. l \in CallerLabels \cup LoopLabels
  OBVIOUS
<1>4. pc' \in [Senders -> CallerLabels \cup LoopLabels]
  BY <1>3 DEF PcTyped
<1>5. \A t \in Tasks : pc'[t] \in CallerLabels
  BY <1>1, <1>2 DEF PcTyped
<1>6. pc'[Dispatcher] \in LoopLabels
  BY <1>1, <1>2 DEF PcTyped
<1> QED BY <1>2, <1>4, <1>5, <1>6 DEF PcTyped

(* A caller that is not sending touches its own label and its Future only. *)
LEMMA CallerTypes ==
    ASSUME TypeInv, NEW t \in Tasks,
           SubmitAsync(t) \/ Submit(t) \/ Schedule(t) \/ Wrap(t) \/ Fail(t) \/ Cancel(t)
    PROVE  TypeInv'
<1>1. t \in Senders /\ t # Dispatcher
  BY PoolAssumption DEF Senders
<1>2. UNCHANGED callUnchanged
  BY DEF SubmitAsync, Submit, Schedule, Wrap, Fail, Cancel
<1>3. \/ pc' = pc
      \/ \E l \in CallerLabels \ {"local", "chan"} : pc' = [pc EXCEPT ![t] = l]
  BY DEF SubmitAsync, Submit, Schedule, Wrap, Fail, Cancel, Step, CallerLabels
<1>4. \/ future' = future
      \/ \E o \in Outcomes : future' = [future EXCEPT ![t] = o]
  BY DEF SubmitAsync, Submit, Schedule, Wrap, Fail, Cancel, callUnchanged,
         SetResult, Outcomes
<1>5. future' \in [Tasks -> {"pending"} \cup Outcomes]
  BY <1>4 DEF TypeInv, TypeOK
<1>6. PcTyped
  BY DEF TypeInv, SendTyped
<1>7. /\ PcTyped' /\ pc'[Dispatcher] = pc[Dispatcher]
      /\ \A r \in Senders : pc'[r] \in {"local", "chan"} => pc'[r] = pc[r]
  <2>1. CASE pc' = pc
    BY <1>6, <2>1 DEF PcTyped
  <2>2. ASSUME NEW l \in CallerLabels \ {"local", "chan"},
               pc' = [pc EXCEPT ![t] = l]
        PROVE  /\ PcTyped' /\ pc'[Dispatcher] = pc[Dispatcher]
               /\ \A r \in Senders : pc'[r] \in {"local", "chan"} => pc'[r] = pc[r]
    BY <1>1, <1>6, <2>2, SenderMoves DEF Senders
  <2> QED BY <1>3, <2>1, <2>2
<1> QED BY <1>2, <1>5, <1>7
        DEF TypeInv, TypeOK, SendTyped, PcTyped, Sending, callUnchanged, queueVars,
            roomVars, workVars, stopVars, schedVars, closeVars

(* The worker selected is one that exists, whatever the counter is at.     *)
LEMMA SelectTypes ==
    ASSUME TypeInv, NEW s \in Senders, SelectWorker(s)
    PROVE  TypeInv'
<1>1. UNCHANGED <<inHand, moved, queueVars, roomVars, workVars, stopVars,
                  schedVars, closeVars, future, dropped>>
  BY DEF SelectWorker
<1>2. pc[s] = "select"
  BY DEF SelectWorker, Step
<1>3. PcTyped
  BY DEF TypeInv, SendTyped
<1>4. CASE Running = {}
  <2>1. pc' = [pc EXCEPT ![s] = "enqueue"] /\ UNCHANGED <<target, counter>>
    BY <1>4 DEF SelectWorker, Step
  <2>2. /\ PcTyped'
        /\ \A r \in Senders : pc'[r] \in {"local", "chan"} => pc'[r] = pc[r]
        /\ pc'[Dispatcher] \in Sending => pc[Dispatcher] \in Sending
    <3>1. "enqueue" \in CallerLabels \cap LoopLabels
      BY DEF CallerLabels, LoopLabels
    <3>2. /\ PcTyped' /\ pc'[s] = "enqueue"
          /\ \A r \in Senders \ {s} : pc'[r] = pc[r]
      BY <1>3, <2>1, <3>1, SenderMoves
    <3> QED BY <1>2, <3>2 DEF Sending, Senders
  <2> QED BY <1>1, <2>1, <2>2
          DEF TypeInv, TypeOK, SendTyped, PcTyped, queueVars, roomVars, workVars,
              stopVars, schedVars, closeVars, Sending
<1>5. CASE Running # {}
  <2>1. /\ counter' = (counter + 1) % Turns
        /\ target' = [target EXCEPT ![s] = Nth(counter' % Cardinality(Running))]
        /\ pc' = [pc EXCEPT ![s] = "local"]
    BY <1>5 DEF SelectWorker, Step
  <2>2. counter' \in 0 .. Turns - 1
    BY <2>1, PoolAssumption DEF TypeInv, TypeOK
  <2>3. Cardinality(Running) \in Nat /\ Cardinality(Running) > 0
    <3>1. IsFiniteSet(1 .. NWorkers)
      BY PoolAssumption, FS_Interval
    <3>2. IsFiniteSet(Running)
      <4>1. Running \in SUBSET (1 .. NWorkers)
        BY DEF Running, Workers
      <4> QED BY <3>1, <4>1, FS_Subset
    <3> QED BY <1>5, <3>2, FS_CardinalityType, FS_EmptySet
  <2>4. Nth(counter' % Cardinality(Running)) \in Workers
    <3>1. /\ counter' % Cardinality(Running) \in Nat
          /\ counter' % Cardinality(Running) < Cardinality(Running)
      BY <2>2, <2>3
    <3>2. Nth(counter' % Cardinality(Running)) \in Running
      BY <3>1, NthRuns
    <3> QED BY <3>2 DEF Running
  <2>5. 0 \notin Workers
    BY PoolAssumption DEF Workers
  <2>6. /\ target' \in [Senders -> {0} \cup Workers]
        /\ target'[s] # 0 /\ \A r \in Senders \ {s} : target'[r] = target[r]
    BY <2>1, <2>4, <2>5 DEF TypeInv, TypeOK
  <2>7. /\ PcTyped'
        /\ \A r \in Senders \ {s} : pc'[r] = pc[r]
        /\ pc'[Dispatcher] \in Sending <=> pc[Dispatcher] \in Sending
    <3>1. "local" \in CallerLabels \cap LoopLabels
      BY DEF CallerLabels, LoopLabels
    <3>2. /\ PcTyped' /\ pc'[s] = "local"
          /\ \A r \in Senders \ {s} : pc'[r] = pc[r]
      BY <1>3, <2>1, <3>1, SenderMoves
    <3> QED BY <1>2, <3>2 DEF Sending, Senders
  <2> QED BY <1>1, <2>2, <2>6, <2>7
          DEF TypeInv, TypeOK, SendTyped, PcTyped, queueVars, roomVars, workVars,
              stopVars, schedVars, closeVars, Sending
<1> QED BY <1>4, <1>5

(* A sender that is sending has a task to send.                            *)
LEMMA CargoIsTask ==
    ASSUME TypeInv, NEW s \in Senders, pc[s] \in Sending
    PROVE  Cargo(s) \in Tasks
BY DEF TypeInv, SendTyped, Cargo, Senders

(* Delivering a task frees the loop's hand and counts the task moved.      *)
LEMMA DeliveredTypes ==
    ASSUME SendTyped, NEW s \in Senders, NEW from \in Sending, Delivered(s, from)
    PROVE  SendTyped'
<1>1. Dispatcher \in Senders /\ Dispatcher \notin Tasks
  BY PoolAssumption DEF Senders
<1>2. /\ pc[s] = from
      /\ pc' = [pc EXCEPT ![s] = IF s = Dispatcher THEN "dequeue" ELSE "done"]
      /\ target' = [target EXCEPT ![s] = 0]
  BY DEF Delivered, Step
<1>3. /\ PcTyped' /\ pc'[s] \in {"dequeue", "done"}
      /\ \A r \in Senders \ {s} : pc'[r] = pc[r]
  <2>1. "dequeue" \in LoopLabels /\ "done" \in CallerLabels
    BY DEF LoopLabels, CallerLabels
  <2> QED BY <1>2, <2>1, SenderMoves DEF SendTyped
<1>4. /\ target' \in [Senders -> {0} \cup Workers]
      /\ \A r \in Senders : pc'[r] \in {"local", "chan"} => target'[r] # 0
  BY <1>2, <1>3 DEF SendTyped
<1>5. CASE s = Dispatcher
  BY <1>2, <1>3, <1>4, <1>5, PoolAssumption DEF SendTyped, Delivered, Sending
<1>6. CASE s # Dispatcher
  BY <1>1, <1>3, <1>4, <1>6 DEF SendTyped, Delivered, Sending
<1> QED BY <1>5, <1>6

(* A local ring is never longer than its limit.                            *)
LEMMA LocalTypes ==
    ASSUME TypeInv, NEW s \in Senders, EnqueueLocal(s)
    PROVE  TypeInv'
<1>1. /\ UNCHANGED <<chan, counter, queueVars, workVars, stopVars, schedVars,
                     closeVars, future, dropped>>
      /\ pc[s] = "local" /\ pc[s] \in Sending
  BY DEF EnqueueLocal, Sending
<1>2. /\ SendTyped' /\ local' \in [Workers -> Seq(Tasks)]
      /\ \A w \in Workers : Len(local'[w]) <= LocalLimit
  <2>1. CASE Len(local[target[s]]) < LocalLimit
    <3>1. /\ Delivered(s, "local")
          /\ local' = [local EXCEPT ![target[s]] = Append(local[target[s]], Cargo(s))]
      BY <2>1 DEF EnqueueLocal
    <3>2. SendTyped'
      BY <1>1, <3>1, DeliveredTypes DEF TypeInv
    <3>3. target[s] \in Workers
      BY <1>1 DEF TypeInv, SendTyped
    <3>4. local[target[s]] \in Seq(Tasks) /\ local \in [Workers -> Seq(Tasks)]
      BY <3>3 DEF TypeInv, TypeOK
    <3>5. /\ Append(local[target[s]], Cargo(s)) \in Seq(Tasks)
          /\ Len(Append(local[target[s]], Cargo(s))) <= LocalLimit
      BY <1>1, <2>1, <3>4, CargoIsTask, Appended, PoolAssumption
    <3> QED BY <3>1, <3>2, <3>3, <3>4, <3>5 DEF TypeInv, TypeOK
  <2>2. CASE ~(Len(local[target[s]]) < LocalLimit)
    <3>1. /\ pc' = [pc EXCEPT ![s] = "chan"]
          /\ UNCHANGED <<target, inHand, moved, local>>
      BY <2>2 DEF EnqueueLocal, Step
    <3>2. /\ PcTyped' /\ pc'[s] = "chan"
          /\ \A r \in Senders \ {s} : pc'[r] = pc[r]
      <4>1. "chan" \in CallerLabels \cap LoopLabels
        BY DEF CallerLabels, LoopLabels
      <4> QED BY <3>1, <4>1, SenderMoves DEF TypeInv, SendTyped
    <3> QED BY <1>1, <3>1, <3>2 DEF TypeInv, TypeOK, SendTyped, Sending
  <2> QED BY <2>1, <2>2
<1> QED BY <1>1, <1>2
        DEF TypeInv, TypeOK, SendTyped, PcTyped, Sending, queueVars, workVars,
            stopVars, schedVars, closeVars

(* A worker's channel never holds more than one task.                      *)
LEMMA ChanTypes ==
    ASSUME TypeInv, NEW s \in Senders, SendChan(s)
    PROVE  TypeInv'
<1>1. /\ UNCHANGED <<local, counter, queueVars, workVars, stopVars, schedVars,
                     closeVars, future, dropped>>
      /\ pc[s] = "chan" /\ pc[s] \in Sending
  BY DEF SendChan, Sending
<1>2. /\ SendTyped' /\ chan' \in [Workers -> Seq(Tasks)]
      /\ \A w \in Workers : Len(chan'[w]) <= 1
  <2>1. CASE chan[target[s]] = <<>>
    <3>1. /\ Delivered(s, "chan")
          /\ chan' = [chan EXCEPT ![target[s]] = <<Cargo(s)>>]
      BY <2>1 DEF SendChan
    <3>2. SendTyped'
      BY <1>1, <3>1, DeliveredTypes DEF TypeInv
    <3>3. target[s] \in Workers /\ chan \in [Workers -> Seq(Tasks)]
      BY <1>1 DEF TypeInv, SendTyped, TypeOK
    <3>4. <<Cargo(s)>> \in Seq(Tasks) /\ Len(<<Cargo(s)>>) = 1
      BY <1>1, CargoIsTask, OneElement
    <3> QED BY <3>1, <3>2, <3>3, <3>4 DEF TypeInv, TypeOK
  <2>2. CASE chan[target[s]] # <<>>
    <3>1. /\ pc' = [pc EXCEPT ![s] = "enqueue"]
          /\ target' = [target EXCEPT ![s] = 0]
          /\ UNCHANGED <<inHand, moved, chan>>
      BY <2>2 DEF SendChan, Step
    <3>2. /\ PcTyped' /\ pc'[s] = "enqueue"
          /\ \A r \in Senders \ {s} : pc'[r] = pc[r]
      <4>1. "enqueue" \in CallerLabels \cap LoopLabels
        BY DEF CallerLabels, LoopLabels
      <4> QED BY <3>1, <4>1, SenderMoves DEF TypeInv, SendTyped
    <3> QED BY <1>1, <3>1, <3>2 DEF TypeInv, TypeOK, SendTyped, Sending
  <2> QED BY <2>1, <2>2
<1> QED BY <1>1, <1>2
        DEF TypeInv, TypeOK, SendTyped, PcTyped, Sending, queueVars, workVars,
            stopVars, schedVars, closeVars

(* Leaving Enqueue ends the loop's batch, accepted or not.                 *)
LEMMA LeaveEnqueueTypes ==
    ASSUME SendTyped, NEW s \in Senders, NEW verdict \in CallerLabels \ {"local", "chan"},
           LeaveEnqueue(s, verdict)
    PROVE  SendTyped'
<1>1. Dispatcher \in Senders /\ "wait" \in LoopLabels
  BY DEF Senders, LoopLabels
<1>2. /\ pc[s] = "enqueue"
      /\ pc' = [pc EXCEPT ![s] = IF s = Dispatcher THEN "wait" ELSE verdict]
      /\ inHand' = IF s = Dispatcher THEN None ELSE inHand
      /\ moved' = IF s = Dispatcher THEN 0 ELSE moved
      /\ target' = target
  BY DEF LeaveEnqueue, Step
<1>3. /\ PcTyped' /\ pc'[s] = (IF s = Dispatcher THEN "wait" ELSE verdict)
      /\ \A r \in Senders \ {s} : pc'[r] = pc[r]
  BY <1>1, <1>2, SenderMoves DEF SendTyped
<1>4. \A r \in Senders : pc'[r] \in {"local", "chan"} => target'[r] # 0
  BY <1>2, <1>3 DEF SendTyped
<1>5. 0 \in 0 .. BatchSize
  BY PoolAssumption
<1>6. CASE s = Dispatcher
  BY <1>2, <1>3, <1>4, <1>5, <1>6 DEF SendTyped, Sending
<1>7. CASE s # Dispatcher
  BY <1>1, <1>2, <1>3, <1>4, <1>7 DEF SendTyped, Sending
<1> QED BY <1>6, <1>7

(* The global queue is never longer than its limit.                        *)
LEMMA EnqueueTypes ==
    ASSUME TypeInv, NEW s \in Senders, Enqueue(s) \/ EnqueueRefused(s)
    PROVE  TypeInv'
<1>1. /\ pc[s] = "enqueue" /\ pc[s] \in Sending
      /\ \E verdict \in CallerLabels \ {"local", "chan"} : LeaveEnqueue(s, verdict)
  BY DEF Enqueue, EnqueueRefused, Sending, CallerLabels
<1>2. SendTyped'
  BY <1>1, LeaveEnqueueTypes DEF TypeInv
<1>3. UNCHANGED <<counter, roomVars, workVars, stopVars, schedVars, closeVars,
                  future>>
  BY <1>1 DEF LeaveEnqueue
<1>4. /\ queue' \in Seq(Tasks) /\ Len(queue') <= QueueLimit
      /\ overtaken' \subseteq Senders
      /\ dropped' \subseteq Tasks
  <2>1. queue \in Seq(Tasks) /\ Len(queue) <= QueueLimit
        /\ overtaken \subseteq Senders /\ dropped \subseteq Tasks
    BY DEF TypeInv, TypeOK
  <2>2. Cargo(s) \in Tasks
    BY <1>1, CargoIsTask
  <2>3. CASE Enqueue(s)
    <3>1. /\ queue' = Append(queue, Cargo(s)) /\ Len(queue) < QueueLimit
          /\ dropped' = dropped /\ overtaken' \subseteq Senders
      BY <2>1, <2>3 DEF Enqueue
    <3> QED BY <2>1, <2>2, <3>1, Appended, PoolAssumption
  <2>4. CASE EnqueueRefused(s)
    BY <2>1, <2>2, <2>4 DEF EnqueueRefused, Cargo
  <2> QED BY <2>3, <2>4
<1> QED BY <1>2, <1>3, <1>4
        DEF TypeInv, TypeOK, SendTyped, PcTyped, Sending, roomVars, workVars,
            stopVars, schedVars, closeVars

(* The loop dequeues only while its batch has room.                        *)
LEMMA LoopTypes ==
    ASSUME TypeInv, Tick \/ Dequeue \/ LoopExit
    PROVE  TypeInv'
<1>1. UNCHANGED loopUnchanged
  BY DEF Tick, Dequeue, LoopExit
<1>2. Dispatcher \in Senders /\ Dispatcher \notin Tasks /\ None \notin Tasks
  BY PoolAssumption DEF Senders
<1>3. \E l \in {"dequeue", "wait", "select", "exited"} :
         /\ pc' = [pc EXCEPT ![Dispatcher] = l]
         /\ l = "select" => Dequeue /\ ~BatchOver
         /\ inHand = None
  BY DEF Tick, Dequeue, LoopExit, Step, TypeInv, SendTyped, Sending
<1>4. /\ PcTyped' /\ \A r \in Senders \ {Dispatcher} : pc'[r] = pc[r]
      /\ pc'[Dispatcher] \in {"dequeue", "wait", "select", "exited"}
      /\ pc'[Dispatcher] = "select" => Dequeue /\ ~BatchOver
  BY <1>2, <1>3, SenderMoves DEF TypeInv, SendTyped, LoopLabels
<1>5. ASSUME Dequeue, ~BatchOver
      PROVE  /\ queue # <<>> /\ moved # BatchSize /\ moved' = moved
             /\ inHand' = Head(queue) /\ queue' = Tail(queue)
  BY <1>5 DEF Dequeue, BatchOver
<1>6. /\ moved' \in 0 .. BatchSize /\ inHand' \in Tasks \cup {None}
      /\ queue' \in Seq(Tasks) /\ Len(queue') <= QueueLimit
      /\ pc'[Dispatcher] = "select" => inHand' # None /\ moved' < BatchSize
      /\ pc'[Dispatcher] # "select" => inHand' = None
  <2>1. /\ queue \in Seq(Tasks) /\ Len(queue) <= QueueLimit
        /\ moved \in 0 .. BatchSize /\ inHand \in Tasks \cup {None}
    BY DEF TypeInv, TypeOK
  <2>2. CASE Dequeue /\ ~BatchOver
    <3>1. /\ Head(queue) \in Tasks /\ Tail(queue) \in Seq(Tasks)
          /\ Len(Tail(queue)) <= QueueLimit
      BY <1>5, <2>1, <2>2, Removed, PoolAssumption
    <3>2. pc'[Dispatcher] = "select"
      BY <1>2, <2>2 DEF Dequeue, Step, TypeInv, TypeOK
    <3> QED BY <1>2, <1>5, <2>1, <2>2, <3>1, <3>2, PoolAssumption
  <2>3. CASE ~(Dequeue /\ ~BatchOver)
    <3>1. /\ inHand' = inHand /\ queue' = queue
          /\ moved' = 0 \/ moved' = moved
          /\ pc'[Dispatcher] # "select"
      BY <1>4, <2>3 DEF Tick, Dequeue, LoopExit
    <3> QED BY <1>3, <2>1, <3>1, PoolAssumption
  <2> QED BY <2>2, <2>3
<1>7. SendTyped'
  BY <1>1, <1>2, <1>4, <1>6 DEF TypeInv, SendTyped, loopUnchanged, Sending, Senders
<1> QED BY <1>1, <1>6, <1>7
        DEF TypeInv, TypeOK, SendTyped, PcTyped, Sending, loopUnchanged, roomVars,
            workVars, stopVars, schedVars, closeVars

(* A Future that is settled, or left alone, keeps its type.                *)
LEMMA SettledTypes ==
    ASSUME TypeOK, NEW t \in Tasks, NEW o \in Outcomes, SetResult(t, o)
    PROVE  future' \in [Tasks -> {"pending"} \cup Outcomes]
BY DEF TypeOK, SetResult

(* A worker takes a task, or is done with it.                              *)
WorkTyped ==
    /\ wpc \in [Workers -> WorkerLabels]
    /\ current \in [Workers -> Tasks \cup {None}]
    /\ \A w \in Workers :
          wpc[w] \in {"begin", "execute", "report"} <=> current[w] # None
    /\ isActive \in [Workers -> BOOLEAN]
    /\ isRunning \in [Workers -> BOOLEAN]
    /\ started \subseteq Tasks

RoomsTyped ==
    /\ local \in [Workers -> Seq(Tasks)]
    /\ chan \in [Workers -> Seq(Tasks)]
    /\ \A w \in Workers : Len(local[w]) <= LocalLimit /\ Len(chan[w]) <= 1

(* A worker has a task exactly between taking it and reporting it.         *)
LEMMA WorkerTypes ==
    ASSUME TypeInv, NEW w \in Workers, WorkerStep(w)
    PROVE  TypeInv'
<1>1. /\ UNCHANGED <<workUnchanged, cancelled>>
      /\ WorkTyped /\ RoomsTyped /\ None \notin Tasks
  BY PoolAssumption
     DEF WorkerStep, LoopTest, SeeDone, ReceiveChan, NoneReady, DequeueLocal,
         ExecuteTask, TaskReturns, ReportResult, WorkerExit, DrainLocal,
         DrainChan, stopVars, TypeInv, TypeOK, WorkTyped, RoomsTyped
<1>2. WorkTyped' /\ RoomsTyped' /\ future' \in [Tasks -> {"pending"} \cup Outcomes]
  <2> USE DEF WStep, WorkerLabels
  <2>0. future \in [Tasks -> {"pending"} \cup Outcomes] /\ TypeOK
    BY DEF TypeInv, TypeOK
  <2>1. CASE LoopTest(w) \/ SeeDone(w) \/ NoneReady(w)
    <3>1. /\ UNCHANGED <<roomVars, stopVars, current, isActive, started, future>>
          /\ wpc[w] \in {"loop", "choose"}
          /\ \E l \in {"choose", "exiting", "pop"} : wpc' = [wpc EXCEPT ![w] = l]
      BY <2>1 DEF LoopTest, SeeDone, NoneReady
    <3> QED BY <1>1, <2>0, <3>1 DEF WorkTyped, RoomsTyped, roomVars, stopVars
  <2>2. CASE ReceiveChan(w)
    <3>1. Head(chan[w]) \in Tasks /\ <<>> \in Seq(Tasks) /\ Len(<<>>) = 0
      BY <1>1, <2>2, Removed DEF ReceiveChan, RoomsTyped
    <3>2. RoomsTyped'
      BY <1>1, <2>2, <3>1 DEF ReceiveChan, RoomsTyped
    <3>3. WorkTyped'
      BY <1>1, <2>2, <3>1 DEF ReceiveChan, WorkTyped, stopVars
    <3> QED BY <2>0, <2>2, <3>2, <3>3 DEF ReceiveChan
  <2>3. CASE DequeueLocal(w)
    <3>1. CASE local[w] = <<>>
      BY <1>1, <2>0, <2>3, <3>1 DEF DequeueLocal, WorkTyped, RoomsTyped, stopVars
    <3>2. CASE local[w] # <<>>
      <4>1. /\ Head(local[w]) \in Tasks /\ Tail(local[w]) \in Seq(Tasks)
            /\ Len(Tail(local[w])) <= LocalLimit
        BY <1>1, <3>2, Removed, PoolAssumption DEF RoomsTyped
      <4>2. RoomsTyped'
        BY <1>1, <2>3, <3>2, <4>1 DEF DequeueLocal, PopLocal, RoomsTyped
      <4>3. WorkTyped'
        BY <1>1, <2>3, <3>2, <4>1 DEF DequeueLocal, WorkTyped, stopVars
      <4> QED BY <2>0, <2>3, <4>2, <4>3 DEF DequeueLocal
    <3> QED BY <3>1, <3>2
  <2>4. CASE ExecuteTask(w)
    BY <1>1, <2>0, <2>4 DEF ExecuteTask, WorkTyped, RoomsTyped, roomVars, stopVars
  <2>5. CASE TaskReturns(w)
    BY <1>1, <2>0, <2>5 DEF TaskReturns, WorkTyped, RoomsTyped, roomVars, stopVars
  <2>6. CASE ReportResult(w)
    <3>1. current[w] \in Tasks /\ "result" \in Outcomes
      BY <1>1, <2>6 DEF ReportResult, WorkTyped, Outcomes
    <3>2. future' \in [Tasks -> {"pending"} \cup Outcomes]
      BY <2>0, <2>6, <3>1, SettledTypes DEF ReportResult
    <3> QED BY <1>1, <2>6, <3>2
            DEF ReportResult, WorkTyped, RoomsTyped, roomVars, stopVars
  <2>7. CASE WorkerExit(w)
    BY <1>1, <2>0, <2>7 DEF WorkerExit, WorkTyped, RoomsTyped, roomVars
  <2>8. CASE DrainLocal(w)
    <3>1. CASE local[w] = <<>>
      BY <1>1, <2>0, <2>8, <3>1 DEF DrainLocal, WorkTyped, RoomsTyped, stopVars
    <3>2. CASE local[w] # <<>>
      <4>1. /\ Head(local[w]) \in Tasks /\ Tail(local[w]) \in Seq(Tasks)
            /\ Len(Tail(local[w])) <= LocalLimit /\ "closed" \in Outcomes
        BY <1>1, <3>2, Removed, PoolAssumption DEF RoomsTyped, Outcomes
      <4>2. RoomsTyped'
        BY <1>1, <2>8, <3>2, <4>1 DEF DrainLocal, PopLocal, RoomsTyped
      <4>3. WorkTyped'
        BY <1>1, <2>8, <3>2 DEF DrainLocal, WorkTyped, stopVars
      <4>4. future' \in [Tasks -> {"pending"} \cup Outcomes]
        BY <2>0, <2>8, <3>2, <4>1, SettledTypes DEF DrainLocal
      <4> QED BY <4>2, <4>3, <4>4
    <3> QED BY <3>1, <3>2
  <2>9. CASE DrainChan(w)
    <3>1. CASE chan[w] = <<>>
      BY <1>1, <2>0, <2>9, <3>1 DEF DrainChan, WorkTyped, RoomsTyped, stopVars
    <3>2. CASE chan[w] # <<>>
      <4>1. /\ Head(chan[w]) \in Tasks /\ <<>> \in Seq(Tasks) /\ Len(<<>>) = 0
            /\ "closed" \in Outcomes
        BY <1>1, <3>2, Removed DEF RoomsTyped, Outcomes
      <4>2. RoomsTyped'
        <5>1. chan' = [chan EXCEPT ![w] = <<>>] /\ local' = local
          BY <2>9, <3>2 DEF DrainChan
        <5> QED BY <1>1, <4>1, <5>1 DEF RoomsTyped
      <4>3. WorkTyped'
        BY <1>1, <2>9, <3>2 DEF DrainChan, WorkTyped, stopVars
      <4>4. future' \in [Tasks -> {"pending"} \cup Outcomes]
        BY <2>0, <2>9, <3>2, <4>1, SettledTypes DEF DrainChan
      <4> QED BY <4>2, <4>3, <4>4
    <3> QED BY <3>1, <3>2
  <2> QED BY <2>1, <2>2, <2>3, <2>4, <2>5, <2>6, <2>7, <2>8, <2>9 DEF WorkerStep
<1> QED BY <1>1, <1>2
        DEF TypeInv, TypeOK, SendTyped, PcTyped, WorkTyped, RoomsTyped,
            workUnchanged, sendVars, queueVars, schedVars, closeVars

(* Shutdown's loops only name workers that exist.                          *)
LEMMA ShutdownTypes ==
    ASSUME TypeInv, Shutdown \/ ShutdownStep \/ ExpireRunning \/ ExpireWaiting
    PROVE  TypeInv'
<1>1. UNCHANGED shutUnchanged
  BY DEF Shutdown, ShutdownStep, StopScheduler, WaitLoop, ScanWorker, StopWorker,
         CancelWorker, WorkersDone, ClearPending, Close, ExpireRunning,
         ExpireWaiting
<1>2. /\ state' \in {"running", "shutdown", "closed"}
      /\ pools' \in BOOLEAN /\ accepting' \in BOOLEAN /\ schedDone' \in BOOLEAN
      /\ hpc' \in ShutLabels /\ at' \in Workers
      /\ isRunning' \in [Workers -> BOOLEAN]
      /\ cancelled' \in [Workers -> BOOLEAN]
  <2>1. /\ state \in {"running", "shutdown", "closed"}
        /\ pools \in BOOLEAN /\ accepting \in BOOLEAN /\ schedDone \in BOOLEAN
        /\ hpc \in ShutLabels /\ at \in Workers
        /\ isRunning \in [Workers -> BOOLEAN]
        /\ cancelled \in [Workers -> BOOLEAN]
        /\ 1 \in Workers
        /\ at < NWorkers => at + 1 \in Workers
    BY PoolAssumption DEF TypeInv, TypeOK, Workers
  <2> USE DEF HStep, NextWorker, ShutLabels, schedVars, stopVars
  <2>2. CASE Shutdown \/ StopScheduler \/ WaitLoop
    BY <2>1, <2>2 DEF Shutdown, StopScheduler, WaitLoop
  <2>3. CASE ScanWorker \/ ExpireRunning \/ ExpireWaiting
    BY <2>1, <2>3 DEF ScanWorker, ExpireRunning, ExpireWaiting
  <2>4. CASE StopWorker
    <3>1. /\ UNCHANGED <<schedVars, state, pools>>
          /\ hpc' \in {"stopWorkers", "waitWorkers"} /\ at' \in Workers
      BY <2>1, <2>4 DEF StopWorker
    <3>2. /\ isRunning' \in [Workers -> BOOLEAN]
          /\ cancelled' \in [Workers -> BOOLEAN]
      BY <2>1, <2>4 DEF StopWorker
    <3> QED BY <2>1, <3>1, <3>2
  <2>5. CASE CancelWorker
    <3>1. /\ UNCHANGED <<isRunning, schedVars, state, pools>>
          /\ hpc' \in {"forceCancel", "forceClear"} /\ at' \in Workers
      BY <2>1, <2>5 DEF CancelWorker
    <3>2. cancelled' \in [Workers -> BOOLEAN]
      BY <2>1, <2>5 DEF CancelWorker
    <3> QED BY <2>1, <3>1, <3>2
  <2>6. CASE WorkersDone \/ Close
    BY <2>1, <2>6 DEF WorkersDone, Close
  <2>7. CASE ClearPending
    <3>1. /\ UNCHANGED <<stopVars, schedVars, state, pools, at>>
          /\ hpc' \in {hpc, "close", "failed"}
      BY <2>7 DEF ClearPending
    <3> QED BY <2>1, <3>1
  <2> QED BY <2>2, <2>3, <2>4, <2>5, <2>6, <2>7 DEF ShutdownStep
<1>3. /\ queue' \in Seq(Tasks) /\ Len(queue') <= QueueLimit
      /\ future' \in [Tasks -> {"pending"} \cup Outcomes]
  <2>1. /\ queue \in Seq(Tasks) /\ Len(queue) <= QueueLimit /\ TypeOK
        /\ future \in [Tasks -> {"pending"} \cup Outcomes]
    BY DEF TypeInv, TypeOK
  <2>2. CASE ClearPending /\ queue # <<>>
    <3>1. /\ Head(queue) \in Tasks /\ Tail(queue) \in Seq(Tasks)
          /\ Len(Tail(queue)) <= QueueLimit /\ "closed" \in Outcomes
      BY <2>1, <2>2, Removed, PoolAssumption DEF Outcomes
    <3>2. SetResult(Head(queue), "closed") /\ queue' = Tail(queue)
      BY <2>2 DEF ClearPending
    <3> QED BY <2>1, <3>1, <3>2, SettledTypes
  <2>3. CASE ~(ClearPending /\ queue # <<>>)
    <3>1. queue' = queue /\ future' = future
      BY <2>3 DEF Shutdown, ShutdownStep, StopScheduler, WaitLoop, ScanWorker,
         StopWorker, CancelWorker, WorkersDone, ClearPending, Close,
         ExpireRunning, ExpireWaiting
    <3> QED BY <2>1, <3>1
  <2> QED BY <2>2, <2>3
<1> QED BY <1>1, <1>2, <1>3
        DEF TypeInv, TypeOK, SendTyped, PcTyped, shutUnchanged, sendVars, roomVars,
            workVars
-----------------------------------------------------------------------------
(* The first state has the types.                                          *)
LEMMA TypeInitially == Init => TypeInv
<1> SUFFICES ASSUME Init PROVE TypeInv
  OBVIOUS
<1>1. /\ <<>> \in Seq(Tasks) /\ Len(<<>>) = 0
      /\ 0 \in 0 .. Turns - 1 /\ 0 \in 0 .. BatchSize /\ 1 \in Workers
      /\ Dispatcher \notin Tasks
  BY PoolAssumption DEF Workers
<1>2. SendTyped
  BY <1>1 DEF Init, SendTyped, PcTyped, Senders, CallerLabels, LoopLabels, Sending
<1>3. /\ \A w \in Workers : Len(local[w]) <= LocalLimit /\ Len(chan[w]) <= 1
      /\ local \in [Workers -> Seq(Tasks)] /\ chan \in [Workers -> Seq(Tasks)]
      /\ queue \in Seq(Tasks) /\ Len(queue) <= QueueLimit
  BY <1>1, PoolAssumption DEF Init
<1>4. /\ isRunning \in [Workers -> BOOLEAN]
      /\ cancelled \in [Workers -> BOOLEAN]
      /\ isActive \in [Workers -> BOOLEAN]
      /\ wpc \in [Workers -> WorkerLabels]
      /\ current \in [Workers -> Tasks \cup {None}]
      /\ \A w \in Workers :
            wpc[w] \in {"begin", "execute", "report"} <=> current[w] # None
      /\ future \in [Tasks -> {"pending"} \cup Outcomes]
      /\ hpc \in ShutLabels
  BY DEF Init, WorkerLabels, ShutLabels
<1>5. /\ state = "running" /\ pools = TRUE /\ accepting = TRUE
      /\ schedDone = FALSE /\ overtaken = {} /\ counter = 0 /\ at = 1
      /\ started = {} /\ dropped = {}
  BY DEF Init
<1>6. TypeOK
  BY <1>1, <1>2, <1>3, <1>4, <1>5 DEF TypeOK, SendTyped, PcTyped, Sending
<1> QED BY <1>2, <1>6 DEF TypeInv

(* Every step keeps the types.                                             *)
LEMMA TypeInvariant == Spec => []TypeInv
<1>1. Init => TypeInv
  BY TypeInitially
<1>2. TypeInv /\ [Next]_vars => TypeInv'
  <2> SUFFICES ASSUME TypeInv, [Next]_vars PROVE TypeInv'
    OBVIOUS
  <2>1. ASSUME NEW s \in Senders, SendStep(s) PROVE TypeInv'
    BY <2>1, SelectTypes, LocalTypes, ChanTypes, EnqueueTypes DEF SendStep
  <2>2. ASSUME NEW t \in Tasks, SubmitAsync(t) \/ CallerStep(t) \/ Cancel(t)
        PROVE  TypeInv'
    BY <2>1, <2>2, CallerTypes DEF CallerStep, Senders
  <2>3. CASE LoopStep
    BY <2>1, <2>3, LoopTypes DEF LoopStep, Senders
  <2>4. ASSUME NEW w \in Workers, WorkerStep(w) PROVE TypeInv'
    BY <2>4, WorkerTypes
  <2>5. CASE Shutdown \/ ShutdownStep \/ ExpireRunning \/ ExpireWaiting
    BY <2>5, ShutdownTypes
  <2>6. CASE UNCHANGED vars
    BY <2>6 DEF vars, TypeInv, TypeOK, SendTyped, PcTyped, sendVars, queueVars,
                roomVars, workVars, stopVars, schedVars, closeVars
  <2> QED BY <2>2, <2>3, <2>4, <2>5, <2>6 DEF Next, Terminated
<1> QED BY <1>1, <1>2, PTL DEF Spec

(* The variables keep their types, and no queue, ring, channel or batch    *)
(* gets past its limit, for every number of tasks and workers and every    *)
(* limit (pool.go:1141, pool.go:1241).                                     *)
THEOREM TypeCorrect == Spec => []TypeOK
BY TypeInvariant, PTL DEF TypeInv
-----------------------------------------------------------------------------
(* Holders.                                                                *)

HolderKinds ==
    /\ Queue \in Holders /\ Loop \in Holders /\ Caller \in Holders
    /\ Queue # Loop /\ Queue # Caller /\ Loop # Caller
    /\ \A w \in Workers :
          /\ Local(w) \in Holders /\ Chan(w) \in Holders /\ Worker(w) \in Holders
          /\ {Local(w), Chan(w), Worker(w)} \cap {Queue, Loop, Caller} = {}
    /\ \A v, w \in Workers :
          /\ Local(v) # Chan(w) /\ Local(v) # Worker(w) /\ Chan(v) # Worker(w)
          /\ v # w => /\ Local(v) # Local(w)
                      /\ Chan(v) # Chan(w)
                      /\ Worker(v) # Worker(w)
    /\ \A h \in Holders :
          \/ h \in {Queue, Loop, Caller}
          \/ \E w \in Workers : h = Local(w) \/ h = Chan(w) \/ h = Worker(w)

(* The holders' names are distinct, and these are all of them.             *)
LEMMA HoldersDiffer == HolderKinds
<1> USE DEF Queue, Loop, Caller, Local, Chan, Worker
<1>1. /\ Queue \in Holders /\ Loop \in Holders /\ Caller \in Holders
      /\ Queue # Loop /\ Queue # Caller /\ Loop # Caller
  BY DEF Holders
<1>2. ASSUME NEW w \in Workers
      PROVE  /\ Local(w) \in Holders /\ Chan(w) \in Holders /\ Worker(w) \in Holders
             /\ {Local(w), Chan(w), Worker(w)} \cap {Queue, Loop, Caller} = {}
  BY DEF Holders
<1>3. ASSUME NEW v \in Workers, NEW w \in Workers
      PROVE  /\ Local(v) # Chan(w) /\ Local(v) # Worker(w) /\ Chan(v) # Worker(w)
             /\ v # w => /\ Local(v) # Local(w)
                         /\ Chan(v) # Chan(w)
                         /\ Worker(v) # Worker(w)
  OBVIOUS
<1>4. ASSUME NEW h \in Holders
      PROVE  \/ h \in {Queue, Loop, Caller}
             \/ \E w \in Workers : h = Local(w) \/ h = Chan(w) \/ h = Worker(w)
  BY DEF Holders
<1> HIDE DEF Queue, Loop, Caller, Local, Chan, Worker
<1> QED BY <1>1, <1>2, <1>3, <1>4 DEF HolderKinds

(* What each holder holds, read off the variables.                         *)
HeldByKind ==
    /\ held[Queue] = Elements(queue)
    /\ held[Loop] = {inHand} \ {None}
    /\ held[Caller] = {t \in Tasks : pc[t] \in Sending}
    /\ \A w \in Workers :
          /\ held[Local(w)] = Elements(local[w])
          /\ held[Chan(w)] = Elements(chan[w])
          /\ held[Worker(w)] = {current[w]} \ {None}
    /\ \A h \in Holders : held[h] \subseteq Tasks

(* In a typed state, held is what the variables say.                       *)
LEMMA HeldIs == TypeInv => HeldByKind
<1> SUFFICES ASSUME TypeInv PROVE HeldByKind
  OBVIOUS
<1>1. HolderKinds
  BY HoldersDiffer
<1>2. \A h \in Holders : held[h] = {t \in Tasks : Holds(h, t)}
  BY DEF held
<1>3. None \notin Tasks
  BY PoolAssumption
<1>4. ASSUME NEW q \in Seq(Tasks) PROVE Elements(q) \subseteq Tasks
  BY DEF Elements
<1>5. held[Queue] = Elements(queue)
  <2>1. Elements(queue) \subseteq Tasks
    BY <1>4 DEF TypeInv, TypeOK
  <2>2. \A t : Holds(Queue, t) <=> t \in Elements(queue)
    BY <1>1 DEF Holds, HolderKinds
  <2> QED BY <1>1, <1>2, <2>1, <2>2 DEF HolderKinds
<1>6. held[Loop] = {inHand} \ {None}
  <2>1. \A t : Holds(Loop, t) <=> inHand = t
    BY <1>1 DEF Holds, HolderKinds
  <2> QED BY <1>1, <1>2, <1>3, <2>1 DEF HolderKinds, TypeInv, TypeOK
<1>7. held[Caller] = {t \in Tasks : pc[t] \in Sending}
  <2>1. \A t : Holds(Caller, t) <=> pc[t] \in Sending
    BY <1>1 DEF Holds, HolderKinds
  <2> QED BY <1>1, <1>2, <2>1 DEF HolderKinds
<1>8. ASSUME NEW w \in Workers
      PROVE  /\ held[Local(w)] = Elements(local[w])
             /\ held[Chan(w)] = Elements(chan[w])
             /\ held[Worker(w)] = {current[w]} \ {None}
  <2>1. Elements(local[w]) \subseteq Tasks /\ Elements(chan[w]) \subseteq Tasks
        /\ current[w] \in Tasks \cup {None}
    BY <1>4 DEF TypeInv, TypeOK
  <2>2. \A t : /\ Holds(Local(w), t) <=> t \in Elements(local[w])
               /\ Holds(Chan(w), t) <=> t \in Elements(chan[w])
               /\ Holds(Worker(w), t) <=> current[w] = t
    BY <1>1 DEF Holds, HolderKinds
  <2>3. Local(w) \in Holders /\ Chan(w) \in Holders /\ Worker(w) \in Holders
    BY <1>1 DEF HolderKinds
  <2>4. held[Local(w)] = Elements(local[w])
    BY <1>2, <2>1, <2>2, <2>3
  <2>5. held[Chan(w)] = Elements(chan[w])
    BY <1>2, <2>1, <2>2, <2>3
  <2>6. held[Worker(w)] = {current[w]} \ {None}
    BY <1>2, <1>3, <2>1, <2>2, <2>3
  <2> QED BY <2>4, <2>5, <2>6
<1>9. \A h \in Holders : held[h] \subseteq Tasks
  BY <1>2
<1> QED BY <1>5, <1>6, <1>7, <1>8, <1>9 DEF HeldByKind

(* After a step the same holds of the new state.                           *)
LEMMA HeldIsNext == TypeInv' => HeldByKind'
BY HeldIs, PTL
-----------------------------------------------------------------------------
(* What a step does to the tasks held: nothing, or one task is now with b, *)
(* or one task is now with nobody.                                         *)

Still == \A h \in Holders : held'[h] = held[h]

Handed(t, b) ==
    \A h \in Holders : held'[h] = IF h = b THEN held[h] \cup {t} ELSE held[h] \ {t}

Freed(t) == \A h \in Holders : held'[h] = held[h] \ {t}

(* A task that leaves one holder for another is then with nobody else.     *)
LEMMA HandOver ==
    ASSUME Apart, NEW t, NEW a \in Holders, NEW b \in Holders, a # b, t \in held[a],
           held'[a] = held[a] \ {t}, held'[b] = held[b] \cup {t},
           \A h \in Holders \ {a, b} : held'[h] = held[h]
    PROVE  Handed(t, b)
<1>1. \A h \in Holders \ {a} : t \notin held[h]
  BY DEF Apart
<1>2. \A h \in Holders \ {b} : held'[h] = held[h] \ {t}
  BY <1>1
<1> QED BY <1>2 DEF Handed

(* A task that leaves its holder for nobody is then with nobody.           *)
LEMMA LetGo ==
    ASSUME Apart, NEW t, NEW a \in Holders, t \in held[a], held'[a] = held[a] \ {t},
           \A h \in Holders \ {a} : held'[h] = held[h]
    PROVE  Freed(t)
BY DEF Apart, Freed

(* No holder has changed if none of the variables has.                     *)
LEMMA KeptByKind ==
    ASSUME HeldByKind, HeldByKind'
    PROVE  /\ queue' = queue => held'[Queue] = held[Queue]
           /\ inHand' = inHand => held'[Loop] = held[Loop]
           /\ (\A t \in Tasks : pc'[t] \in Sending <=> pc[t] \in Sending) =>
                 held'[Caller] = held[Caller]
           /\ \A w \in Workers :
                 /\ local'[w] = local[w] => held'[Local(w)] = held[Local(w)]
                 /\ chan'[w] = chan[w] => held'[Chan(w)] = held[Chan(w)]
                 /\ current'[w] = current[w] => held'[Worker(w)] = held[Worker(w)]
<1>1. queue' = queue => held'[Queue] = held[Queue]
  BY DEF HeldByKind
<1>2. inHand' = inHand => held'[Loop] = held[Loop]
  BY DEF HeldByKind
<1>3. ASSUME \A t \in Tasks : pc'[t] \in Sending <=> pc[t] \in Sending
      PROVE  held'[Caller] = held[Caller]
  BY <1>3 DEF HeldByKind
<1>4. ASSUME NEW w \in Workers
      PROVE  /\ local'[w] = local[w] => held'[Local(w)] = held[Local(w)]
             /\ chan'[w] = chan[w] => held'[Chan(w)] = held[Chan(w)]
             /\ current'[w] = current[w] => held'[Worker(w)] = held[Worker(w)]
  <2>1. /\ held[Local(w)] = Elements(local[w]) /\ held'[Local(w)] = Elements(local'[w])
        /\ held[Chan(w)] = Elements(chan[w]) /\ held'[Chan(w)] = Elements(chan'[w])
        /\ held[Worker(w)] = {current[w]} \ {None}
        /\ held'[Worker(w)] = {current'[w]} \ {None}
    BY DEF HeldByKind
  <2> QED BY <2>1
<1> QED BY <1>1, <1>2, <1>3, <1>4

(* A sender that steps on without delivering anything, one that delivers   *)
(* its task to b, and one that lets go of it.                              *)
LEMMA SenderKeeps ==
    ASSUME HeldByKind, HeldByKind', NEW s \in Senders,
           \A r \in Senders \ {s} : pc'[r] = pc[r],
           s # Dispatcher => (pc'[s] \in Sending <=> pc[s] \in Sending),
           UNCHANGED <<queue, local, chan, inHand, current>>
    PROVE  Still
<1>1. \A t \in Tasks : pc'[t] \in Sending <=> pc[t] \in Sending
  BY PoolAssumption DEF Senders
<1> QED BY <1>1, KeptByKind, HoldersDiffer DEF HolderKinds, Still

SenderHolder(s) == IF s = Dispatcher THEN Loop ELSE Caller

(* The task being sent is with its sender.                                 *)
LEMMA SenderHolds ==
    ASSUME TypeInv, HeldByKind, NEW s \in Senders, pc[s] \in Sending
    PROVE  /\ SenderHolder(s) \in Holders /\ Cargo(s) \in held[SenderHolder(s)]
           /\ Cargo(s) \in Tasks
<1>1. Cargo(s) \in Tasks
  BY CargoIsTask
<1> QED BY <1>1, HoldersDiffer, PoolAssumption
        DEF HolderKinds, HeldByKind, SenderHolder, Cargo, Senders

(* A sender that is rid of its task no longer holds it.                    *)
LEMMA SenderLeaves ==
    ASSUME TypeInv, HeldByKind, HeldByKind', NEW s \in Senders, pc[s] \in Sending,
           \A r \in Senders \ {s} : pc'[r] = pc[r],
           s = Dispatcher => inHand' = None,
           s # Dispatcher => inHand' = inHand /\ pc'[s] \notin Sending
    PROVE  /\ held'[SenderHolder(s)] = held[SenderHolder(s)] \ {Cargo(s)}
           /\ \A h \in {Loop, Caller} \ {SenderHolder(s)} : held'[h] = held[h]
<1>1. CASE s = Dispatcher
  <2>1. \A t \in Tasks : pc'[t] = pc[t]
    BY <1>1, PoolAssumption DEF Senders
  <2>2. held'[Caller] = held[Caller]
    BY <2>1 DEF HeldByKind
  <2>3. held'[Loop] = {} /\ held[Loop] \subseteq {inHand}
    BY <1>1 DEF HeldByKind
  <2> QED BY <1>1, <2>2, <2>3 DEF SenderHolder, Cargo
<1>2. CASE s # Dispatcher
  <2>1. s \in Tasks /\ \A t \in Tasks \ {s} : pc'[t] = pc[t]
    BY <1>2 DEF Senders
  <2>2. held'[Loop] = held[Loop]
    BY <1>2 DEF HeldByKind
  <2>3. held'[Caller] = held[Caller] \ {s}
    BY <1>2, <2>1 DEF HeldByKind
  <2> QED BY <1>2, <2>2, <2>3 DEF SenderHolder, Cargo
<1> QED BY <1>1, <1>2

(* The seven ways a send can end, for callers and loop alike.              *)
LEMMA SendTransfers ==
    ASSUME TypeInv, Apart, TypeInv', NEW s \in Senders, SendStep(s)
    PROVE  /\ UNCHANGED <<workVars, stopVars, schedVars, closeVars, future>>
           /\ pc[s] \in Sending /\ \A r \in Senders \ {s} : pc'[r] = pc[r]
           /\ \/ Still /\ pc'[s] \in Sending /\ dropped' = dropped
              \/ /\ \E b \in Holders \ {Loop, Caller} : Handed(Cargo(s), b)
                 /\ dropped' = dropped
                 /\ s # Dispatcher => pc'[s] = "done"
              \/ /\ Freed(Cargo(s))
                 /\ dropped' = IF s = Dispatcher THEN dropped \cup {inHand} ELSE dropped
                 /\ s # Dispatcher => pc'[s] = "failing"
<1>1. HeldByKind /\ HeldByKind' /\ HolderKinds
  BY HeldIs, HeldIsNext, HoldersDiffer
<1>2. /\ UNCHANGED <<workVars, stopVars, schedVars, closeVars, future>>
      /\ pc[s] \in Sending
      /\ \E l : pc' = [pc EXCEPT ![s] = l]
  BY DEF SendStep, SelectWorker, EnqueueLocal, SendChan, Enqueue, EnqueueRefused,
         Delivered, LeaveEnqueue, Step, Sending
<1>3. \A r \in Senders \ {s} : pc'[r] = pc[r]
  BY <1>2 DEF TypeInv, TypeOK
<1>4. \A l : pc' = [pc EXCEPT ![s] = l] => pc'[s] = l
  BY DEF TypeInv, TypeOK
<1>5. current' = current
  BY <1>2 DEF workVars
<1>6. /\ SenderHolder(s) \in Holders /\ Cargo(s) \in held[SenderHolder(s)]
      /\ Cargo(s) \in Tasks
  BY <1>1, <1>2, SenderHolds
<1>7. SenderHolder(s) \in {Loop, Caller}
  BY DEF SenderHolder
<1>8. CASE SelectWorker(s)
  <2>1. pc'[s] \in Sending /\ UNCHANGED <<queue, local, chan, inHand>> /\ dropped' = dropped
    BY <1>4, <1>8 DEF SelectWorker, Step, queueVars, roomVars, Sending
  <2> QED BY <1>1, <1>2, <1>3, <1>5, <2>1, SenderKeeps
<1>9. CASE EnqueueLocal(s)
  <2>1. target[s] \in Workers
    BY <1>9 DEF EnqueueLocal, TypeInv, SendTyped
  <2>2. UNCHANGED <<queue, chan, dropped>>
    BY <1>9 DEF EnqueueLocal, queueVars
  <2>3. CASE Len(local[target[s]]) < LocalLimit
    <3>1. /\ Delivered(s, "local")
          /\ local' = [local EXCEPT ![target[s]] = Append(local[target[s]], Cargo(s))]
      BY <1>9, <2>3 DEF EnqueueLocal
    <3>2. /\ s = Dispatcher => inHand' = None
          /\ s # Dispatcher => inHand' = inHand /\ pc'[s] = "done"
      BY <1>4, <3>1 DEF Delivered, Step
    <3>3. /\ held'[SenderHolder(s)] = held[SenderHolder(s)] \ {Cargo(s)}
          /\ \A h \in {Loop, Caller} \ {SenderHolder(s)} : held'[h] = held[h]
      BY <1>1, <1>2, <1>3, <3>2, SenderLeaves DEF Sending
    <3>4. held'[Local(target[s])] = held[Local(target[s])] \cup {Cargo(s)}
      <4>1. local \in [Workers -> Seq(Tasks)] /\ local[target[s]] \in Seq(Tasks)
        BY <2>1 DEF TypeInv, TypeOK
      <4>2. local'[target[s]] = Append(local[target[s]], Cargo(s))
        BY <2>1, <3>1, <4>1
      <4>3. Elements(local'[target[s]]) = Elements(local[target[s]]) \cup {Cargo(s)}
        BY <1>6, <4>1, <4>2, Appended
      <4> QED BY <1>1, <2>1, <4>3 DEF HeldByKind
    <3>5. \A w \in Workers \ {target[s]} : local'[w] = local[w]
      BY <3>1 DEF TypeInv, TypeOK
    <3>6. \A h \in Holders \ {SenderHolder(s), Local(target[s])} : held'[h] = held[h]
      BY <1>1, <1>5, <2>2, <3>3, <3>5, KeptByKind DEF HolderKinds, SenderHolder
    <3>7. Local(target[s]) \in Holders \ {Loop, Caller}
      BY <1>1, <2>1 DEF HolderKinds
    <3>8. Handed(Cargo(s), Local(target[s]))
      BY <1>6, <1>7, <3>3, <3>4, <3>6, <3>7, HandOver
    <3> QED BY <1>2, <1>3, <2>2, <3>2, <3>7, <3>8
  <2>4. CASE ~(Len(local[target[s]]) < LocalLimit)
    <3>1. pc'[s] \in Sending /\ UNCHANGED <<local, inHand>>
      BY <1>4, <1>9, <2>4 DEF EnqueueLocal, Step, Sending
    <3> QED BY <1>1, <1>2, <1>3, <1>5, <2>2, <3>1, SenderKeeps
  <2> QED BY <2>3, <2>4
<1>10. CASE SendChan(s)
  <2>1. target[s] \in Workers
    BY <1>10 DEF SendChan, TypeInv, SendTyped
  <2>2. UNCHANGED <<queue, local, dropped>>
    BY <1>10 DEF SendChan, queueVars
  <2>3. CASE chan[target[s]] = <<>>
    <3>1. /\ Delivered(s, "chan")
          /\ chan' = [chan EXCEPT ![target[s]] = <<Cargo(s)>>]
      BY <1>10, <2>3 DEF SendChan
    <3>2. /\ s = Dispatcher => inHand' = None
          /\ s # Dispatcher => inHand' = inHand /\ pc'[s] = "done"
      BY <1>4, <3>1 DEF Delivered, Step
    <3>3. /\ held'[SenderHolder(s)] = held[SenderHolder(s)] \ {Cargo(s)}
          /\ \A h \in {Loop, Caller} \ {SenderHolder(s)} : held'[h] = held[h]
      BY <1>1, <1>2, <1>3, <3>2, SenderLeaves DEF Sending
    <3>4. held'[Chan(target[s])] = held[Chan(target[s])] \cup {Cargo(s)}
      <4>1. chan'[target[s]] = <<Cargo(s)>>
        BY <2>1, <3>1 DEF TypeInv, TypeOK
      <4>2. /\ Elements(chan'[target[s]]) = {Cargo(s)}
            /\ Elements(chan[target[s]]) = {}
        BY <1>6, <2>3, <4>1, OneElement
      <4> QED BY <1>1, <2>1, <4>2 DEF HeldByKind
    <3>5. \A w \in Workers \ {target[s]} : chan'[w] = chan[w]
      BY <3>1 DEF TypeInv, TypeOK
    <3>6. \A h \in Holders \ {SenderHolder(s), Chan(target[s])} : held'[h] = held[h]
      BY <1>1, <1>5, <2>2, <3>3, <3>5, KeptByKind DEF HolderKinds, SenderHolder
    <3>7. Chan(target[s]) \in Holders \ {Loop, Caller}
      BY <1>1, <2>1 DEF HolderKinds
    <3>8. Handed(Cargo(s), Chan(target[s]))
      BY <1>6, <1>7, <3>3, <3>4, <3>6, <3>7, HandOver
    <3> QED BY <1>2, <1>3, <2>2, <3>2, <3>7, <3>8
  <2>4. CASE chan[target[s]] # <<>>
    <3>1. pc'[s] \in Sending /\ UNCHANGED <<chan, inHand>>
      BY <1>4, <1>10, <2>4 DEF SendChan, Step, Sending
    <3> QED BY <1>1, <1>2, <1>3, <1>5, <2>2, <3>1, SenderKeeps
  <2> QED BY <2>3, <2>4
<1>11. ASSUME Enqueue(s) \/ EnqueueRefused(s)
       PROVE  /\ s = Dispatcher => inHand' = None
              /\ s # Dispatcher => inHand' = inHand
              /\ s # Dispatcher => pc'[s] = (IF Enqueue(s) THEN "done" ELSE "failing")
              /\ UNCHANGED <<local, chan>>
              /\ held'[SenderHolder(s)] = held[SenderHolder(s)] \ {Cargo(s)}
              /\ \A h \in {Loop, Caller} \ {SenderHolder(s)} : held'[h] = held[h]
  <2>1. /\ s = Dispatcher => inHand' = None
        /\ s # Dispatcher => inHand' = inHand
        /\ UNCHANGED <<local, chan>>
    BY <1>11 DEF Enqueue, EnqueueRefused, LeaveEnqueue, roomVars
  <2>2. s # Dispatcher => pc'[s] \in {"done", "failing"}
    BY <1>4, <1>11 DEF Enqueue, EnqueueRefused, LeaveEnqueue, Step
  <2>3. s # Dispatcher => pc'[s] = (IF Enqueue(s) THEN "done" ELSE "failing")
    BY <1>4, <1>11 DEF Enqueue, EnqueueRefused, LeaveEnqueue, Step
  <2>4. /\ held'[SenderHolder(s)] = held[SenderHolder(s)] \ {Cargo(s)}
        /\ \A h \in {Loop, Caller} \ {SenderHolder(s)} : held'[h] = held[h]
    BY <1>1, <1>2, <1>3, <2>1, <2>2, SenderLeaves DEF Sending
  <2> QED BY <2>1, <2>3, <2>4
<1>12. CASE Enqueue(s)
  <2>1. held'[Queue] = held[Queue] \cup {Cargo(s)}
    <3>1. Elements(queue') = Elements(queue) \cup {Cargo(s)}
      BY <1>6, <1>12, Appended DEF Enqueue, TypeInv, TypeOK
    <3> QED BY <1>1, <3>1 DEF HeldByKind
  <2>2. \A h \in Holders \ {SenderHolder(s), Queue} : held'[h] = held[h]
    BY <1>1, <1>5, <1>11, <1>12, KeptByKind DEF HolderKinds, SenderHolder
  <2>3. Queue \in Holders \ {Loop, Caller}
    BY <1>1 DEF HolderKinds
  <2>4. Handed(Cargo(s), Queue)
    BY <1>6, <1>7, <1>11, <1>12, <2>1, <2>2, <2>3, HandOver
  <2> QED BY <1>2, <1>3, <1>11, <1>12, <2>3, <2>4 DEF Enqueue
<1>13. CASE EnqueueRefused(s)
  <2>1. queue' = queue
    BY <1>13 DEF EnqueueRefused
  <2>2. \A h \in Holders \ {SenderHolder(s)} : held'[h] = held[h]
    BY <1>1, <1>5, <1>11, <1>13, <2>1, KeptByKind DEF HolderKinds, SenderHolder
  <2>3. Freed(Cargo(s))
    BY <1>6, <1>11, <1>13, <2>2, LetGo
  <2>4. s # Dispatcher => pc'[s] = "failing"
    BY <1>4, <1>13 DEF EnqueueRefused, LeaveEnqueue, Step
  <2> QED BY <1>2, <1>3, <1>13, <2>3, <2>4 DEF EnqueueRefused
<1> QED BY <1>8, <1>9, <1>10, <1>12, <1>13 DEF SendStep

(* The first task of a queue leaves it.                                    *)
LEMMA HeadLeaves ==
    ASSUME NEW q \in Seq(Tasks), q # <<>>, NoRepeats(q)
    PROVE  /\ Head(q) \in Tasks /\ Head(q) \in Elements(q)
           /\ Elements(Tail(q)) = Elements(q) \ {Head(q)}
BY Removed

(* Receiving from a channel of one empties it.                             *)
LEMMA ChanEmptied ==
    ASSUME NEW q \in Seq(Tasks), q # <<>>, Len(q) <= 1
    PROVE  Head(q) \in Tasks /\ Elements(q) = {Head(q)} /\ Elements(<<>>) = {}
<1>1. Len(q) = 1 /\ Head(q) = q[1] /\ q[1] \in Tasks
  OBVIOUS
<1>2. Elements(q) = {q[1]}
  BY <1>1 DEF Elements
<1> QED BY <1>1, <1>2, OneElement

(* Popping a local ring takes its first task from the ring's holder.       *)
LEMMA HeadLeavesLocal ==
    ASSUME TypeInv, QueuedOnce, HeldByKind, HeldByKind', NEW w \in Workers,
           local[w] # <<>>, local'[w] = Tail(local[w])
    PROVE  /\ Head(local[w]) \in Tasks /\ Head(local[w]) \in held[Local(w)]
           /\ held'[Local(w)] = held[Local(w)] \ {Head(local[w])}
<1>1. local[w] \in Seq(Tasks) /\ NoRepeats(local[w])
  BY DEF TypeInv, TypeOK, QueuedOnce
<1>2. /\ Head(local[w]) \in Tasks /\ Head(local[w]) \in Elements(local[w])
      /\ Elements(Tail(local[w])) = Elements(local[w]) \ {Head(local[w])}
  BY <1>1, HeadLeaves
<1>3. held[Local(w)] = Elements(local[w]) /\ held'[Local(w)] = Elements(local'[w])
  BY DEF HeldByKind
<1> QED BY <1>2, <1>3

(* A worker that had no task holds the one it takes.                       *)
LEMMA TakenByWorker ==
    ASSUME TypeInv, HeldByKind, HeldByKind', NEW w \in Workers, NEW t \in Tasks,
           wpc[w] \in {"choose", "pop"}, current'[w] = t
    PROVE  held'[Worker(w)] = held[Worker(w)] \cup {t}
<1>1. current[w] = None /\ t # None
  BY PoolAssumption DEF TypeInv, TypeOK
<1>2. /\ held[Worker(w)] = {current[w]} \ {None}
      /\ held'[Worker(w)] = {current'[w]} \ {None}
  BY DEF HeldByKind
<1> QED BY <1>1, <1>2

(* Only what worker w itself holds has changed.                            *)
LEMMA OnlyAtWorker ==
    ASSUME HeldByKind, HeldByKind', NEW w \in Workers,
           UNCHANGED <<queue, inHand, pc>>,
           \A v \in Workers \ {w} :
              local'[v] = local[v] /\ chan'[v] = chan[v] /\ current'[v] = current[v]
    PROVE  \A h \in Holders \ {Local(w), Chan(w), Worker(w)} : held'[h] = held[h]
BY KeptByKind, HoldersDiffer DEF HolderKinds

(* What a worker's step does: nothing to the tasks held, or it takes one   *)
(* from its own queues, or it starts, ends or reports one, or it discards  *)
(* one of its own queues after it has stopped.                             *)
LEMMA WorkerTransfers ==
    ASSUME TypeInv, QueuedOnce, Apart, TypeInv', NEW w \in Workers, WorkerStep(w)
    PROVE  /\ UNCHANGED workUnchanged
           /\ \A v \in Workers \ {w} : wpc'[v] = wpc[v] /\ current'[v] = current[v]
           /\ \/ /\ Still /\ UNCHANGED <<current, started, future>>
                 /\ {wpc[w], wpc'[w]} \cap {"execute", "report"} = {}
              \/ /\ \E t \in held[Local(w)] \cup held[Chan(w)] :
                       Handed(t, Worker(w)) /\ current'[w] = t
                 /\ UNCHANGED <<started, future>>
                 /\ {wpc[w], wpc'[w]} \cap {"execute", "report"} = {}
              \/ Still /\ (ExecuteTask(w) \/ TaskReturns(w))
              \/ Freed(current[w]) /\ ReportResult(w)
              \/ /\ \E t \in held[Local(w)] \cup held[Chan(w)] :
                       Freed(t) /\ SetResult(t, "closed")
                 /\ UNCHANGED <<wpc, current, started>>
                 /\ Gone(w)
<1>1. HeldByKind /\ HeldByKind' /\ HolderKinds
  BY HeldIs, HeldIsNext, HoldersDiffer
<1>2. UNCHANGED workUnchanged /\ UNCHANGED <<queue, inHand, pc>>
  BY DEF WorkerStep, LoopTest, SeeDone, ReceiveChan, NoneReady, DequeueLocal,
         ExecuteTask, TaskReturns, ReportResult, WorkerExit, DrainLocal,
         DrainChan, workUnchanged, sendVars, queueVars
<1>3. /\ local \in [Workers -> Seq(Tasks)] /\ chan \in [Workers -> Seq(Tasks)]
      /\ wpc \in [Workers -> WorkerLabels] /\ Len(chan[w]) <= 1
      /\ current \in [Workers -> Tasks \cup {None}]
      /\ NoRepeats(local[w]) /\ None \notin Tasks
  BY PoolAssumption DEF TypeInv, TypeOK, QueuedOnce
<1>4. Local(w) \in Holders /\ Chan(w) \in Holders /\ Worker(w) \in Holders
      /\ Local(w) # Chan(w) /\ Local(w) # Worker(w) /\ Chan(w) # Worker(w)
  BY <1>1 DEF HolderKinds
<1>5. \A v \in Workers \ {w} :
         /\ wpc'[v] = wpc[v] /\ current'[v] = current[v]
         /\ local'[v] = local[v] /\ chan'[v] = chan[v]
  <2> USE <1>3 DEF roomVars, PopLocal, WStep
  <2>1. CASE LoopTest(w) \/ SeeDone(w) \/ NoneReady(w)
    BY <2>1 DEF LoopTest, SeeDone, NoneReady
  <2>2. CASE ReceiveChan(w)
    BY <2>2 DEF ReceiveChan
  <2>3. CASE DequeueLocal(w)
    BY <2>3 DEF DequeueLocal
  <2>4. CASE ExecuteTask(w) \/ TaskReturns(w)
    BY <2>4 DEF ExecuteTask, TaskReturns
  <2>5. CASE ReportResult(w) \/ WorkerExit(w)
    BY <2>5 DEF ReportResult, WorkerExit
  <2>6. CASE DrainLocal(w)
    BY <2>6 DEF DrainLocal
  <2>7. CASE DrainChan(w)
    BY <2>7 DEF DrainChan
  <2> QED BY <2>1, <2>2, <2>3, <2>4, <2>5, <2>6, <2>7 DEF WorkerStep
<1>6. \A h \in Holders \ {Local(w), Chan(w), Worker(w)} : held'[h] = held[h]
  BY <1>1, <1>2, <1>5, OnlyAtWorker
<1>7. /\ local'[w] = local[w] => held'[Local(w)] = held[Local(w)]
      /\ chan'[w] = chan[w] => held'[Chan(w)] = held[Chan(w)]
      /\ current'[w] = current[w] => held'[Worker(w)] = held[Worker(w)]
  BY <1>1, KeptByKind
<1>8. UNCHANGED <<roomVars, current>> => Still
  BY <1>6, <1>7 DEF Still, roomVars
<1>9. CASE LoopTest(w) \/ SeeDone(w) \/ NoneReady(w) \/ WorkerExit(w)
  <2>1. /\ UNCHANGED <<roomVars, current, started, future>>
        /\ {wpc[w], wpc'[w]} \cap {"execute", "report"} = {}
    BY <1>3, <1>9 DEF LoopTest, SeeDone, NoneReady, WorkerExit, WStep
  <2> QED BY <1>2, <1>5, <1>8, <2>1
<1>10. CASE ReceiveChan(w)
  <2>1. /\ chan[w] # <<>> /\ chan'[w] = <<>> /\ current'[w] = Head(chan[w])
        /\ UNCHANGED <<local, started, future>> /\ wpc[w] = "choose" /\ wpc'[w] = "begin"
    BY <1>3, <1>10 DEF ReceiveChan, WStep
  <2>2. /\ held[Chan(w)] = {Head(chan[w])} /\ held'[Chan(w)] = {}
        /\ Head(chan[w]) \in Tasks
    BY <1>1, <1>3, <2>1, ChanEmptied DEF HeldByKind
  <2>3. held'[Worker(w)] = held[Worker(w)] \cup {Head(chan[w])}
    BY <1>1, <2>1, <2>2, TakenByWorker
  <2>4. \A h \in Holders \ {Chan(w), Worker(w)} : held'[h] = held[h]
    BY <1>6, <1>7, <2>1
  <2>5. Handed(Head(chan[w]), Worker(w))
    <3>1. /\ Head(chan[w]) \in held[Chan(w)]
          /\ held'[Chan(w)] = held[Chan(w)] \ {Head(chan[w])}
      BY <2>2
    <3> QED BY <1>4, <2>3, <2>4, <3>1, HandOver
  <2> QED BY <1>2, <1>5, <2>1, <2>2, <2>5
<1>11. CASE DequeueLocal(w)
  <2>1. CASE local[w] = <<>>
    <3>1. /\ UNCHANGED <<roomVars, current, started, future>>
          /\ wpc[w] = "pop" /\ wpc'[w] = "loop"
      BY <1>3, <1>11, <2>1 DEF DequeueLocal, WStep, roomVars
    <3> QED BY <1>2, <1>5, <1>8, <3>1
  <2>2. CASE local[w] # <<>>
    <3>1. /\ local'[w] = Tail(local[w]) /\ current'[w] = Head(local[w])
          /\ UNCHANGED <<chan, started, future>> /\ wpc[w] = "pop" /\ wpc'[w] = "begin"
      BY <1>3, <1>11, <2>2 DEF DequeueLocal, PopLocal, WStep
    <3>2. /\ Head(local[w]) \in Tasks /\ Head(local[w]) \in held[Local(w)]
          /\ held'[Local(w)] = held[Local(w)] \ {Head(local[w])}
      BY <1>1, <2>2, <3>1, HeadLeavesLocal
    <3>3. held'[Worker(w)] = held[Worker(w)] \cup {Head(local[w])}
      BY <1>1, <3>1, <3>2, TakenByWorker
    <3>4. \A h \in Holders \ {Local(w), Worker(w)} : held'[h] = held[h]
      BY <1>6, <1>7, <3>1
    <3>5. Handed(Head(local[w]), Worker(w))
      BY <1>4, <3>2, <3>3, <3>4, HandOver
    <3> QED BY <1>2, <1>5, <3>1, <3>2, <3>5
  <2> QED BY <2>1, <2>2
<1>12. CASE ExecuteTask(w) \/ TaskReturns(w)
  <2>1. UNCHANGED <<roomVars, current>>
    BY <1>12 DEF ExecuteTask, TaskReturns
  <2> QED BY <1>2, <1>5, <1>8, <1>12, <2>1
<1>13. CASE ReportResult(w)
  <2>1. /\ UNCHANGED roomVars /\ current'[w] = None /\ wpc[w] = "report"
    BY <1>3, <1>13 DEF ReportResult, WStep
  <2>2. held[Worker(w)] = {current[w]} /\ held'[Worker(w)] = {}
    BY <1>1, <2>1 DEF HeldByKind, TypeInv, TypeOK
  <2>3. Freed(current[w])
    BY <1>4, <1>6, <1>7, <2>1, <2>2, LetGo DEF roomVars
  <2> QED BY <1>2, <1>5, <1>13, <2>3
<1>14. CASE DrainLocal(w)
  <2>1. CASE local[w] = <<>>
    <3>1. /\ UNCHANGED <<roomVars, current, started, future>>
          /\ wpc[w] = "drainLocal" /\ wpc'[w] = "drainChan"
      BY <1>3, <1>14, <2>1 DEF DrainLocal, WStep, roomVars
    <3> QED BY <1>2, <1>5, <1>8, <3>1
  <2>2. CASE local[w] # <<>>
    <3>1. /\ local'[w] = Tail(local[w]) /\ SetResult(Head(local[w]), "closed")
          /\ UNCHANGED <<chan, wpc, current, started>> /\ wpc[w] = "drainLocal"
      BY <1>3, <1>14, <2>2 DEF DrainLocal, PopLocal
    <3>2. /\ Head(local[w]) \in Tasks /\ Head(local[w]) \in held[Local(w)]
          /\ held'[Local(w)] = held[Local(w)] \ {Head(local[w])}
      BY <1>1, <2>2, <3>1, HeadLeavesLocal
    <3>3. Freed(Head(local[w]))
      BY <1>4, <1>6, <1>7, <3>1, <3>2, LetGo
    <3> QED BY <1>2, <1>5, <3>1, <3>2, <3>3 DEF Gone
  <2> QED BY <2>1, <2>2
<1>15. CASE DrainChan(w)
  <2>1. CASE chan[w] = <<>>
    <3>1. /\ UNCHANGED <<roomVars, current, started, future>>
          /\ wpc[w] = "drainChan" /\ wpc'[w] = "stopped"
      BY <1>3, <1>15, <2>1 DEF DrainChan, WStep, roomVars
    <3> QED BY <1>2, <1>5, <1>8, <3>1
  <2>2. CASE chan[w] # <<>>
    <3>1. /\ chan'[w] = <<>> /\ SetResult(Head(chan[w]), "closed")
          /\ UNCHANGED <<local, wpc, current, started>> /\ wpc[w] = "drainChan"
      BY <1>3, <1>15, <2>2 DEF DrainChan
    <3>2. /\ held[Chan(w)] = {Head(chan[w])} /\ held'[Chan(w)] = {}
          /\ Head(chan[w]) \in Tasks
      BY <1>1, <1>3, <2>2, <3>1, ChanEmptied DEF HeldByKind
    <3>3. Freed(Head(chan[w]))
      BY <1>4, <1>6, <1>7, <3>1, <3>2, LetGo
    <3> QED BY <1>2, <1>5, <3>1, <3>2, <3>3 DEF Gone
  <2> QED BY <2>1, <2>2
<1> QED BY <1>9, <1>10, <1>11, <1>12, <1>13, <1>14, <1>15 DEF WorkerStep

(* Shutdown only takes tasks from the global queue, to discard them.       *)
LEMMA ShutdownTransfers ==
    ASSUME TypeInv, QueuedOnce, Apart, TypeInv',
           Shutdown \/ ShutdownStep \/ ExpireRunning \/ ExpireWaiting
    PROVE  /\ UNCHANGED shutUnchanged
           /\ \/ Still /\ future' = future
              \/ /\ ClearPending /\ UNCHANGED <<state, hpc>>
                 /\ hpc \in {"clear", "forceClear"}
                 /\ \E t \in held[Queue] : Freed(t) /\ SetResult(t, "closed")
<1>1. HeldByKind /\ HeldByKind' /\ HolderKinds
  BY HeldIs, HeldIsNext, HoldersDiffer
<1>2. UNCHANGED shutUnchanged
  BY DEF Shutdown, ShutdownStep, StopScheduler, WaitLoop, ScanWorker, StopWorker,
         CancelWorker, WorkersDone, ClearPending, Close, ExpireRunning,
         ExpireWaiting
<1>3. UNCHANGED <<inHand, pc, local, chan, current>>
  BY <1>2 DEF shutUnchanged, sendVars, roomVars, workVars
<1>4. \A h \in Holders \ {Queue} : held'[h] = held[h]
  BY <1>1, <1>3, KeptByKind DEF HolderKinds
<1>5. CASE ClearPending /\ queue # <<>>
  <2>1. /\ queue' = Tail(queue) /\ SetResult(Head(queue), "closed")
        /\ hpc \in {"clear", "forceClear"} /\ UNCHANGED <<state, hpc>>
    BY <1>5 DEF ClearPending
  <2>2. Head(queue) \in held[Queue] /\ held'[Queue] = held[Queue] \ {Head(queue)}
    <3>1. queue \in Seq(Tasks) /\ NoRepeats(queue)
      BY DEF TypeInv, TypeOK, QueuedOnce
    <3> QED BY <1>1, <1>5, <2>1, <3>1, HeadLeaves DEF HeldByKind
  <2>3. Freed(Head(queue))
    BY <1>1, <1>4, <2>2, LetGo DEF HolderKinds
  <2> QED BY <1>2, <1>5, <2>1, <2>2, <2>3
<1>6. CASE ~(ClearPending /\ queue # <<>>)
  <2>1. queue' = queue /\ future' = future
    BY <1>6 DEF Shutdown, ShutdownStep, StopScheduler, WaitLoop, ScanWorker,
       StopWorker, CancelWorker, WorkersDone, ClearPending, Close,
       ExpireRunning, ExpireWaiting
  <2> QED BY <1>1, <1>2, <1>4, <2>1, KeptByKind DEF Still
<1> QED BY <1>5, <1>6

(* A caller that is not sending yet, or no longer, holds nothing; the one  *)
(* that wraps its task is the first to hold it.                            *)
LEMMA CallerTransfers ==
    ASSUME TypeInv, CallerOwns, TypeInv', NEW t \in Tasks,
           SubmitAsync(t) \/ Submit(t) \/ Schedule(t) \/ Wrap(t) \/ Fail(t) \/ Cancel(t)
    PROVE  /\ UNCHANGED callUnchanged
           /\ \A r \in Senders \ {t} : pc'[r] = pc[r]
           /\ \/ Still /\ (pc'[t] = "done" <=> pc[t] = "done")
              \/ /\ Wrap(t) /\ Handed(t, Caller)
                 /\ pc[t] = "wrap" /\ pc'[t] = "select"
<1>1. HeldByKind /\ HeldByKind' /\ HolderKinds
  BY HeldIs, HeldIsNext, HoldersDiffer
<1>2. UNCHANGED callUnchanged /\ UNCHANGED <<queue, local, chan, inHand, current>>
  BY DEF SubmitAsync, Submit, Schedule, Wrap, Fail, Cancel, callUnchanged,
         queueVars, roomVars, workVars
<1>3. t \in Senders /\ t # Dispatcher /\ pc \in [Senders -> CallerLabels \cup LoopLabels]
  BY PoolAssumption DEF Senders, TypeInv, TypeOK
<1>4. \A r \in Senders \ {t} : pc'[r] = pc[r]
  BY <1>3 DEF SubmitAsync, Submit, Schedule, Wrap, Fail, Cancel, callUnchanged, Step
<1>5. CASE Wrap(t) /\ pools
  <2>1. pc[t] = "wrap" /\ pc'[t] = "select"
    BY <1>3, <1>5 DEF Wrap, Step
  <2>2. \A u \in Tasks \ {t} : pc'[u] = pc[u]
    BY <1>4 DEF Senders
  <2>3. held'[Caller] = held[Caller] \cup {t}
    BY <1>1, <2>1, <2>2 DEF HeldByKind, Sending
  <2>4. \A h \in Holders \ {Caller} : held'[h] = held[h] \ {t}
    <3>1. \A h \in Holders \ {Caller} : t \notin held[h]
      BY <2>1 DEF CallerOwns
    <3>2. \A h \in Holders \ {Caller} : held'[h] = held[h]
      BY <1>1, <1>2, KeptByKind DEF HolderKinds
    <3> QED BY <3>1, <3>2
  <2> QED BY <1>2, <1>4, <1>5, <2>1, <2>3, <2>4 DEF Handed
<1>6. CASE ~(Wrap(t) /\ pools)
  <2>1. /\ pc'[t] = "done" <=> pc[t] = "done"
        /\ pc'[t] \in Sending <=> pc[t] \in Sending
    BY <1>3, <1>6 DEF SubmitAsync, Submit, Schedule, Wrap, Fail, Cancel,
       callUnchanged, Step, Sending
  <2> QED BY <1>1, <1>2, <1>3, <1>4, <2>1, SenderKeeps
<1> QED BY <1>5, <1>6
-----------------------------------------------------------------------------
(* Who owns a task after a step: what is held can become less, or one task *)
(* passes on, or a worker starts the task it has.                          *)

Executing(w) == wpc[w] \in {"execute", "report"}

(* Ownership is kept by a step that hands nothing over.                    *)
LEMMA LessIsHeld ==
    ASSUME Ownership,
           \A h \in Holders : held'[h] \subseteq held[h],
           \A u \in Tasks : pc'[u] # "done" => pc[u] # "done",
           started' = started,
           \A u \in dropped' \ dropped :
              /\ u \notin started /\ \A h \in Holders : u \notin held'[h]
              /\ u \in Tasks => pc'[u] = "done",
           \A w \in Workers :
              /\ Executing(w)' => Executing(w) /\ current'[w] = current[w]
              /\ Executing(w) => Executing(w)' \/ held'[Worker(w)] = {}
    PROVE  Ownership'
<1> USE DEF Ownership
<1>1. Apart'
  BY DEF Apart
<1>2. CallerOwns'
  BY DEF CallerOwns
<1>3. StartedIsHeldByWorker'
  BY DEF StartedIsHeldByWorker, Executing
<1>4. ExecutingIsStarted'
  BY DEF ExecutingIsStarted, Executing
<1>5. DroppedIsGone'
  BY DEF DroppedIsGone
<1> QED BY <1>1, <1>2, <1>3, <1>4, <1>5

(* Ownership is kept by a step that hands over a task that nobody has      *)
(* started or dropped.                                                     *)
LEMMA OneIsHanded ==
    ASSUME Ownership, NEW t \in Tasks, NEW b \in Holders, Handed(t, b),
           \A u \in Tasks \ {t} : pc'[u] # "done" => pc[u] # "done",
           pc'[t] # "done" => b = Caller,
           started' = started, dropped' = dropped,
           t \notin started, t \notin dropped,
           \A w \in Workers :
              /\ Executing(w)' => Executing(w) /\ current'[w] = current[w]
              /\ Executing(w) => Executing(w)'
    PROVE  Ownership'
<1>1. \A h \in Holders :
         /\ t \in held'[h] => h = b
         /\ \A u : u # t => (u \in held'[h] <=> u \in held[h])
  BY DEF Handed
<1> USE DEF Ownership
<1>2. Apart'
  BY <1>1 DEF Apart
<1>3. CallerOwns'
  BY <1>1 DEF CallerOwns
<1>4. StartedIsHeldByWorker'
  BY <1>1 DEF StartedIsHeldByWorker, Executing
<1>5. ExecutingIsStarted'
  BY DEF ExecutingIsStarted, Executing
<1>6. DroppedIsGone'
  BY <1>1 DEF DroppedIsGone
<1> QED BY <1>2, <1>3, <1>4, <1>5, <1>6

(* A held task that is neither executed nor reported has not been started, *)
(* and no held task has been dropped.                                      *)
LEMMA HeldIsFresh ==
    ASSUME Ownership, NEW h \in Holders, NEW t \in held[h],
           \A w \in Workers : h = Worker(w) => ~Executing(w)
    PROVE  t \notin started /\ t \notin dropped
BY DEF Ownership, StartedIsHeldByWorker, DroppedIsGone, Executing

(* Ownership is kept by a caller that is not sending.                      *)
LEMMA CallerOwnership ==
    ASSUME PoolInv, TypeInv', NEW t \in Tasks,
           SubmitAsync(t) \/ Submit(t) \/ Schedule(t) \/ Wrap(t) \/ Fail(t) \/ Cancel(t)
    PROVE  Ownership'
<1> USE DEF PoolInv
<1>1. /\ UNCHANGED callUnchanged
      /\ \A u \in Tasks \ {t} : pc'[u] = pc[u]
      /\ \/ Still /\ (pc'[t] = "done" <=> pc[t] = "done")
         \/ Handed(t, Caller) /\ pc[t] = "wrap" /\ pc'[t] = "select"
  BY CallerTransfers DEF Ownership, Senders
<1>2. UNCHANGED <<started, dropped, wpc, current>>
  BY <1>1 DEF callUnchanged, workVars
<1>3. CASE Still
  BY <1>1, <1>2, <1>3, LessIsHeld DEF Still, Executing
<1>4. CASE Handed(t, Caller) /\ pc[t] = "wrap"
  <2>1. t \notin started /\ t \notin dropped
    BY <1>4 DEF Ownership, CallerOwns
  <2>2. Caller \in Holders
    BY HoldersDiffer DEF HolderKinds
  <2> QED BY <1>1, <1>2, <1>4, <2>1, <2>2, OneIsHanded DEF Executing
<1> QED BY <1>1, <1>3, <1>4

(* Ownership is kept by a send: the task sent was the sender's alone.      *)
LEMMA SendOwnership ==
    ASSUME PoolInv, TypeInv', NEW s \in Senders, SendStep(s)
    PROVE  Ownership'
<1> USE DEF PoolInv
<1>1. /\ UNCHANGED <<workVars, stopVars, schedVars, closeVars, future>>
      /\ pc[s] \in Sending /\ \A r \in Senders \ {s} : pc'[r] = pc[r]
      /\ \/ Still /\ pc'[s] \in Sending /\ dropped' = dropped
         \/ /\ \E b \in Holders \ {Loop, Caller} : Handed(Cargo(s), b)
            /\ dropped' = dropped
            /\ s # Dispatcher => pc'[s] = "done"
         \/ /\ Freed(Cargo(s))
            /\ dropped' = IF s = Dispatcher THEN dropped \cup {inHand} ELSE dropped
            /\ s # Dispatcher => pc'[s] = "failing"
  BY SendTransfers DEF Ownership
<1>2. UNCHANGED <<started, wpc, current>>
  BY <1>1 DEF workVars
<1>3. /\ SenderHolder(s) \in Holders /\ Cargo(s) \in held[SenderHolder(s)]
      /\ Cargo(s) \in Tasks
  BY <1>1, SenderHolds, HeldIs
<1>4. SenderHolder(s) \in {Loop, Caller}
  BY DEF SenderHolder
<1>5. \A w \in Workers : Worker(w) \notin {Loop, Caller}
  BY HoldersDiffer DEF HolderKinds
<1>6. Cargo(s) \notin started /\ Cargo(s) \notin dropped
  BY <1>3, <1>4, <1>5, HeldIsFresh
<1>7. /\ pc[s] # "done"
      /\ s = Dispatcher => pc[Cargo(s)] = "done"
  <2>1. s = Dispatcher => Cargo(s) \in held[Loop]
    BY <1>3 DEF SenderHolder
  <2>2. Loop # Caller /\ Loop \in Holders
    BY HoldersDiffer DEF HolderKinds
  <2> QED BY <1>1, <1>3, <2>1, <2>2 DEF Ownership, CallerOwns, Sending
<1>8. \A u \in Tasks \ {Cargo(s)} : pc'[u] = pc[u]
  BY <1>1, PoolAssumption DEF Senders, Cargo
<1>9. s # Dispatcher => Cargo(s) = s
  BY DEF Cargo
<1>10. CASE Still /\ pc'[s] \in Sending /\ dropped' = dropped
  <2>1. \A u \in Tasks : pc'[u] # "done" => pc[u] # "done"
    BY <1>1, <1>10, PoolAssumption DEF Senders, Sending
  <2> QED BY <1>2, <1>10, <2>1, LessIsHeld DEF Still, Executing
<1>11. ASSUME NEW b \in Holders \ {Loop, Caller}, Handed(Cargo(s), b),
              dropped' = dropped, s # Dispatcher => pc'[s] = "done"
       PROVE  Ownership'
  <2>1. pc'[Cargo(s)] = "done"
    BY <1>1, <1>3, <1>7, <1>9, <1>11, PoolAssumption DEF Senders
  <2> QED BY <1>2, <1>3, <1>6, <1>8, <1>11, <2>1, OneIsHanded DEF Executing
<1>12. CASE /\ Freed(Cargo(s))
            /\ dropped' = IF s = Dispatcher THEN dropped \cup {inHand} ELSE dropped
            /\ s # Dispatcher => pc'[s] = "failing"
  <2>1. \A u \in Tasks : pc'[u] # "done" => pc[u] # "done"
    BY <1>1, <1>8, <1>9, <1>12, PoolAssumption DEF Senders, Sending
  <2>2. \A u \in dropped' \ dropped : s = Dispatcher /\ u = Cargo(s)
    BY <1>12 DEF Cargo
  <2>3. s = Dispatcher => pc'[Cargo(s)] = "done"
    BY <1>1, <1>3, <1>7, PoolAssumption DEF Senders
  <2>4. \A h \in Holders : held'[h] \subseteq held[h] /\ Cargo(s) \notin held'[h]
    BY <1>12 DEF Freed
  <2> QED BY <1>2, <1>6, <2>1, <2>2, <2>3, <2>4, LessIsHeld DEF Executing
<1> QED BY <1>1, <1>10, <1>11, <1>12

(* The loop only moves a task when it takes one from the global queue.     *)
LEMMA LoopTransfers ==
    ASSUME TypeInv, QueuedOnce, Apart, TypeInv', Tick \/ Dequeue \/ LoopExit
    PROVE  /\ UNCHANGED loopUnchanged
           /\ \A t \in Tasks : pc'[t] = pc[t]
           /\ pc[Dispatcher] \in {"wait", "dequeue"}
           /\ \/ Still
              \/ \E t \in held[Queue] : Handed(t, Loop)
<1>1. HeldByKind /\ HeldByKind' /\ HolderKinds
  BY HeldIs, HeldIsNext, HoldersDiffer
<1>2. /\ UNCHANGED loopUnchanged /\ UNCHANGED <<local, chan, current>>
      /\ pc[Dispatcher] \in {"wait", "dequeue"}
  BY DEF Tick, Dequeue, LoopExit, loopUnchanged, roomVars, workVars, Step
<1>3. \A t \in Tasks : pc'[t] = pc[t]
  BY PoolAssumption DEF Tick, Dequeue, LoopExit, Step, TypeInv, TypeOK, Senders
<1>4. \A h \in Holders \ {Queue, Loop} : held'[h] = held[h]
  BY <1>1, <1>2, <1>3, KeptByKind DEF HolderKinds
<1>5. CASE Dequeue /\ ~BatchOver
  <2>1. /\ queue' = Tail(queue) /\ inHand' = Head(queue) /\ queue # <<>>
        /\ queue \in Seq(Tasks) /\ NoRepeats(queue)
        /\ inHand = None /\ None \notin Tasks
    BY <1>2, <1>5, PoolAssumption
       DEF Dequeue, BatchOver, TypeInv, TypeOK, SendTyped, Sending, QueuedOnce
  <2>2. /\ Head(queue) \in Tasks /\ Head(queue) \in Elements(queue)
        /\ Elements(Tail(queue)) = Elements(queue) \ {Head(queue)}
    BY <2>1, HeadLeaves
  <2>3. /\ Head(queue) \in held[Queue] /\ held'[Queue] = held[Queue] \ {Head(queue)}
        /\ held'[Loop] = held[Loop] \cup {Head(queue)}
    BY <1>1, <2>1, <2>2 DEF HeldByKind
  <2>4. Handed(Head(queue), Loop)
    BY <1>1, <1>4, <2>3, HandOver DEF HolderKinds
  <2> QED BY <1>2, <1>3, <2>3, <2>4
<1>6. CASE ~(Dequeue /\ ~BatchOver)
  <2>1. UNCHANGED <<queue, inHand>>
    BY <1>6 DEF Tick, Dequeue, LoopExit
  <2> QED BY <1>1, <1>2, <1>3, <1>4, <2>1, KeptByKind DEF Still
<1> QED BY <1>5, <1>6

(* Ownership is kept by the loop's dequeue.                                *)
LEMMA LoopOwnership ==
    ASSUME PoolInv, TypeInv', Tick \/ Dequeue \/ LoopExit
    PROVE  Ownership'
<1> USE DEF PoolInv
<1>1. /\ UNCHANGED loopUnchanged
      /\ \A t \in Tasks : pc'[t] = pc[t]
      /\ \/ Still
         \/ \E t \in held[Queue] : Handed(t, Loop)
  BY LoopTransfers DEF Ownership
<1>2. UNCHANGED <<started, dropped, wpc, current>>
  BY <1>1 DEF loopUnchanged, workVars
<1>3. CASE Still
  BY <1>1, <1>2, <1>3, LessIsHeld DEF Still, Executing
<1>4. ASSUME NEW t \in held[Queue], Handed(t, Loop) PROVE Ownership'
  <2>1. /\ Queue \in Holders /\ Loop \in Holders /\ Queue # Caller
        /\ \A w \in Workers : Queue # Worker(w)
    BY HoldersDiffer DEF HolderKinds
  <2>2. t \in Tasks
    BY <2>1, HeldIs DEF HeldByKind
  <2>3. t \notin started /\ t \notin dropped
    BY <2>1, HeldIsFresh
  <2>4. pc[t] = "done"
    BY <2>1, <2>2 DEF Ownership, CallerOwns
  <2> QED BY <1>1, <1>2, <1>4, <2>1, <2>2, <2>3, <2>4, OneIsHanded DEF Executing
<1> QED BY <1>1, <1>3, <1>4

(* Ownership is kept by a worker: what it starts was not started before.   *)
LEMMA WorkerOwnership ==
    ASSUME PoolInv, TypeInv', NEW w \in Workers, WorkerStep(w)
    PROVE  Ownership'
<1> USE DEF PoolInv
<1>1. /\ UNCHANGED workUnchanged
      /\ \A v \in Workers \ {w} : wpc'[v] = wpc[v] /\ current'[v] = current[v]
      /\ \/ /\ Still /\ UNCHANGED <<current, started, future>>
            /\ {wpc[w], wpc'[w]} \cap {"execute", "report"} = {}
         \/ /\ \E t \in held[Local(w)] \cup held[Chan(w)] :
                  Handed(t, Worker(w)) /\ current'[w] = t
            /\ UNCHANGED <<started, future>>
            /\ {wpc[w], wpc'[w]} \cap {"execute", "report"} = {}
         \/ Still /\ (ExecuteTask(w) \/ TaskReturns(w))
         \/ Freed(current[w]) /\ ReportResult(w)
         \/ /\ \E t \in held[Local(w)] \cup held[Chan(w)] :
                  Freed(t) /\ SetResult(t, "closed")
            /\ UNCHANGED <<wpc, current, started>>
            /\ Gone(w)
  BY WorkerTransfers DEF Ownership
<1>2. UNCHANGED <<pc, dropped>>
  BY <1>1 DEF workUnchanged, sendVars
<1>3. HeldByKind /\ HeldByKind' /\ HolderKinds
  BY HeldIs, HeldIsNext, HoldersDiffer
<1>4. CASE /\ Still /\ UNCHANGED <<current, started, future>>
           /\ {wpc[w], wpc'[w]} \cap {"execute", "report"} = {}
  BY <1>1, <1>2, <1>4, LessIsHeld DEF Still, Executing
<1>5. ASSUME NEW t \in held[Local(w)] \cup held[Chan(w)], Handed(t, Worker(w)),
             UNCHANGED started, {wpc[w], wpc'[w]} \cap {"execute", "report"} = {}
      PROVE  Ownership'
  <2>1. PICK h \in {Local(w), Chan(w)} : t \in held[h]
    OBVIOUS
  <2>2. /\ h \in Holders /\ h # Caller /\ \A v \in Workers : h # Worker(v)
        /\ Worker(w) \in Holders
    BY <1>3 DEF HolderKinds
  <2>3. t \in Tasks /\ t \notin started /\ t \notin dropped
    BY <1>3, <2>1, <2>2, HeldIsFresh DEF HeldByKind
  <2>4. pc[t] = "done"
    BY <2>1, <2>2, <2>3 DEF Ownership, CallerOwns
  <2> QED BY <1>1, <1>2, <1>5, <2>2, <2>3, <2>4, OneIsHanded DEF Executing
<1>6. CASE Still /\ TaskReturns(w)
  <2>1. UNCHANGED <<current, started>> /\ Executing(w) /\ Executing(w)'
    BY <1>6 DEF TaskReturns, WStep, Executing, TypeInv, TypeOK
  <2> QED BY <1>1, <1>2, <1>6, <2>1, LessIsHeld DEF Still, Executing
<1>7. CASE Still /\ ExecuteTask(w)
  <2>1. /\ wpc[w] = "begin" /\ wpc'[w] = "execute" /\ UNCHANGED current
        /\ started' = started \cup {current[w]}
    BY <1>7 DEF ExecuteTask, WStep, TypeInv, TypeOK
  <2>2. current[w] \in held[Worker(w)] /\ Worker(w) \in Holders /\ Worker(w) # Caller
        /\ \A v \in Workers : v # w => Worker(v) # Worker(w)
    <3>1. current[w] # None
      BY <2>1 DEF TypeInv, TypeOK
    <3>2. held[Worker(w)] = {current[w]} \ {None}
      BY <1>3 DEF HeldByKind
    <3>3. /\ Worker(w) \in Holders /\ Worker(w) # Caller
          /\ \A v \in Workers : v # w => Worker(v) # Worker(w)
      BY <1>3 DEF HolderKinds
    <3> QED BY <3>1, <3>2, <3>3
  <2>3. current[w] \notin started /\ current[w] \notin dropped
    BY <2>1, <2>2, HeldIsFresh DEF Executing
  <2>4. \A h \in Holders : held'[h] = held[h] /\ (current[w] \in held[h] => h = Worker(w))
    BY <1>7, <2>2 DEF Still, Ownership, Apart
  <2>5. Apart'
    BY <2>4 DEF Ownership, Apart
  <2>6. CallerOwns'
    <3>1. \A t \in Tasks : pc[t] # "done" => t # current[w]
      BY <2>2 DEF Ownership, CallerOwns
    <3> QED BY <1>2, <2>1, <2>4, <3>1 DEF Ownership, CallerOwns
  <2>7. StartedIsHeldByWorker'
    <3>1. \A v \in Workers : Executing(v) => Executing(v)'
      BY <1>1, <2>1 DEF Executing
    <3>2. \A h \in Holders : current[w] \in held'[h] =>
             h = Worker(w) /\ wpc'[w] \in {"execute", "report"}
      BY <2>1, <2>4
    <3> QED BY <2>1, <2>4, <3>1, <3>2 DEF Ownership, StartedIsHeldByWorker, Executing
  <2>8. ExecutingIsStarted'
    BY <1>1, <2>1 DEF Ownership, ExecutingIsStarted
  <2>9. DroppedIsGone'
    BY <1>2, <2>1, <2>3, <2>4 DEF Ownership, DroppedIsGone
  <2> QED BY <2>5, <2>6, <2>7, <2>8, <2>9 DEF Ownership
<1>8. CASE Freed(current[w]) /\ ReportResult(w)
  <2>1. /\ wpc'[w] = "loop" /\ current'[w] = None /\ started' = started
    BY <1>8 DEF ReportResult, WStep, TypeInv, TypeOK
  <2>2. held'[Worker(w)] = {}
    BY <1>3, <2>1 DEF HeldByKind
  <2>3. \A h \in Holders : held'[h] \subseteq held[h]
    BY <1>8 DEF Freed
  <2>4. \A v \in Workers :
           /\ Executing(v)' => Executing(v) /\ current'[v] = current[v]
           /\ Executing(v) => Executing(v)' \/ held'[Worker(v)] = {}
    BY <1>1, <2>1, <2>2 DEF Executing
  <2> QED BY <1>2, <2>1, <2>3, <2>4, LessIsHeld
<1>9. ASSUME NEW t, Freed(t), UNCHANGED <<wpc, current, started>>
      PROVE  Ownership'
  <2>1. \A h \in Holders : held'[h] \subseteq held[h]
    BY <1>9 DEF Freed
  <2> QED BY <1>2, <1>9, <2>1, LessIsHeld DEF Executing
<1> QED BY <1>1, <1>4, <1>5, <1>6, <1>7, <1>8, <1>9

(* Ownership is kept by Shutdown, which only takes tasks away.             *)
LEMMA ShutdownOwnership ==
    ASSUME PoolInv, TypeInv',
           Shutdown \/ ShutdownStep \/ ExpireRunning \/ ExpireWaiting
    PROVE  Ownership'
<1>1. UNCHANGED shutUnchanged /\ (Still \/ \E t : Freed(t))
  BY ShutdownTransfers DEF PoolInv, Ownership
<1>2. UNCHANGED <<pc, started, dropped, wpc, current>>
  BY <1>1 DEF shutUnchanged, sendVars, workVars
<1>3. \A h \in Holders : held'[h] \subseteq held[h]
  BY <1>1 DEF Still, Freed
<1> QED BY <1>2, <1>3, LessIsHeld DEF PoolInv, Executing
-----------------------------------------------------------------------------
(* A task is never twice in the same queue: it is appended by the only one *)
(* that holds it.                                                          *)

(* A queue of at most one task has none twice.                             *)
LEMMA ShortHasNoRepeats ==
    ASSUME NEW q, Len(q) \in Nat, Len(q) <= 1
    PROVE  NoRepeats(q)
BY DEF NoRepeats

(* Taking the first task leaves none twice.                                *)
LEMMA ShrinkingKeepsOnce ==
    ASSUME NEW q \in Seq(Tasks), NoRepeats(q), NEW r,
           r = q \/ (q # <<>> /\ r = Tail(q))
    PROVE  NoRepeats(r)
<1>1. CASE q # <<>> /\ r = Tail(q)
  BY <1>1, Removed
<1> QED BY <1>1

(* A sender puts its task into a queue it is not in yet.                   *)
LEMMA SendQueued ==
    ASSUME PoolInv, TypeInv', NEW s \in Senders, SendStep(s)
    PROVE  QueuedOnce'
<1> USE DEF PoolInv
<1>1. HeldByKind /\ HolderKinds
  BY HeldIs, HoldersDiffer
<1>2. pc[s] \in Sending
  BY SendTransfers DEF Ownership
<1>3. /\ SenderHolder(s) \in Holders /\ Cargo(s) \in held[SenderHolder(s)]
      /\ Cargo(s) \in Tasks
  BY <1>1, <1>2, SenderHolds
<1>4. SenderHolder(s) \in {Loop, Caller}
  BY DEF SenderHolder
<1>5. /\ Cargo(s) \notin Elements(queue)
      /\ \A w \in Workers : Cargo(s) \notin Elements(local[w])
  <2>1. \A h \in Holders \ {SenderHolder(s)} : Cargo(s) \notin held[h]
    BY <1>3 DEF Ownership, Apart
  <2>2. Queue \in Holders \ {SenderHolder(s)} /\ held[Queue] = Elements(queue)
    BY <1>1, <1>4 DEF HeldByKind, HolderKinds
  <2>3. ASSUME NEW w \in Workers
        PROVE  Local(w) \in Holders \ {SenderHolder(s)} /\ held[Local(w)] = Elements(local[w])
    <3>1. Local(w) \in Holders /\ Local(w) # Loop /\ Local(w) # Caller
      BY <1>1 DEF HolderKinds
    <3> QED BY <1>1, <1>4, <3>1 DEF HeldByKind
  <2> QED BY <2>1, <2>2, <2>3
<1>6. NoRepeats(queue')
  <2>1. queue \in Seq(Tasks) /\ NoRepeats(queue)
    BY DEF TypeInv, TypeOK, QueuedOnce
  <2>2. queue' = queue \/ queue' = Append(queue, Cargo(s))
    BY DEF SendStep, SelectWorker, EnqueueLocal, SendChan, Enqueue, EnqueueRefused,
           queueVars
  <2> QED BY <1>3, <1>5, <2>1, <2>2, Appended
<1>7. ASSUME NEW w \in Workers PROVE NoRepeats(local'[w])
  <2>1. local[w] \in Seq(Tasks) /\ NoRepeats(local[w]) /\ local \in [Workers -> Seq(Tasks)]
    BY DEF TypeInv, TypeOK, QueuedOnce
  <2>2. local'[w] = local[w] \/ local'[w] = Append(local[w], Cargo(s))
    <3>1. CASE EnqueueLocal(s)
      BY <2>1, <3>1 DEF EnqueueLocal
    <3>2. CASE ~EnqueueLocal(s)
      BY <3>2 DEF SendStep, SelectWorker, SendChan, Enqueue, EnqueueRefused,
                  LeaveEnqueue, roomVars
    <3> QED BY <3>1, <3>2
  <2> QED BY <1>3, <1>5, <2>1, <2>2, Appended
<1>8. \A w \in Workers : NoRepeats(chan'[w])
  BY ShortHasNoRepeats DEF TypeInv, TypeOK
<1> QED BY <1>6, <1>7, <1>8 DEF QueuedOnce

(* The loop only takes from the global queue.                              *)
LEMMA LoopQueued ==
    ASSUME PoolInv, Tick \/ Dequeue \/ LoopExit
    PROVE  QueuedOnce'
<1>1. UNCHANGED <<local, chan>> /\ (queue' = queue \/ (queue # <<>> /\ queue' = Tail(queue)))
  BY DEF Tick, Dequeue, LoopExit, BatchOver, loopUnchanged, roomVars
<1>2. queue \in Seq(Tasks) /\ NoRepeats(queue)
  BY DEF PoolInv, TypeInv, TypeOK, QueuedOnce
<1>3. NoRepeats(queue')
  BY <1>1, <1>2, ShrinkingKeepsOnce
<1> QED BY <1>1, <1>3 DEF PoolInv, QueuedOnce

(* A worker only takes from its own queues.                                *)
LEMMA WorkerQueued ==
    ASSUME PoolInv, TypeInv', NEW w \in Workers, WorkerStep(w)
    PROVE  QueuedOnce'
<1>1. queue' = queue
  BY DEF WorkerStep, LoopTest, SeeDone, ReceiveChan, NoneReady, DequeueLocal,
         ExecuteTask, TaskReturns, ReportResult, WorkerExit, DrainLocal,
         DrainChan, workUnchanged, queueVars
<1>2. local' = local \/ (local[w] # <<>> /\ PopLocal(w))
  BY DEF WorkerStep, LoopTest, SeeDone, ReceiveChan, NoneReady, DequeueLocal,
         ExecuteTask, TaskReturns, ReportResult, WorkerExit, DrainLocal,
         DrainChan, roomVars
<1>3. ASSUME NEW v \in Workers PROVE NoRepeats(local'[v])
  <2>1. local[v] \in Seq(Tasks) /\ NoRepeats(local[v]) /\ local \in [Workers -> Seq(Tasks)]
    BY DEF PoolInv, TypeInv, TypeOK, QueuedOnce
  <2>2. local'[v] = local[v] \/ (local[v] # <<>> /\ local'[v] = Tail(local[v]))
    BY <1>2, <2>1 DEF PopLocal
  <2> QED BY <2>1, <2>2, ShrinkingKeepsOnce
<1>4. \A v \in Workers : NoRepeats(chan'[v])
  BY ShortHasNoRepeats DEF TypeInv, TypeOK
<1> QED BY <1>1, <1>3, <1>4 DEF PoolInv, QueuedOnce

(* Shutdown only takes from the global queue.                              *)
LEMMA ShutdownQueued ==
    ASSUME PoolInv, Shutdown \/ ShutdownStep \/ ExpireRunning \/ ExpireWaiting
    PROVE  QueuedOnce'
<1>1. UNCHANGED <<local, chan>> /\ (queue' = queue \/ (queue # <<>> /\ queue' = Tail(queue)))
  BY DEF Shutdown, ShutdownStep, StopScheduler, WaitLoop, ScanWorker, StopWorker,
         CancelWorker, WorkersDone, ClearPending, Close, ExpireRunning,
         ExpireWaiting, shutUnchanged, roomVars
<1>2. queue \in Seq(Tasks) /\ NoRepeats(queue)
  BY DEF PoolInv, TypeInv, TypeOK, QueuedOnce
<1>3. NoRepeats(queue')
  BY <1>1, <1>2, ShrinkingKeepsOnce
<1> QED BY <1>1, <1>3 DEF PoolInv, QueuedOnce
-----------------------------------------------------------------------------
(* Shutdown waits for the loop before it touches a worker or the queue,    *)
(* and for all workers before it closes the pool.                          *)

(* No sender changes how far Shutdown is.                                  *)
LEMMA SenderOrder ==
    ASSUME PoolInv, UNCHANGED <<closeVars, stopVars, wpc>>,
           pc[Dispatcher] = "exited" => pc'[Dispatcher] = "exited"
    PROVE  ShutdownOrder'
BY DEF PoolInv, ShutdownOrder, closeVars, stopVars, Gone

(* A worker that is gone stays gone, and none goes before Shutdown.        *)
LEMMA WorkerOrder ==
    ASSUME PoolInv, NEW w \in Workers, WorkerStep(w)
    PROVE  ShutdownOrder'
<1>1. UNCHANGED <<state, hpc, pc, cancelled>>
  BY DEF WorkerStep, LoopTest, SeeDone, ReceiveChan, NoneReady, DequeueLocal,
         ExecuteTask, TaskReturns, ReportResult, WorkerExit, DrainLocal,
         DrainChan, workUnchanged, closeVars, sendVars, stopVars
<1>2. /\ wpc \in [Workers -> WorkerLabels] /\ isRunning \in [Workers -> BOOLEAN]
      /\ ShutdownOrder
  BY DEF PoolInv, TypeInv, TypeOK
<1>3. \A v \in Workers \ {w} : wpc'[v] = wpc[v] /\ isRunning'[v] = isRunning[v]
  BY <1>2 DEF WorkerStep, LoopTest, SeeDone, ReceiveChan, NoneReady, DequeueLocal,
         ExecuteTask, TaskReturns, ReportResult, WorkerExit, DrainLocal,
         DrainChan, WStep, stopVars
<1>4. Gone(w) => Gone(w)'
  BY <1>2 DEF WorkerStep, LoopTest, SeeDone, ReceiveChan, NoneReady, DequeueLocal,
         ExecuteTask, TaskReturns, ReportResult, WorkerExit, DrainLocal,
         DrainChan, WStep, Gone
<1>5. ASSUME isRunning[w], ~cancelled[w], wpc[w] # "exiting", ~Gone(w)
      PROVE  isRunning'[w] /\ wpc'[w] # "exiting" /\ ~Gone(w)'
  BY <1>2, <1>5
     DEF WorkerStep, LoopTest, SeeDone, ReceiveChan, NoneReady, DequeueLocal,
         ExecuteTask, TaskReturns, ReportResult, WorkerExit, DrainLocal,
         DrainChan, WStep, Gone, stopVars
<1>6. \A v \in Workers \ {w} : Gone(v)' <=> Gone(v)
  BY <1>3 DEF Gone
<1> QED BY <1>1, <1>2, <1>3, <1>4, <1>5, <1>6 DEF ShutdownOrder

(* Shutdown's steps come in order, each after what it waits for.           *)
LEMMA ShutdownStepOrder ==
    ASSUME PoolInv, Shutdown \/ ShutdownStep \/ ExpireRunning \/ ExpireWaiting
    PROVE  ShutdownOrder'
<1>1. UNCHANGED <<pc, wpc>> /\ ShutdownOrder /\ hpc \in ShutLabels
  BY DEF Shutdown, ShutdownStep, StopScheduler, WaitLoop, ScanWorker, StopWorker,
         CancelWorker, WorkersDone, ClearPending, Close, ExpireRunning,
         ExpireWaiting, shutUnchanged, sendVars, workVars, PoolInv, TypeInv, TypeOK
<1>2. \A w \in Workers : Gone(w)' <=> Gone(w)
  BY <1>1 DEF Gone
<1> USE DEF HStep, NextWorker, ShutLabels, ShutdownOrder
<1>3. CASE Shutdown \/ StopScheduler \/ WaitLoop
  BY <1>1, <1>2, <1>3 DEF Shutdown, StopScheduler, WaitLoop
<1>4. CASE ScanWorker \/ ExpireRunning \/ ExpireWaiting
  BY <1>1, <1>2, <1>4 DEF ScanWorker, ExpireRunning, ExpireWaiting
<1>5. CASE StopWorker \/ CancelWorker
  BY <1>1, <1>2, <1>5 DEF StopWorker, CancelWorker
<1>6. CASE WorkersDone \/ Close
  BY <1>1, <1>2, <1>6 DEF WorkersDone, Close
<1>7. CASE ClearPending
  BY <1>1, <1>2, <1>7 DEF ClearPending
<1> QED BY <1>3, <1>4, <1>5, <1>6, <1>7 DEF ShutdownStep
-----------------------------------------------------------------------------
(* All parts of the invariant together.                                    *)

(* The first state satisfies the invariant.                                *)
LEMMA PoolInitially == Init => PoolInv
<1> SUFFICES ASSUME Init PROVE PoolInv
  OBVIOUS
<1>1. TypeInv
  BY TypeInitially
<1>2. HeldByKind
  BY <1>1, HeldIs
<1>3. /\ queue = <<>> /\ inHand = None /\ started = {} /\ dropped = {}
      /\ \A w \in Workers :
            /\ local[w] = <<>> /\ chan[w] = <<>> /\ current[w] = None
            /\ wpc[w] = "loop" /\ isRunning[w] /\ ~cancelled[w]
      /\ \A t \in Tasks : pc[t] = "new"
      /\ state = "running" /\ hpc = "open"
  BY PoolAssumption DEF Init, Senders
<1>4. Elements(<<>>) = {} /\ NoRepeats(<<>>)
  BY DEF Elements, NoRepeats
<1>5. \A h \in Holders : held[h] = {}
  <2>1. held[Queue] = {} /\ held[Loop] = {}
    BY <1>2, <1>3, <1>4 DEF HeldByKind
  <2>2. held[Caller] = {}
    BY <1>2, <1>3 DEF HeldByKind, Sending
  <2>3. ASSUME NEW w \in Workers
        PROVE  held[Local(w)] = {} /\ held[Chan(w)] = {} /\ held[Worker(w)] = {}
    BY <1>2, <1>3, <1>4 DEF HeldByKind
  <2> QED BY <2>1, <2>2, <2>3, HoldersDiffer DEF HolderKinds
<1>6. QueuedOnce
  BY <1>3, <1>4 DEF QueuedOnce
<1>7. Ownership
  BY <1>3, <1>5 DEF Ownership, Apart, CallerOwns, StartedIsHeldByWorker,
                    ExecutingIsStarted, DroppedIsGone
<1>8. ShutdownOrder
  BY <1>3 DEF ShutdownOrder, Gone
<1> QED BY <1>1, <1>6, <1>7, <1>8 DEF PoolInv

(* Every step keeps the invariant.                                         *)
LEMMA PoolStep == PoolInv /\ TypeInv' /\ [Next]_vars => PoolInv'
<1> SUFFICES ASSUME PoolInv, TypeInv', [Next]_vars PROVE PoolInv'
  OBVIOUS
<1>1. ASSUME NEW s \in Senders, SendStep(s) PROVE PoolInv'
  <2>1. Ownership' /\ QueuedOnce'
    BY <1>1, SendOwnership, SendQueued
  <2>2. /\ UNCHANGED <<closeVars, stopVars, workVars>> /\ pc[s] \in Sending
        /\ \A r \in Senders \ {s} : pc'[r] = pc[r]
    BY <1>1, SendTransfers DEF PoolInv, Ownership
  <2>3. ShutdownOrder'
    BY <2>2, SenderOrder DEF Sending, workVars, Senders
  <2> QED BY <2>1, <2>3 DEF PoolInv
<1>2. ASSUME NEW t \in Tasks,
             \/ SubmitAsync(t) \/ Submit(t) \/ Schedule(t) \/ Wrap(t) \/ Fail(t)
             \/ Cancel(t)
      PROVE  PoolInv'
  <2>1. Ownership'
    BY <1>2, CallerOwnership
  <2>2. /\ UNCHANGED callUnchanged /\ pc'[Dispatcher] = pc[Dispatcher]
    BY <1>2, CallerTransfers, PoolAssumption DEF PoolInv, Ownership, Senders
  <2>3. ShutdownOrder'
    BY <2>2, SenderOrder DEF callUnchanged, workVars
  <2>4. QueuedOnce'
    BY <2>2 DEF PoolInv, QueuedOnce, callUnchanged, queueVars, roomVars
  <2> QED BY <2>1, <2>3, <2>4 DEF PoolInv
<1>3. CASE Tick \/ Dequeue \/ LoopExit
  <2>1. Ownership' /\ QueuedOnce'
    BY <1>3, LoopOwnership, LoopQueued
  <2>2. /\ UNCHANGED <<closeVars, stopVars, workVars>>
        /\ pc[Dispatcher] \in {"wait", "dequeue"}
    BY <1>3, LoopTransfers DEF PoolInv, Ownership, loopUnchanged
  <2>3. ShutdownOrder'
    BY <2>2, SenderOrder DEF workVars
  <2> QED BY <2>1, <2>3 DEF PoolInv
<1>4. ASSUME NEW w \in Workers, WorkerStep(w) PROVE PoolInv'
  BY <1>4, WorkerOwnership, WorkerQueued, WorkerOrder DEF PoolInv
<1>5. CASE Shutdown \/ ShutdownStep \/ ExpireRunning \/ ExpireWaiting
  BY <1>5, ShutdownOwnership, ShutdownQueued, ShutdownStepOrder DEF PoolInv
<1>6. CASE UNCHANGED vars
  <2>1. UNCHANGED <<queue, local, chan, inHand, pc, current, started, dropped, wpc,
                    closeVars, stopVars>>
    BY <1>6 DEF vars, sendVars, queueVars, roomVars, workVars
  <2>2. QueuedOnce'
    BY <2>1 DEF PoolInv, QueuedOnce
  <2>3. Still
    <3>1. HeldByKind /\ HeldByKind' /\ HolderKinds
      BY HeldIs, HeldIsNext, HoldersDiffer DEF PoolInv
    <3> QED BY <2>1, <3>1, KeptByKind DEF HolderKinds, Still
  <2>4. Ownership'
    BY <2>1, <2>3, LessIsHeld DEF PoolInv, Still, Executing
  <2>5. ShutdownOrder'
    BY <2>1, SenderOrder
  <2> QED BY <2>2, <2>4, <2>5 DEF PoolInv
<1> QED BY <1>1, <1>2, <1>3, <1>4, <1>5, <1>6
        DEF Next, CallerStep, LoopStep, Terminated, Senders

(* The inductive invariant: every wrapper has one owner, which no step of  *)
(* callers, loop, workers and Shutdown leaves in doubt.                    *)
THEOREM PoolCorrect == Spec => []PoolInv
BY TypeInvariant, PoolInitially, PoolStep, PTL DEF Spec

(* clearPendingTasks only consumes the global queue after the loop has     *)
(* exited, also when Shutdown's context expires (pool.go:533).             *)
THEOREM QueueConsumers == Spec => []QueueHasOneConsumer
<1>1. PoolInv => QueueHasOneConsumer
  BY DEF PoolInv, ShutdownOrder, QueueHasOneConsumer
<1> QED BY <1>1, PoolCorrect, PTL
-----------------------------------------------------------------------------
(* OneHolder: the places of a task, as Places counts them, are one for     *)
(* each holder that has it.                                                *)

PlaceAt(h, t, p) ==
    \/ h = Queue /\ \E i \in Positions(queue, t) : p = <<"queue", 0, i>>
    \/ h = Loop /\ inHand = t /\ p = <<"loop", 0, 0>>
    \/ h = Caller /\ pc[t] \in Sending /\ p = <<"caller", 0, 0>>
    \/ \E w \in Workers :
          \/ h = Local(w) /\ \E i \in Positions(local[w], t) : p = <<"local", w, i>>
          \/ h = Chan(w) /\ \E i \in Positions(chan[w], t) : p = <<"chan", w, i>>
          \/ h = Worker(w) /\ current[w] = t /\ p = <<"worker", w, 0>>

(* The places that Places counts are those of the holders.                 *)
LEMMA PlacesAreHolders ==
    ASSUME NEW t \in Tasks
    PROVE  \A p : p \in Places(t) <=> \E h \in Holders : PlaceAt(h, t, p)
<1> TAKE p
<1> DEFINE
      InQueue  == {<<"queue", 0, i>> : i \in Positions(queue, t)}
      InLocal  == UNION {{<<"local", w, i>> : i \in Positions(local[w], t)} : w \in Workers}
      InChan   == UNION {{<<"chan", w, i>> : i \in Positions(chan[w], t)} : w \in Workers}
      InWorker == {<<"worker", w, 0>> : w \in {v \in Workers : current[v] = t}}
      InLoop   == IF inHand = t THEN {<<"loop", 0, 0>>} ELSE {}
      AtCaller == IF pc[t] \in {"select", "local", "chan", "enqueue"}
                  THEN {<<"caller", 0, 0>>} ELSE {}
<1>1. HolderKinds
  BY HoldersDiffer
<1>2. Places(t) = InQueue \cup InLocal \cup InChan \cup InWorker \cup InLoop \cup AtCaller
  BY Zenon DEF Places
<1>3. p \in InQueue <=> PlaceAt(Queue, t, p)
  BY <1>1 DEF PlaceAt, HolderKinds
<1>4. p \in InLoop <=> PlaceAt(Loop, t, p)
  BY <1>1 DEF PlaceAt, HolderKinds
<1>5. p \in AtCaller <=> PlaceAt(Caller, t, p)
  BY <1>1 DEF PlaceAt, HolderKinds, Sending
<1>6. p \in InLocal <=> \E w \in Workers : PlaceAt(Local(w), t, p)
  <2>1. \A w \in Workers : PlaceAt(Local(w), t, p) <=>
           \E i \in Positions(local[w], t) : p = <<"local", w, i>>
    BY <1>1 DEF PlaceAt, HolderKinds
  <2> QED BY <2>1
<1>7. p \in InChan <=> \E w \in Workers : PlaceAt(Chan(w), t, p)
  <2>1. \A w \in Workers : PlaceAt(Chan(w), t, p) <=>
           \E i \in Positions(chan[w], t) : p = <<"chan", w, i>>
    BY <1>1 DEF PlaceAt, HolderKinds
  <2> QED BY <2>1
<1>8. p \in InWorker <=> \E w \in Workers : PlaceAt(Worker(w), t, p)
  <2>1. \A w \in Workers : PlaceAt(Worker(w), t, p) <=>
           current[w] = t /\ p = <<"worker", w, 0>>
    BY <1>1 DEF PlaceAt, HolderKinds
  <2> QED BY <2>1
<1> HIDE DEF InQueue, InLocal, InChan, InWorker, InLoop, AtCaller
<1>9. (\E h \in Holders : PlaceAt(h, t, p)) <=>
        \/ PlaceAt(Queue, t, p) \/ PlaceAt(Loop, t, p) \/ PlaceAt(Caller, t, p)
        \/ \E w \in Workers : PlaceAt(Local(w), t, p)
        \/ \E w \in Workers : PlaceAt(Chan(w), t, p)
        \/ \E w \in Workers : PlaceAt(Worker(w), t, p)
  BY <1>1 DEF HolderKinds
<1> QED BY <1>2, <1>3, <1>4, <1>5, <1>6, <1>7, <1>8, <1>9

(* A holder has the task exactly if there is a place for it there.         *)
LEMMA HolderHasPlace ==
    ASSUME HeldByKind, NEW t \in Tasks, NEW h \in Holders
    PROVE  t \in held[h] <=> \E p : PlaceAt(h, t, p)
<1>1. HolderKinds
  BY HoldersDiffer
<1>2. \A s : t \in Elements(s) <=> Positions(s, t) # {}
  BY DEF Elements, Positions
<1>3. t # None
  BY PoolAssumption
<1>4. CASE h = Queue
  <2>1. \A p : PlaceAt(h, t, p) <=> \E i \in Positions(queue, t) : p = <<"queue", 0, i>>
    BY <1>1, <1>4 DEF HolderKinds, PlaceAt
  <2>2. (\E p : PlaceAt(h, t, p)) <=> Positions(queue, t) # {}
    BY <2>1, Zenon
  <2> QED BY <1>2, <1>4, <2>2 DEF HeldByKind
<1>5. CASE h = Loop
  BY <1>1, <1>3, <1>5 DEF HeldByKind, HolderKinds, PlaceAt
<1>6. CASE h = Caller
  BY <1>1, <1>6 DEF HeldByKind, HolderKinds, PlaceAt
<1>7. ASSUME NEW w \in Workers, h = Local(w) PROVE t \in held[h] <=> \E p : PlaceAt(h, t, p)
  <2>1. \A p : PlaceAt(h, t, p) <=> \E i \in Positions(local[w], t) : p = <<"local", w, i>>
    BY <1>1, <1>7 DEF HolderKinds, PlaceAt
  <2>2. (\E p : PlaceAt(h, t, p)) <=> Positions(local[w], t) # {}
    BY <2>1, Zenon
  <2>3. held[h] = Elements(local[w])
    BY <1>7 DEF HeldByKind
  <2> QED BY <1>2, <2>2, <2>3
<1>8. ASSUME NEW w \in Workers, h = Chan(w) PROVE t \in held[h] <=> \E p : PlaceAt(h, t, p)
  <2>1. \A p : PlaceAt(h, t, p) <=> \E i \in Positions(chan[w], t) : p = <<"chan", w, i>>
    BY <1>1, <1>8 DEF HolderKinds, PlaceAt
  <2>2. (\E p : PlaceAt(h, t, p)) <=> Positions(chan[w], t) # {}
    BY <2>1, Zenon
  <2>3. held[h] = Elements(chan[w])
    BY <1>8 DEF HeldByKind
  <2> QED BY <1>2, <2>2, <2>3
<1>9. ASSUME NEW w \in Workers, h = Worker(w) PROVE t \in held[h] <=> \E p : PlaceAt(h, t, p)
  <2>1. \A p : PlaceAt(h, t, p) <=> current[w] = t /\ p = <<"worker", w, 0>>
    BY <1>1, <1>9 DEF HolderKinds, PlaceAt
  <2>2. held[h] = {current[w]} \ {None}
    BY <1>9 DEF HeldByKind
  <2> QED BY <1>3, <2>1, <2>2
<1> QED BY <1>1, <1>4, <1>5, <1>6, <1>7, <1>8, <1>9 DEF HolderKinds

(* A holder has a task at one place only.                                  *)
LEMMA OnePlaceEach ==
    ASSUME QueuedOnce, NEW t \in Tasks, NEW h \in Holders,
           NEW p, NEW q, PlaceAt(h, t, p), PlaceAt(h, t, q)
    PROVE  p = q
<1>1. HolderKinds
  BY HoldersDiffer
<1>2. \A s : NoRepeats(s) => \A i, j \in Positions(s, t) : i = j
  BY DEF NoRepeats, Positions
<1>3. CASE h \in {Queue, Loop, Caller}
  <2>1. \A r : PlaceAt(h, t, r) =>
           \/ h = Queue /\ \E i \in Positions(queue, t) : r = <<"queue", 0, i>>
           \/ h = Loop /\ r = <<"loop", 0, 0>>
           \/ h = Caller /\ r = <<"caller", 0, 0>>
    BY <1>1, <1>3 DEF HolderKinds, PlaceAt
  <2>2. CASE h = Queue
    <3>1. \A r : PlaceAt(h, t, r) => \E i \in Positions(queue, t) : r = <<"queue", 0, i>>
      BY <1>1, <2>1, <2>2 DEF HolderKinds
    <3> QED BY <1>2, <3>1 DEF QueuedOnce
  <2>3. CASE h \in {Loop, Caller}
    BY <1>1, <2>1, <2>3 DEF HolderKinds
  <2> QED BY <1>3, <2>2, <2>3
<1>4. ASSUME NEW w \in Workers, h = Local(w) PROVE p = q
  <2>1. \A r : PlaceAt(h, t, r) <=> \E i \in Positions(local[w], t) : r = <<"local", w, i>>
    BY <1>1, <1>4 DEF HolderKinds, PlaceAt
  <2> QED BY <1>2, <2>1 DEF QueuedOnce
<1>5. ASSUME NEW w \in Workers, h = Chan(w) PROVE p = q
  <2>1. \A r : PlaceAt(h, t, r) <=> \E i \in Positions(chan[w], t) : r = <<"chan", w, i>>
    BY <1>1, <1>5 DEF HolderKinds, PlaceAt
  <2> QED BY <1>2, <2>1 DEF QueuedOnce
<1>6. ASSUME NEW w \in Workers, h = Worker(w) PROVE p = q
  BY <1>1, <1>6 DEF HolderKinds, PlaceAt
<1> QED BY <1>1, <1>3, <1>4, <1>5, <1>6 DEF HolderKinds

(* A wrapper is never in two places (pool.go:1075).                        *)
THEOREM WrappersHaveOneHolder == Spec => []OneHolder
<1>1. PoolInv => OneHolder
  <2> SUFFICES ASSUME PoolInv, NEW t \in Tasks PROVE Cardinality(Places(t)) <= 1
    BY DEF OneHolder
  <2>1. HeldByKind
    BY HeldIs DEF PoolInv
  <2>2. ASSUME NEW p \in Places(t), NEW q \in Places(t) PROVE p = q
    <3>1. PICK g \in Holders : PlaceAt(g, t, p)
      BY PlacesAreHolders
    <3>2. PICK h \in Holders : PlaceAt(h, t, q)
      BY PlacesAreHolders
    <3>3. t \in held[g] /\ t \in held[h]
      BY <2>1, <3>1, <3>2, HolderHasPlace
    <3>4. g = h
      BY <3>3 DEF PoolInv, Ownership, Apart
    <3> QED BY <3>1, <3>2, <3>4, OnePlaceEach DEF PoolInv
  <2>3. CASE Places(t) = {}
    BY <2>3, FS_EmptySet
  <2>4. CASE Places(t) # {}
    <3>1. PICK p : p \in Places(t)
      BY <2>4
    <3>2. Places(t) = {p}
      BY <2>2, <3>1
    <3>3. Cardinality({p}) = 1
      BY FS_Singleton
    <3> QED BY <3>2, <3>3
  <2> QED BY <2>3, <2>4
<1> QED BY <1>1, PoolCorrect, PTL
-----------------------------------------------------------------------------
(* Refinement: the pool implements TaskLedger.                             *)

(* Someone still has the task, or the loop has lost it.                    *)
InHands(t) == (\E h \in Holders : t \in held[h]) \/ t \in dropped

(* A worker that is at label l has the task.                               *)
At(t, l) == \E w \in Workers : current[w] = t /\ wpc[w] = l

(* Status, read off the holders.                                           *)
StatusByStage ==
    \A t \in Tasks :
       /\ pc[t] = "new" => Status(t) = "new"
       /\ pc[t] = "refused" => Status(t) = "refused"
       /\ pc[t] \notin {"new", "refused", "done"} => Status(t) = "offered"
       /\ pc[t] = "done" =>
          /\ At(t, "execute") => Status(t) = "running"
          /\ At(t, "report") /\ ~At(t, "execute") => Status(t) = "ran"
          /\ ~At(t, "execute") /\ ~At(t, "report") =>
                Status(t) = IF t \in started THEN "reported"
                            ELSE IF InHands(t) THEN "accepted"
                            ELSE "discarded"

(* A task has a place exactly if someone holds it.                         *)
LEMMA PlacedIsHeld ==
    ASSUME HeldByKind, NEW t \in Tasks
    PROVE  Places(t) # {} <=> \E h \in Holders : t \in held[h]
<1>1. Places(t) # {} <=> \E p : \E h \in Holders : PlaceAt(h, t, p)
  BY PlacesAreHolders, Zenon
<1>2. \A h \in Holders : t \in held[h] <=> \E p : PlaceAt(h, t, p)
  BY HolderHasPlace
<1> QED BY <1>1, <1>2, Zenon

(* No two workers have the same task.                                      *)
LEMMA OneWorkerEach ==
    ASSUME PoolInv, NEW v \in Workers, NEW w \in Workers,
           current[v] \in Tasks, current[v] = current[w]
    PROVE  v = w
<1>1. /\ held[Worker(v)] = {current[v]} \ {None}
      /\ held[Worker(w)] = {current[w]} \ {None}
  BY HeldIs DEF HeldByKind, PoolInv
<1>2. /\ Worker(v) \in Holders /\ Worker(w) \in Holders
      /\ v # w => Worker(v) # Worker(w)
  BY HoldersDiffer DEF HolderKinds
<1>3. Worker(v) # Worker(w) => held[Worker(v)] \cap held[Worker(w)] = {}
  BY <1>2 DEF PoolInv, Ownership, Apart
<1> QED BY <1>1, <1>2, <1>3, PoolAssumption

(* What Status says of a task, from who holds it.                          *)
LEMMA StatusIs == PoolInv => StatusByStage
<1> SUFFICES ASSUME PoolInv, NEW t \in Tasks
             PROVE  /\ pc[t] = "new" => Status(t) = "new"
                    /\ pc[t] = "refused" => Status(t) = "refused"
                    /\ pc[t] \notin {"new", "refused", "done"} => Status(t) = "offered"
                    /\ pc[t] = "done" =>
                       /\ At(t, "execute") => Status(t) = "running"
                       /\ At(t, "report") /\ ~At(t, "execute") => Status(t) = "ran"
                       /\ ~At(t, "execute") /\ ~At(t, "report") =>
                             Status(t) = IF t \in started THEN "reported"
                                         ELSE IF InHands(t) THEN "accepted"
                                         ELSE "discarded"
  BY DEF StatusByStage
<1> DEFINE doing == {wpc[w] : w \in {v \in Workers : current[v] = t}}
<1>1. /\ "execute" \in doing <=> At(t, "execute")
      /\ "report" \in doing <=> At(t, "report")
  BY DEF At
<1>2. Places(t) # {} \/ t \in dropped <=> InHands(t)
  BY PlacedIsHeld, HeldIs DEF InHands, PoolInv
<1>3. pc[t] \in {"new", "refused"} \/ pc[t] \notin {"new", "refused", "done"} =>
         /\ pc[t] = "new" => Status(t) = "new"
         /\ pc[t] = "refused" => Status(t) = "refused"
         /\ pc[t] \notin {"new", "refused", "done"} => Status(t) = "offered"
  BY DEF Status
<1>4. ASSUME pc[t] = "done"
      PROVE  Status(t) =
               CASE "execute" \in doing -> "running"
                 [] "report" \in doing -> "ran"
                 [] t \in started /\ doing \cap {"execute", "report"} = {} -> "reported"
                 [] t \notin started /\ (Places(t) # {} \/ t \in dropped) -> "accepted"
                 [] OTHER -> "discarded"
  BY <1>4 DEF Status
<1>5. ~(At(t, "execute") /\ At(t, "report"))
  BY OneWorkerEach DEF At
<1> HIDE DEF doing
<1>6. doing \cap {"execute", "report"} = {} <=> ~At(t, "execute") /\ ~At(t, "report")
  BY <1>1
<1>7. ASSUME pc[t] = "done", At(t, "execute") PROVE Status(t) = "running"
  <2>1. /\ "execute" \in doing /\ ~("report" \in doing)
        /\ doing \cap {"execute", "report"} # {}
    BY <1>1, <1>5, <1>7
  <2>2. t \in started
    BY <1>7 DEF PoolInv, Ownership, ExecutingIsStarted, At
  <2> QED BY <1>4, <1>7, <2>1, <2>2
<1>8. ASSUME pc[t] = "done", At(t, "report"), ~At(t, "execute")
      PROVE  Status(t) = "ran"
  <2>1. /\ "report" \in doing /\ ~("execute" \in doing)
        /\ doing \cap {"execute", "report"} # {}
    BY <1>1, <1>8
  <2>2. t \in started
    BY <1>8 DEF PoolInv, Ownership, ExecutingIsStarted, At
  <2> QED BY <1>4, <1>8, <2>1, <2>2
<1>9. ASSUME pc[t] = "done", ~At(t, "report"), ~At(t, "execute")
      PROVE  Status(t) = IF t \in started THEN "reported"
                         ELSE IF InHands(t) THEN "accepted"
                         ELSE "discarded"
  <2>1. /\ ~("report" \in doing) /\ ~("execute" \in doing)
        /\ doing \cap {"execute", "report"} = {}
    BY <1>1, <1>6, <1>9
  <2>2. CASE t \in started
    BY <1>4, <1>9, <2>1, <2>2
  <2>3. CASE t \notin started /\ InHands(t)
    BY <1>2, <1>4, <1>9, <2>1, <2>3
  <2>4. CASE t \notin started /\ ~InHands(t)
    BY <1>2, <1>4, <1>9, <2>1, <2>4
  <2> QED BY <2>2, <2>3, <2>4
<1> QED BY <1>3, <1>7, <1>8, <1>9

(* After a step the same holds of the new state.                           *)
LEMMA StatusIsNext == PoolInv' => StatusByStage'
BY StatusIs, PTL
-----------------------------------------------------------------------------
(* A task's status stays if its caller's place outside the pool does, or   *)
(* the caller is done with it and nothing that counts has changed.         *)
LEMMA StatusKept ==
    ASSUME PoolInv, PoolInv', NEW t \in Tasks,
           \/ {pc[t], pc'[t]} \cap {"new", "refused", "done"} = {}
           \/ /\ pc'[t] = pc[t]
              /\ At(t, "execute")' <=> At(t, "execute")
              /\ At(t, "report")' <=> At(t, "report")
              /\ t \in started' <=> t \in started
              /\ t \in started \/ (InHands(t)' <=> InHands(t))
    PROVE  Status(t)' = Status(t)
<1>1. StatusByStage /\ StatusByStage'
  BY StatusIs, StatusIsNext
<1>2. pc[t] \in CallerLabels
  BY DEF PoolInv, TypeInv, TypeOK
<1> HIDE DEF At, InHands, Status
<1>3. CASE {pc[t], pc'[t]} \cap {"new", "refused", "done"} = {}
  <2>1. Status(t) = "offered"
    BY <1>1, <1>3 DEF StatusByStage
  <2>2. Status(t)' = "offered"
    BY <1>1, <1>3 DEF StatusByStage
  <2> QED BY <2>1, <2>2
<1>4. CASE /\ pc'[t] = pc[t]
           /\ At(t, "execute")' <=> At(t, "execute")
           /\ At(t, "report")' <=> At(t, "report")
           /\ t \in started' <=> t \in started
           /\ t \in started \/ (InHands(t)' <=> InHands(t))
  BY <1>1, <1>4 DEF StatusByStage
<1> QED BY <1>3, <1>4

(* A step that leaves every status and the Futures alone is a stutter.     *)
LEMMA LedgerStutters ==
    ASSUME \A t \in Tasks : Status(t)' = Status(t), UNCHANGED <<state, future>>
    PROVE  UNCHANGED Ledger!ledgerVars
<1> HIDE DEF Status
<1> QED BY DEF Ledger!ledgerVars

(* A step that changes the status of one task.                             *)
LEMMA LedgerMoves ==
    ASSUME NEW t \in Tasks, NEW a, NEW b, Status(t) = a, Status(t)' = b,
           \A u \in Tasks \ {t} : Status(u)' = Status(u)
    PROVE  Ledger!Becomes(t, a, b)
<1> HIDE DEF Status
<1> QED BY DEF Ledger!Becomes

(* The caller's own steps: its task is offered, or refused, or it cancels. *)
LEMMA CallerRefines ==
    ASSUME PoolInv, PoolInv', NEW t \in Tasks,
           SubmitAsync(t) \/ Submit(t) \/ Schedule(t) \/ Wrap(t) \/ Fail(t) \/ Cancel(t)
    PROVE  [Ledger!Next]_Ledger!ledgerVars
<1> USE DEF PoolInv
<1>1. /\ UNCHANGED callUnchanged
      /\ \A r \in Senders \ {t} : pc'[r] = pc[r]
      /\ \/ Still
         \/ Wrap(t) /\ Handed(t, Caller)
  BY CallerTransfers DEF Ownership
<1>2. UNCHANGED <<state, current, wpc, started, dropped>>
  BY <1>1 DEF callUnchanged, closeVars, workVars
<1>3. StatusByStage /\ StatusByStage' /\ pc \in [Senders -> CallerLabels \cup LoopLabels]
      /\ t \in Senders
  BY StatusIs, StatusIsNext DEF TypeInv, TypeOK, Senders
<1>4. ASSUME NEW u \in Tasks, pc'[u] = pc[u], u # t \/ Still
      PROVE  Status(u)' = Status(u)
  <2>1. \A h \in Holders : u \in held'[h] <=> u \in held[h]
    BY <1>1, <1>4 DEF Still, Handed
  <2>2. InHands(u)' <=> InHands(u)
    BY <1>2, <2>1 DEF InHands
  <2> QED BY <1>2, <1>4, <2>2, StatusKept DEF At
<1>5. \A u \in Tasks \ {t} : Status(u)' = Status(u)
  BY <1>1, <1>4 DEF Senders
<1> HIDE DEF PoolInv
<1>6. CASE SubmitAsync(t)
  <2>1. pc[t] = "new" /\ pc'[t] \in {"check", "failing"} /\ future' = future
    BY <1>3, <1>6 DEF SubmitAsync, Step
  <2>2. Status(t) = "new" /\ Status(t)' = "offered"
    BY <1>3, <2>1 DEF StatusByStage
  <2>3. Ledger!Becomes(t, "new", "offered")
    BY <1>5, <2>2, LedgerMoves
  <2> QED BY <1>2, <2>1, <2>3 DEF Ledger!Next, Ledger!Offer
<1>7. CASE Submit(t) \/ Schedule(t) \/ Wrap(t)
  <2>1. /\ {pc[t], pc'[t]} \cap {"new", "refused", "done"} = {}
        /\ future' = future
    BY <1>3, <1>7 DEF Submit, Schedule, Wrap, Step
  <2>2. Status(t)' = Status(t)
    BY <2>1, StatusKept
  <2> QED BY <1>2, <1>5, <2>1, <2>2, LedgerStutters
<1>8. CASE Fail(t)
  <2>1. pc[t] = "failing" /\ pc'[t] = "refused" /\ SetResult(t, "refused")
    BY <1>3, <1>8 DEF Fail, Step
  <2>2. Status(t) = "offered" /\ Status(t)' = "refused"
    BY <1>3, <2>1 DEF StatusByStage
  <2>3. Ledger!Becomes(t, "offered", "refused")
    BY <1>5, <2>2, LedgerMoves
  <2> QED BY <1>2, <2>1, <2>3 DEF Ledger!Next, Ledger!Refuse, Ledger!Settle, SetResult
<1>9. CASE Cancel(t)
  <2>1. pc[t] \in {"failing", "refused", "done"} /\ pc' = pc /\ SetResult(t, "cancelled")
    BY <1>9 DEF Cancel
  <2>2. Still
    BY <1>1, <1>3, <2>1 DEF Wrap, Step
  <2>3. \A u \in Tasks : Status(u)' = Status(u)
    BY <1>4, <2>1, <2>2
  <2>4. Status(t) # "new"
    BY <1>3, <2>1 DEF StatusByStage
  <2> HIDE DEF Status
  <2>5. [u \in Tasks |-> Status(u)]' = [u \in Tasks |-> Status(u)]
    BY <2>3
  <2>6. Ledger!Cancel(t)
    BY <1>2, <2>1, <2>4, <2>5 DEF Ledger!Cancel, Ledger!Settle, SetResult
  <2> QED BY <2>6 DEF Ledger!Next
<1> QED BY <1>6, <1>7, <1>8, <1>9
(* A sender's step: a caller whose task is delivered has it accepted; what *)
(* the loop does to a task, losing it included, does not change what the   *)
(* ledger says of it.                                                      *)
LEMMA SendRefines ==
    ASSUME PoolInv, PoolInv', NEW s \in Senders, SendStep(s)
    PROVE  [Ledger!Next]_Ledger!ledgerVars
<1>1. /\ UNCHANGED <<workVars, stopVars, schedVars, closeVars, future>>
      /\ pc[s] \in Sending /\ \A r \in Senders \ {s} : pc'[r] = pc[r]
      /\ \/ Still /\ pc'[s] \in Sending /\ dropped' = dropped
         \/ /\ \E b \in Holders \ {Loop, Caller} : Handed(Cargo(s), b)
            /\ dropped' = dropped
            /\ s # Dispatcher => pc'[s] = "done"
         \/ /\ Freed(Cargo(s))
            /\ dropped' = IF s = Dispatcher THEN dropped \cup {inHand} ELSE dropped
            /\ s # Dispatcher => pc'[s] = "failing"
  BY SendTransfers DEF PoolInv, Ownership
<1>2. UNCHANGED <<state, future, current, wpc, started>>
  BY <1>1 DEF closeVars, workVars
<1>3. /\ SenderHolder(s) \in Holders /\ Cargo(s) \in held[SenderHolder(s)]
      /\ Cargo(s) \in Tasks
  BY <1>1, SenderHolds, HeldIs DEF PoolInv
<1> PICK c \in Tasks : c = Cargo(s)
  BY <1>3
<1>4. \A h \in Holders : \A u \in Tasks \ {c} : u \in held'[h] <=> u \in held[h]
  BY <1>1 DEF Still, Handed, Freed
<1>5. \A u \in Tasks \ {c} : u \in dropped' <=> u \in dropped
  BY <1>1 DEF Cargo
<1>6. \A u \in Tasks \ {c} : InHands(u)' <=> InHands(u)
  BY <1>4, <1>5 DEF InHands
<1>7. ASSUME NEW u \in Tasks, pc'[u] = pc[u], InHands(u)' <=> InHands(u)
      PROVE  Status(u)' = Status(u)
  BY <1>2, <1>7, StatusKept DEF At
<1>8. \A u \in Tasks \ {s} : pc'[u] = pc[u]
  BY <1>1 DEF Senders
<1>9. CASE s = Dispatcher
  <2>1. InHands(c)
    BY <1>3 DEF InHands
  <2>2. InHands(c)'
    <3>1. CASE Still
      BY <1>3, <3>1 DEF InHands, Still
    <3>2. ASSUME NEW b \in Holders, Handed(Cargo(s), b) PROVE InHands(c)'
      BY <3>2 DEF InHands, Handed
    <3>3. CASE dropped' = dropped \cup {inHand}
      BY <1>9, <3>3 DEF InHands, Cargo
    <3> QED BY <1>1, <1>9, <3>1, <3>2, <3>3
  <2>3. \A u \in Tasks : pc'[u] = pc[u]
    BY <1>8, <1>9, PoolAssumption
  <2>4. \A u \in Tasks : Status(u)' = Status(u)
    BY <1>6, <1>7, <2>1, <2>2, <2>3
  <2> QED BY <1>2, <2>4, LedgerStutters
<1>10. CASE s # Dispatcher
  <2>1. Cargo(s) = s /\ s \in Tasks
    BY <1>10 DEF Cargo, Senders
  <2>2. \A u \in Tasks \ {s} : Status(u)' = Status(u)
    BY <1>6, <1>7, <1>8, <2>1
  <2>3. CASE pc'[s] \in Sending \cup {"failing"}
    <3>1. {pc[s], pc'[s]} \cap {"new", "refused", "done"} = {}
      BY <1>1, <2>3 DEF Sending
    <3>2. Status(s)' = Status(s)
      BY <2>1, <3>1, StatusKept
    <3> QED BY <1>2, <2>2, <3>2, LedgerStutters
  <2>4. CASE ~(pc'[s] \in Sending \cup {"failing"})
    <3>1. /\ pc[s] \notin {"new", "refused", "done"} /\ pc'[s] = "done"
          /\ \E b \in Holders : Handed(s, b)
      BY <1>1, <1>10, <2>1, <2>4 DEF Sending
    <3>2. s \notin started /\ InHands(s)'
      BY <2>1, <3>1 DEF PoolInv, Ownership, CallerOwns, InHands, Handed
    <3>3. ~At(s, "execute")' /\ ~At(s, "report")'
      BY <1>2, <3>2 DEF At, PoolInv, Ownership, ExecutingIsStarted
    <3>4. Status(s) = "offered" /\ Status(s)' = "accepted"
      <4>1. StatusByStage /\ StatusByStage'
        BY StatusIs, StatusIsNext
      <4> HIDE DEF Status, InHands, At
      <4> QED BY <1>2, <2>1, <3>1, <3>2, <3>3, <4>1 DEF StatusByStage
    <3>5. Ledger!Becomes(s, "offered", "accepted")
      BY <2>1, <2>2, <3>4, LedgerMoves
    <3> QED BY <1>2, <2>1, <3>5 DEF Ledger!Next, Ledger!Accept
  <2> QED BY <2>3, <2>4
<1> QED BY <1>9, <1>10

(* The loop's own steps are not seen in the ledger.                        *)
LEMMA LoopRefines ==
    ASSUME PoolInv, PoolInv', Tick \/ Dequeue \/ LoopExit
    PROVE  UNCHANGED Ledger!ledgerVars
<1>1. /\ UNCHANGED loopUnchanged /\ \A t \in Tasks : pc'[t] = pc[t]
      /\ \/ Still
         \/ \E t \in held[Queue] : Handed(t, Loop)
  BY LoopTransfers DEF PoolInv, Ownership
<1>2. UNCHANGED <<state, future, current, wpc, started, dropped>>
  BY <1>1 DEF loopUnchanged, closeVars, workVars
<1>3. Queue \in Holders /\ Loop \in Holders
  BY HoldersDiffer DEF HolderKinds
<1>4. ASSUME NEW u \in Tasks PROVE InHands(u)' <=> InHands(u)
  <2>1. (\E h \in Holders : u \in held'[h]) <=> \E h \in Holders : u \in held[h]
    BY <1>1, <1>3 DEF Still, Handed
  <2> QED BY <1>2, <2>1 DEF InHands
<1>5. \A u \in Tasks : Status(u)' = Status(u)
  BY <1>1, <1>2, <1>4, StatusKept DEF At
<1> QED BY <1>2, <1>5, LedgerStutters
(* The task a worker executes, or reports, is started and its caller done. *)
LEMMA ExecutingTask ==
    ASSUME PoolInv, NEW w \in Workers, wpc[w] \in {"begin", "execute", "report"}
    PROVE  /\ current[w] \in Tasks /\ pc[current[w]] = "done"
           /\ InHands(current[w])
           /\ \A v \in Workers : current[v] = current[w] => v = w
           /\ current[w] \in started <=> wpc[w] # "begin"
<1>1. current[w] \in Tasks
  BY DEF PoolInv, TypeInv, TypeOK
<1>2. current[w] \in held[Worker(w)] /\ Worker(w) \in Holders /\ Worker(w) # Caller
  <2>1. held[Worker(w)] = {current[w]} \ {None}
    BY HeldIs DEF PoolInv, HeldByKind
  <2>2. Worker(w) \in Holders /\ Worker(w) # Caller
    BY HoldersDiffer DEF HolderKinds
  <2> QED BY <1>1, <2>1, <2>2, PoolAssumption
<1>3. pc[current[w]] = "done"
  BY <1>1, <1>2 DEF PoolInv, Ownership, CallerOwns
<1>4. \A v \in Workers : current[v] = current[w] => v = w
  BY <1>1, OneWorkerEach
<1>5. current[w] \in started <=> wpc[w] # "begin"
  <2>1. wpc[w] # "begin" => current[w] \in started
    BY DEF PoolInv, Ownership, ExecutingIsStarted
  <2>2. ASSUME wpc[w] = "begin" PROVE current[w] \notin started
    <3>1. \A v \in Workers : Worker(w) = Worker(v) => v = w
      BY HoldersDiffer DEF HolderKinds
    <3> QED BY <1>2, <2>2, <3>1 DEF PoolInv, Ownership, StartedIsHeldByWorker
  <2> QED BY <2>1, <2>2
<1> QED BY <1>1, <1>2, <1>3, <1>4, <1>5 DEF InHands

(* A task taken from a queue, and given up, is discarded.                  *)
LEMMA FreedIsDiscarded ==
    ASSUME PoolInv, PoolInv', NEW h \in Holders, NEW t \in held[h], Freed(t),
           h # Caller, \A w \in Workers : h # Worker(w),
           UNCHANGED <<pc, current, wpc, started, dropped, state>>,
           state # "running", SetResult(t, "closed")
    PROVE  t \in Tasks /\ Ledger!Discard(t)
<1>1. t \in Tasks
  BY HeldIs DEF PoolInv, HeldByKind
<1>2. pc[t] = "done" /\ t \notin started /\ t \notin dropped /\ InHands(t)
  <2>1. t \notin started /\ t \notin dropped
    BY HeldIsFresh DEF PoolInv
  <2> QED BY <1>1, <2>1 DEF PoolInv, Ownership, CallerOwns, InHands
<1>3. ~InHands(t)'
  BY <1>2 DEF InHands, Freed
<1>4. ~At(t, "execute") /\ ~At(t, "report")
  BY <1>2 DEF At, PoolInv, Ownership, ExecutingIsStarted
<1>5. ~At(t, "execute")' /\ ~At(t, "report")'
  BY <1>4 DEF At
<1>6. Status(t) = "accepted" /\ Status(t)' = "discarded"
  <2>1. StatusByStage /\ StatusByStage'
    BY StatusIs, StatusIsNext
  <2> HIDE DEF Status, InHands, At
  <2> QED BY <1>1, <1>2, <1>3, <1>4, <1>5, <2>1 DEF StatusByStage
<1>7. ASSUME NEW u \in Tasks \ {t} PROVE Status(u)' = Status(u)
  <2>1. InHands(u)' <=> InHands(u)
    BY DEF InHands, Freed
  <2> QED BY <2>1, StatusKept DEF At
<1>8. Ledger!Becomes(t, "accepted", "discarded")
  BY <1>1, <1>6, <1>7, LedgerMoves
<1> QED BY <1>1, <1>8 DEF Ledger!Discard, Ledger!Settle, SetResult

(* A worker's step: it starts, ends, reports or discards a task.           *)
LEMMA WorkerRefines ==
    ASSUME PoolInv, PoolInv', NEW w \in Workers, WorkerStep(w)
    PROVE  [Ledger!Next]_Ledger!ledgerVars
<1>1. /\ UNCHANGED workUnchanged
      /\ \A v \in Workers \ {w} : wpc'[v] = wpc[v] /\ current'[v] = current[v]
      /\ \/ /\ Still /\ UNCHANGED <<current, started, future>>
            /\ {wpc[w], wpc'[w]} \cap {"execute", "report"} = {}
         \/ /\ \E t \in held[Local(w)] \cup held[Chan(w)] :
                  Handed(t, Worker(w)) /\ current'[w] = t
            /\ UNCHANGED <<started, future>>
            /\ {wpc[w], wpc'[w]} \cap {"execute", "report"} = {}
         \/ Still /\ (ExecuteTask(w) \/ TaskReturns(w))
         \/ Freed(current[w]) /\ ReportResult(w)
         \/ /\ \E t \in held[Local(w)] \cup held[Chan(w)] :
                  Freed(t) /\ SetResult(t, "closed")
            /\ UNCHANGED <<wpc, current, started>>
            /\ Gone(w)
  BY WorkerTransfers DEF PoolInv, Ownership
<1>2. UNCHANGED <<pc, dropped, state, hpc>>
  BY <1>1 DEF workUnchanged, sendVars, closeVars
<1>3. HolderKinds /\ StatusByStage /\ StatusByStage'
  BY HoldersDiffer, StatusIs, StatusIsNext
<1>4. ASSUME NEW u \in Tasks, u \in started' <=> u \in started,
             u \in started \/ (InHands(u)' <=> InHands(u)),
             \A l \in {"execute", "report"} : At(u, l)' <=> At(u, l)
      PROVE  Status(u)' = Status(u)
  BY <1>2, <1>4, StatusKept
<1>5. ASSUME NEW u, Still PROVE InHands(u)' <=> InHands(u)
  BY <1>2, <1>5 DEF InHands, Still
<1>6. ASSUME {wpc[w], wpc'[w]} \cap {"execute", "report"} = {},
             NEW u, NEW l \in {"execute", "report"}
      PROVE  At(u, l)' <=> At(u, l)
  BY <1>1, <1>6 DEF At
<1>7. CASE /\ Still /\ UNCHANGED <<current, started, future>>
           /\ {wpc[w], wpc'[w]} \cap {"execute", "report"} = {}
  <2>1. \A u \in Tasks : Status(u)' = Status(u)
    BY <1>4, <1>5, <1>6, <1>7
  <2> QED BY <1>2, <1>7, <2>1, LedgerStutters
<1>8. ASSUME NEW t \in held[Local(w)] \cup held[Chan(w)], Handed(t, Worker(w)),
             UNCHANGED <<started, future>>,
             {wpc[w], wpc'[w]} \cap {"execute", "report"} = {}
      PROVE  [Ledger!Next]_Ledger!ledgerVars
  <2>1. ASSUME NEW u \in Tasks PROVE InHands(u)' <=> InHands(u)
    <3>1. Local(w) \in Holders /\ Chan(w) \in Holders /\ Worker(w) \in Holders
      BY <1>3 DEF HolderKinds
    <3>2. (\E h \in Holders : u \in held'[h]) <=> \E h \in Holders : u \in held[h]
      BY <1>8, <3>1 DEF Handed
    <3> QED BY <1>2, <3>2 DEF InHands
  <2>2. \A u \in Tasks : Status(u)' = Status(u)
    BY <1>4, <1>6, <1>8, <2>1
  <2> QED BY <1>2, <1>8, <2>2, LedgerStutters
<1>9. CASE Still /\ ExecuteTask(w)
  <2>1. /\ wpc[w] = "begin" /\ wpc'[w] = "execute" /\ UNCHANGED <<current, future>>
        /\ started' = started \cup {current[w]}
    BY <1>9 DEF ExecuteTask, WStep, PoolInv, TypeInv, TypeOK
  <2> PICK t \in Tasks : t = current[w]
    BY <2>1, ExecutingTask
  <2>2. /\ pc[t] = "done" /\ InHands(t) /\ t \notin started
        /\ \A v \in Workers : current[v] = t => v = w
    BY <2>1, ExecutingTask
  <2>3. ~At(t, "execute") /\ ~At(t, "report") /\ At(t, "execute")'
    BY <2>1, <2>2 DEF At
  <2>4. Status(t) = "accepted" /\ Status(t)' = "running"
    <3> HIDE DEF Status, InHands, At
    <3> QED BY <1>2, <1>3, <2>2, <2>3 DEF StatusByStage
  <2>5. ASSUME NEW u \in Tasks \ {t} PROVE Status(u)' = Status(u)
    <3>1. \A l : At(u, l)' <=> At(u, l)
      BY <1>1, <2>1, <2>2 DEF At
    <3> QED BY <1>4, <1>5, <1>9, <2>1, <3>1
  <2>6. state # "closed"
    <3>1. ~Gone(w)
      BY <2>1 DEF Gone
    <3> QED BY <3>1 DEF PoolInv, ShutdownOrder
  <2>7. Ledger!Becomes(t, "accepted", "running")
    BY <2>4, <2>5, LedgerMoves
  <2> QED BY <1>2, <2>1, <2>6, <2>7 DEF Ledger!Next, Ledger!Start
<1>10. CASE Still /\ TaskReturns(w)
  <2>1. /\ wpc[w] = "execute" /\ wpc'[w] = "report"
        /\ UNCHANGED <<current, started, future>>
    BY <1>10 DEF TaskReturns, WStep, PoolInv, TypeInv, TypeOK
  <2> PICK t \in Tasks : t = current[w]
    BY <2>1, ExecutingTask
  <2>2. pc[t] = "done" /\ \A v \in Workers : current[v] = t => v = w
    BY <2>1, ExecutingTask
  <2>3. At(t, "execute") /\ At(t, "report")' /\ ~At(t, "execute")'
    BY <2>1, <2>2 DEF At
  <2>4. Status(t) = "running" /\ Status(t)' = "ran"
    <3> HIDE DEF Status, InHands, At
    <3> QED BY <1>2, <1>3, <2>2, <2>3 DEF StatusByStage
  <2>5. ASSUME NEW u \in Tasks \ {t} PROVE Status(u)' = Status(u)
    <3>1. \A l : At(u, l)' <=> At(u, l)
      BY <1>1, <2>1, <2>2 DEF At
    <3> QED BY <1>4, <1>5, <1>10, <2>1, <3>1
  <2>6. Ledger!Becomes(t, "running", "ran")
    BY <2>4, <2>5, LedgerMoves
  <2> QED BY <1>2, <2>1, <2>6 DEF Ledger!Next, Ledger!Finish
<1>11. CASE Freed(current[w]) /\ ReportResult(w)
  <2>1. /\ wpc[w] = "report" /\ wpc'[w] = "loop" /\ started' = started
        /\ current'[w] = None /\ SetResult(current[w], "result")
    BY <1>11 DEF ReportResult, WStep, PoolInv, TypeInv, TypeOK
  <2> PICK t \in Tasks : t = current[w]
    BY <2>1, ExecutingTask
  <2>2. /\ pc[t] = "done" /\ t \in started /\ t # None
        /\ \A v \in Workers : current[v] = t => v = w
    BY <2>1, ExecutingTask, PoolAssumption
  <2>3. /\ At(t, "report") /\ ~At(t, "execute")
        /\ ~At(t, "report")' /\ ~At(t, "execute")'
    BY <1>1, <2>1, <2>2 DEF At
  <2>4. Status(t) = "ran" /\ Status(t)' = "reported"
    <3> HIDE DEF Status, InHands, At
    <3> QED BY <1>2, <1>3, <2>1, <2>2, <2>3 DEF StatusByStage
  <2>5. ASSUME NEW u \in Tasks \ {t} PROVE Status(u)' = Status(u)
    <3>1. \A l : At(u, l)' <=> At(u, l)
      BY <1>1, <2>1, PoolAssumption DEF At
    <3>2. InHands(u)' <=> InHands(u)
      BY <1>2, <1>11 DEF InHands, Freed
    <3> QED BY <1>4, <2>1, <3>1, <3>2
  <2>6. state # "closed"
    <3>1. ~Gone(w)
      BY <2>1 DEF Gone
    <3> QED BY <3>1 DEF PoolInv, ShutdownOrder
  <2>7. Ledger!Becomes(t, "ran", "reported")
    BY <2>4, <2>5, LedgerMoves
  <2> QED BY <1>2, <2>1, <2>6, <2>7 DEF Ledger!Next, Ledger!Report, Ledger!Settle, SetResult
<1>12. ASSUME NEW t \in held[Local(w)] \cup held[Chan(w)], Freed(t), SetResult(t, "closed"),
              UNCHANGED <<wpc, current, started>>, Gone(w)
       PROVE  [Ledger!Next]_Ledger!ledgerVars
  <2>1. PICK h \in {Local(w), Chan(w)} : t \in held[h]
    OBVIOUS
  <2>2. h \in Holders /\ h # Caller /\ \A v \in Workers : h # Worker(v)
    BY <1>3 DEF HolderKinds
  <2>3. state # "running"
    BY <1>12 DEF PoolInv, ShutdownOrder
  <2>4. t \in Tasks /\ Ledger!Discard(t)
    BY <1>2, <1>12, <2>1, <2>2, <2>3, FreedIsDiscarded
  <2> QED BY <2>4 DEF Ledger!Next
<1> QED BY <1>1, <1>7, <1>8, <1>9, <1>10, <1>11, <1>12
(* Shutdown closes the ledger's pool when no worker executes or reports.   *)
LEMMA ShutdownRefines ==
    ASSUME PoolInv, PoolInv',
           Shutdown \/ ShutdownStep \/ ExpireRunning \/ ExpireWaiting
    PROVE  [Ledger!Next]_Ledger!ledgerVars
<1>1. /\ UNCHANGED shutUnchanged
      /\ \/ Still /\ future' = future
         \/ /\ ClearPending /\ UNCHANGED <<state, hpc>>
            /\ hpc \in {"clear", "forceClear"}
            /\ \E t \in held[Queue] : Freed(t) /\ SetResult(t, "closed")
  BY ShutdownTransfers DEF PoolInv, Ownership
<1>2. UNCHANGED <<pc, current, wpc, started, dropped>>
  BY <1>1 DEF shutUnchanged, sendVars, workVars
<1>3. ASSUME NEW t \in held[Queue], Freed(t), SetResult(t, "closed"),
             UNCHANGED state, hpc \in {"clear", "forceClear"}
      PROVE  [Ledger!Next]_Ledger!ledgerVars
  <2>1. state # "running"
    BY <1>3 DEF PoolInv, ShutdownOrder
  <2>2. Queue \in Holders /\ Queue # Caller /\ \A w \in Workers : Queue # Worker(w)
    BY HoldersDiffer DEF HolderKinds
  <2>3. t \in Tasks /\ Ledger!Discard(t)
    BY <1>2, <1>3, <2>1, <2>2, FreedIsDiscarded
  <2> QED BY <2>3 DEF Ledger!Next
<1>4. ASSUME Still, future' = future PROVE [Ledger!Next]_Ledger!ledgerVars
  <2>1. ASSUME NEW u \in Tasks PROVE Status(u)' = Status(u)
    <3>1. InHands(u)' <=> InHands(u)
      BY <1>2, <1>4 DEF InHands, Still
    <3> QED BY <1>2, <3>1, StatusKept DEF At
  <2>2. [u \in Tasks |-> Status(u)]' = [u \in Tasks |-> Status(u)]
    <3> HIDE DEF Status
    <3> QED BY <2>1
  <2>3. CASE UNCHANGED state
    BY <1>4, <2>1, <2>3, LedgerStutters
  <2>4. CASE Shutdown
    <3>1. state = "running" /\ state' = "shutdown"
      BY <2>4 DEF Shutdown, HStep, PoolInv, ShutdownOrder
    <3> QED BY <1>4, <2>2, <3>1 DEF Ledger!Next, Ledger!Shutdown
  <2>5. CASE Close
    <3>1. /\ state = "shutdown" /\ state' = "closed"
          /\ \A w \in Workers : Gone(w)
      BY <2>5 DEF Close, HStep, PoolInv, ShutdownOrder
    <3>2. ASSUME NEW t \in Tasks PROVE Status(t) \notin {"running", "ran"}
      <4>1. ~At(t, "execute") /\ ~At(t, "report")
        BY <3>1 DEF At, Gone
      <4>2. StatusByStage
        BY StatusIs
      <4> HIDE DEF Status, InHands, At
      <4> QED BY <4>1, <4>2 DEF StatusByStage
    <3>3. Ledger!Close
      <4> HIDE DEF Status
      <4> QED BY <1>4, <2>2, <3>1, <3>2 DEF Ledger!Close
    <3> QED BY <3>3 DEF Ledger!Next
  <2>6. Shutdown \/ Close \/ UNCHANGED state
    BY DEF ShutdownStep, StopScheduler, WaitLoop, ScanWorker, StopWorker,
           CancelWorker, WorkersDone, ClearPending, ExpireRunning, ExpireWaiting
  <2> QED BY <2>3, <2>4, <2>5, <2>6
<1> QED BY <1>1, <1>3, <1>4

(* The pool implements TaskLedger, for every number of tasks and workers,  *)
(* every limit of the queues and every interleaving: a refused task never  *)
(* runs, an accepted one is executed at most once or discarded, its Future *)
(* is settled once, and nothing runs in a closed pool.                     *)
THEOREM PoolKeepsTheLedger == Spec => KeepsTheLedger
<1>1. Init => Ledger!Init
  <2> SUFFICES ASSUME Init PROVE Ledger!Init
    OBVIOUS
  <2>1. StatusByStage /\ \A t \in Tasks : pc[t] = "new"
    BY PoolInitially, TypeInitially, StatusIs, PoolAssumption DEF Init, Senders
  <2>2. \A t \in Tasks : Status(t) = "new"
    <3> HIDE DEF Status
    <3> QED BY <2>1 DEF StatusByStage
  <2> HIDE DEF Status
  <2> QED BY <2>2 DEF Init, Ledger!Init
<1>2. PoolInv /\ PoolInv' /\ [Next]_vars => [Ledger!Next]_Ledger!ledgerVars
  <2> SUFFICES ASSUME PoolInv, PoolInv', [Next]_vars
               PROVE  [Ledger!Next]_Ledger!ledgerVars
    OBVIOUS
  <2>1. ASSUME NEW t \in Tasks, SubmitAsync(t) \/ CallerStep(t) \/ Cancel(t)
        PROVE  [Ledger!Next]_Ledger!ledgerVars
    <3>1. CASE SendStep(t)
      BY <3>1, SendRefines DEF Senders
    <3>2. CASE ~SendStep(t)
      BY <2>1, <3>2, CallerRefines DEF CallerStep
    <3> QED BY <3>1, <3>2
  <2>2. CASE LoopStep
    <3>1. CASE SendStep(Dispatcher)
      BY <3>1, SendRefines DEF Senders
    <3>2. CASE ~SendStep(Dispatcher)
      BY <2>2, <3>2, LoopRefines DEF LoopStep
    <3> QED BY <3>1, <3>2
  <2>3. ASSUME NEW w \in Workers, WorkerStep(w)
        PROVE  [Ledger!Next]_Ledger!ledgerVars
    BY <2>3, WorkerRefines
  <2>4. CASE Shutdown \/ ShutdownStep \/ ExpireRunning \/ ExpireWaiting
    BY <2>4, ShutdownRefines
  <2>5. CASE UNCHANGED vars
    <3>1. UNCHANGED <<pc, started, dropped, current, wpc, queue, local, chan, inHand>>
      BY <2>5 DEF vars, sendVars, queueVars, roomVars, workVars
    <3>2. Still
      <4>1. HeldByKind /\ HeldByKind'
        BY HeldIs, HeldIsNext DEF PoolInv
      <4> QED BY <3>1, <4>1, KeptByKind, HoldersDiffer DEF HolderKinds, Still
    <3>3. ASSUME NEW u \in Tasks PROVE Status(u)' = Status(u)
      <4>1. InHands(u)' <=> InHands(u)
        BY <3>1, <3>2 DEF InHands, Still
      <4> QED BY <3>1, <4>1, StatusKept DEF At
    <3> QED BY <2>5, <3>3, LedgerStutters DEF vars, closeVars
  <2> QED BY <2>1, <2>2, <2>3, <2>4, <2>5 DEF Next, Terminated
<1> QED BY <1>1, <1>2, PoolCorrect, PTL DEF Spec, KeepsTheLedger, Ledger!Spec
=============================================================================
