-------------------------- MODULE SchedulerProofs --------------------------
(***************************************************************************)
(* Proofs about Scheduler and Worker for every number of tasks, workers    *)
(* and levels, every limit of the queues and every scenario: the types,    *)
(* one holder for every wrapper, and that they implement TaskLedger.       *)
(*                                                                         *)
(* As in PoolProofs the argument speaks of holders (a queue, a channel, a  *)
(* run or a loop that has a task in hand, a caller) and of the tasks held  *)
(* by each.  Here all steps are first reduced to twelve effects on them;   *)
(* the invariant and the refinement are proved from the effects.           *)
(***************************************************************************)
EXTENDS Scheduler, FiniteSetTheorems, SequenceTheorems, TLAPS
-----------------------------------------------------------------------------
(* The types of the variables, part by part.                               *)

RoomsTyped ==
    /\ queue \in Seq(Tasks) /\ Len(queue) <= QueueLimit
    /\ levelQueue \in [Levels -> Seq(Tasks)]
    /\ \A l \in Levels : Len(levelQueue[l]) <= LevelLimit
    /\ local \in [Workers -> Seq(Tasks)] /\ chan \in [Workers -> Seq(Tasks)]
    /\ \A w \in Workers : Len(local[w]) <= LocalLimit /\ Len(chan[w]) <= 1

(* A worker that was restarted n times is at its run n + 1, or at run n    *)
(* that recovers and may still start the next one; all later runs are      *)
(* still to come.                                                          *)
RunInOrder(r) ==
    /\ r[2] > restartCount[r[1]] + 1 => wpc[r] = "none"
    /\ r[2] <= restartCount[r[1]] => wpc[r] # "none"
    /\ wpc[r] \in {"loop", "choose", "pop", "execute", "report"} =>
          r[2] = restartCount[r[1]] + 1
    /\ wpc[r] \in {"recover", "backoff"} =>
          /\ r[2] = restartCount[r[1]]
          /\ r[2] < MaxRestarts => wpc[<<r[1], r[2] + 1>>] = "none"
    /\ wpc[r] = "backoff" => r[2] < MaxRestarts

RunTyped(r) ==
    /\ wpc[r] \in {"execute", "report"} <=> current[r] # None
    /\ RunInOrder(r)

RunsTyped ==
    /\ isRunning \in [Workers -> BOOLEAN] /\ cancelled \in [Workers -> BOOLEAN]
    /\ taskCount \in [Workers -> Nat]
    /\ restartCount \in [Workers -> 0 .. MaxRestarts]
    /\ wpc \in [Runs -> RunLabels] /\ current \in [Runs -> Tasks \cup {None}]
    /\ \A r \in Runs : RunTyped(r)

ResultsTyped ==
    /\ future \in [Tasks -> {"pending", "result", "closed"}]
    /\ started \subseteq Tasks /\ unanswered \subseteq Tasks
    /\ dropped \subseteq Tasks

(* When the scheduler has stopped its loops have ended.                    *)
LifeTyped ==
    /\ accepting \in BOOLEAN /\ schedDone \in BOOLEAN /\ waiting \in BOOLEAN
    /\ starts \in 1 .. MaxStarts
    /\ ~accepting /\ ~waiting => \A s \in Loops : pc[s] = "exited"

Sending == {"select", "local", "chan", "level", "global"}

(* No loop takes all the steps of LoopLabels.                              *)
LabelsOf(s) ==
    IF s \in Tasks THEN TaskLabels
    ELSE IF s = GlobalLoop
         THEN {"wait", "dequeue", "select", "local", "chan", "global", "exited"}
    ELSE IF s = PriorityLoop
         THEN {"wait", "dequeue", "nextLevel", "select", "local", "chan", "level",
               "exited"}
    ELSE {"wait", "scan", "steal", "local", "chan", "global", "exited"}

Batch(s) == IF s = GlobalLoop THEN GlobalBatch
            ELSE IF s = PriorityLoop THEN BatchAt[level] ELSE 1

(* A loop that carries a task has moved less than its batch.               *)
LoopTyped(s) ==
    /\ inHand[s] # None <=> pc[s] \in Sending
    /\ moved[s] <= Batch(s)
    /\ pc[s] \in Sending => moved[s] < Batch(s)
    /\ pc[s] \notin Sending \cup {"dequeue"} => moved[s] = 0

SenderTyped(s) ==
    /\ pc[s] \in LabelsOf(s)
    /\ pc[s] \in {"local", "chan"} <=> target[s] # 0
    /\ s \in Loops => LoopTyped(s)

SendTyped ==
    /\ pc \in [Senders -> TaskLabels \cup LoopLabels]
    /\ target \in [Senders -> {0} \cup Workers]
    /\ inHand \in [Loops -> Tasks \cup {None}]
    /\ moved \in [Loops -> Nat]
    /\ level \in Levels
    /\ overtaken \subseteq Senders
    /\ \A s \in Senders : SenderTyped(s)

ScanTyped ==
    /\ scan \in [at : 1 .. NWorkers + 1, busiest : {0} \cup Workers, maxLoad : Int,
                 idlest : {0} \cup Workers, minLoad : Int]
    /\ pc[StealingLoop] = "steal" => scan.busiest # 0 /\ scan.idlest # 0
    /\ scans \in 0 .. MaxScans

TypeInv ==
    /\ RoomsTyped /\ RunsTyped /\ ResultsTyped /\ LifeTyped /\ SendTyped /\ ScanTyped
-----------------------------------------------------------------------------
(* Who can hold a task's wrapper, and which tasks each of them holds.      *)

Elements(s) == {s[i] : i \in 1 .. Len(s)}

NoRepeats(s) == \A i, j \in 1 .. Len(s) : s[i] = s[j] => i = j

Global   == <<"global", 0>>
Caller   == <<"caller", 0>>
Level(l) == <<"level", l>>
Local(w) == <<"local", w>>
Chan(w)  == <<"chan", w>>
Hand(r)  == <<"run", r>>
Mover(s) == <<"loop", s>>

Hands  == {Hand(r) : r \in Runs}
Queues == {Global} \cup {Level(l) : l \in Levels} \cup {Local(w) : w \in Workers}
          \cup {Chan(w) : w \in Workers}
Movers == {Mover(s) : s \in Loops}

Holders == {Caller} \cup Queues \cup Hands \cup Movers

Holds(h, t) ==
    \/ h = Global /\ t \in Elements(queue)
    \/ h = Caller /\ pc[t] \in Sending
    \/ \E l \in Levels : h = Level(l) /\ t \in Elements(levelQueue[l])
    \/ \E w \in Workers : \/ h = Local(w) /\ t \in Elements(local[w])
                          \/ h = Chan(w) /\ t \in Elements(chan[w])
    \/ \E r \in Runs : h = Hand(r) /\ current[r] = t
    \/ \E s \in Loops : h = Mover(s) /\ inHand[s] = t

held == [h \in Holders |-> {t \in Tasks : Holds(h, t)}]

(* No queue has the same task twice.                                       *)
QueuedOnce ==
    /\ NoRepeats(queue)
    /\ \A l \in Levels : NoRepeats(levelQueue[l])
    /\ \A w \in Workers : NoRepeats(local[w]) /\ NoRepeats(chan[w])

(* No two holders hold the same task.                                      *)
Apart == \A g, h \in Holders : g # h => held[g] \cap held[h] = {}

(* Until Schedule has returned nil only its caller has the task, and its   *)
(* Future is pending.                                                      *)
CallerOwns ==
    \A t \in Tasks : pc[t] # "accepted" =>
        /\ t \notin started \cup dropped /\ future[t] = "pending"
        /\ \A h \in Holders : t \in held[h] => h = Caller

(* A task whose Execute was called is only with a run, and a run only has  *)
(* such a task.                                                            *)
StartedIsHeldByRun ==
    \A t \in started : \A h \in Holders : t \in held[h] => h \in Hands

RunsAreStarted == \A r \in Runs : current[r] # None => current[r] \in started

(* A task that a loop dropped, or whose report was cut short, is nowhere.  *)
LostIsGone ==
    /\ unanswered \subseteq started /\ started \cap dropped = {}
    /\ \A h \in Holders : held[h] \cap (dropped \cup unanswered) = {}

Ownership ==
    /\ Apart /\ CallerOwns /\ StartedIsHeldByRun /\ RunsAreStarted /\ LostIsGone

SchedInv == TypeInv /\ QueuedOnce /\ Ownership
-----------------------------------------------------------------------------
(* Queues.                                                                 *)

(* Appending a task that is not in a queue yet.                            *)
LEMMA Appended ==
    ASSUME NEW q \in Seq(Tasks), NEW x \in Tasks
    PROVE  /\ Append(q, x) \in Seq(Tasks)
           /\ Len(Append(q, x)) = Len(q) + 1
           /\ Elements(Append(q, x)) = Elements(q) \cup {x}
           /\ NoRepeats(q) /\ x \notin Elements(q) => NoRepeats(Append(q, x))
<1> DEFINE r == Append(q, x)
<1>1. /\ r \in Seq(Tasks) /\ Len(r) = Len(q) + 1 /\ r[Len(q) + 1] = x
      /\ \A i \in 1 .. Len(q) : r[i] = q[i]
      /\ Len(q) \in Nat
  OBVIOUS
<1> HIDE DEF r
<1>2. \A y : y \in Elements(r) <=> y \in Elements(q) \/ y = x
  BY <1>1 DEF Elements
<1>3. NoRepeats(q) /\ x \notin Elements(q) => NoRepeats(r)
  BY <1>1 DEF Elements, NoRepeats
<1> QED BY <1>1, <1>2, <1>3 DEF r

(* Taking the first task of a queue.                                       *)
LEMMA Removed ==
    ASSUME NEW q \in Seq(Tasks), q # <<>>
    PROVE  /\ Head(q) \in Tasks /\ Head(q) \in Elements(q)
           /\ Tail(q) \in Seq(Tasks)
           /\ Len(q) \in Nat /\ Len(q) > 0 /\ Len(Tail(q)) = Len(q) - 1
           /\ Elements(q) = Elements(Tail(q)) \cup {Head(q)}
           /\ NoRepeats(q) => NoRepeats(Tail(q)) /\ Head(q) \notin Elements(Tail(q))
<1> DEFINE r == Tail(q)
<1>1. /\ r \in Seq(Tasks) /\ Len(q) \in Nat /\ Len(q) > 0
      /\ Len(r) = Len(q) - 1 /\ Head(q) = q[1] /\ q[1] \in Tasks
      /\ \A i \in 1 .. Len(r) : r[i] = q[i + 1]
  OBVIOUS
<1> HIDE DEF r
<1>2. \A i \in 1 .. Len(q) : i = 1 \/ (i - 1 \in 1 .. Len(r) /\ q[i] = r[i - 1])
  BY <1>1
<1>3. \A y : y \in Elements(q) <=> y \in Elements(r) \/ y = q[1]
  <2>1. 1 \in 1 .. Len(q) /\ \A i \in 1 .. Len(r) : i + 1 \in 1 .. Len(q)
    BY <1>1
  <2>2. ASSUME NEW y \in Elements(q) PROVE y \in Elements(r) \/ y = q[1]
    BY <1>2 DEF Elements
  <2>3. ASSUME NEW y \in Elements(r) PROVE y \in Elements(q)
    BY <1>1, <2>1 DEF Elements
  <2>4. q[1] \in Elements(q)
    BY <2>1 DEF Elements
  <2> QED BY <2>2, <2>3, <2>4
<1>4. NoRepeats(q) => NoRepeats(r) /\ q[1] \notin Elements(r)
  BY <1>1 DEF Elements, NoRepeats
<1> QED BY <1>1, <1>3, <1>4 DEF r

(* A channel that holds one task, or none.                                 *)
LEMMA OneElement ==
    ASSUME NEW x \in Tasks
    PROVE  /\ <<x>> \in Seq(Tasks) /\ Len(<<x>>) = 1
           /\ Elements(<<x>>) = {x} /\ NoRepeats(<<x>>)
           /\ <<>> \in Seq(Tasks) /\ Len(<<>>) = 0
           /\ Elements(<<>>) = {} /\ NoRepeats(<<>>)
<1>1. /\ <<x>> \in Seq(Tasks) /\ Len(<<x>>) = 1 /\ <<x>>[1] = x
      /\ <<>> \in Seq(Tasks) /\ Len(<<>>) = 0
  OBVIOUS
<1>2. Elements(<<x>>) = {x}
  BY <1>1 DEF Elements
<1>3. Elements(<<>>) = {}
  BY <1>1 DEF Elements
<1> QED BY <1>1, <1>2, <1>3 DEF NoRepeats

(* Stealing the last task of a queue.                                      *)
LEMMA LastTaken ==
    ASSUME NEW q \in Seq(Tasks), q # <<>>
    PROVE  LET r == SubSeq(q, 1, Len(q) - 1)
               x == q[Len(q)]
           IN  /\ x \in Tasks /\ x \in Elements(q)
               /\ r \in Seq(Tasks)
               /\ Len(q) \in Nat /\ Len(r) = Len(q) - 1
               /\ Elements(q) = Elements(r) \cup {x}
               /\ NoRepeats(q) => NoRepeats(r) /\ x \notin Elements(r)
<1> DEFINE r == SubSeq(q, 1, Len(q) - 1)
           x == q[Len(q)]
<1>1. Len(q) \in Nat /\ Len(q) > 0
  OBVIOUS
<1>2. /\ r \in Seq(Tasks) /\ Len(r) = Len(q) - 1
      /\ \A i \in 1 .. Len(r) : r[i] = q[i]
  <2>1. Len(q) - 1 \in Int /\ \A i \in 1 .. Len(q) - 1 : q[i] \in Tasks
    BY <1>1
  <2> DEFINE n == Len(q) - 1
  <2>2. n \in Int /\ \A i \in 1 .. n : q[i] \in Tasks
    BY <2>1
  <2> HIDE DEF n
  <2>3. /\ SubSeq(q, 1, n) \in Seq(Tasks)
        /\ Len(SubSeq(q, 1, n)) = IF 1 <= n THEN n - 1 + 1 ELSE 0
        /\ \A i \in 1 .. n - 1 + 1 : SubSeq(q, 1, n)[i] = q[1 + i - 1]
    BY <2>2, 1 \in Int, SubSeqProperties
  <2>4. r = SubSeq(q, 1, n)
    BY DEF n
  <2>5. n = Len(q) - 1
    BY DEF n
  <2> HIDE DEF r
  <2>6. Len(r) = n /\ n - 1 + 1 = n
    BY <1>1, <2>2, <2>3, <2>4, <2>5
  <2>7. ASSUME NEW i \in 1 .. n PROVE r[i] = q[i]
    <3>1. i \in 1 .. n - 1 + 1 /\ 1 + i - 1 = i
      BY <2>2
    <3> QED BY <2>3, <2>4, <3>1
  <2> QED BY <2>3, <2>4, <2>5, <2>6, <2>7
<1>3. x \in Tasks /\ Len(q) \in 1 .. Len(q)
  BY <1>1
<1>4. Len(q) = Len(r) + 1 /\ x = q[Len(q)]
  BY <1>1, <1>2
<1> HIDE DEF r, x
<1>5. \A y : y \in Elements(q) <=> y \in Elements(r) \/ y = x
  <2>1. \A i : i \in 1 .. Len(q) <=> i \in 1 .. Len(r) \/ i = Len(q)
    BY <1>1, <1>2
  <2> QED BY <1>2, <1>4, <2>1 DEF Elements
<1>6. NoRepeats(q) => NoRepeats(r) /\ x \notin Elements(r)
  BY <1>1, <1>2, <1>4 DEF Elements, NoRepeats
<1>7. x \in Elements(q)
  BY <1>3, <1>4 DEF Elements
<1> QED BY <1>1, <1>2, <1>3, <1>5, <1>6, <1>7 DEF r, x
-----------------------------------------------------------------------------
(* The senders and the runs.                                               *)

LEMMA Names ==
    /\ 0 \notin Workers /\ None \notin Tasks
    /\ \A t \in Tasks : t \in Senders /\ t \notin Loops
    /\ \A s \in Loops : s \in Senders /\ s \notin Tasks
    /\ {GlobalLoop, PriorityLoop, StealingLoop} = Loops
    /\ GlobalLoop # PriorityLoop /\ GlobalLoop # StealingLoop
    /\ PriorityLoop # StealingLoop
BY WorkerAssumption, SchedulerAssumption
   DEF Workers, Senders, Loops, GlobalLoop, PriorityLoop, StealingLoop

(* A run is one of its worker's.                                           *)
LEMMA RunOfWorker ==
    /\ \A r \in Runs : /\ r[1] \in Workers /\ r[2] \in 1 .. MaxRestarts
                       /\ r[2] \in Nat /\ r = <<r[1], r[2]>>
    /\ \A w \in Workers, k \in 1 .. MaxRestarts :
          <<w, k>> \in Runs /\ <<w, k>>[1] = w /\ <<w, k>>[2] = k
    /\ MaxRestarts \in Nat
BY WorkerAssumption DEF Runs

(* The function changes at s at most.                                      *)
ChangesAt(f, g, s) == g = f \/ \E v : g = [f EXCEPT ![s] = v]

LEMMA ChangedAt ==
    ASSUME NEW D, NEW R, NEW f \in [D -> R], NEW s \in D, NEW g,
           ChangesAt(f, g, s), g[s] \in R
    PROVE  g \in [D -> R] /\ \A q \in D \ {s} : g[q] = f[q]
BY DEF ChangesAt

(* Where nothing has changed everything has its type.                      *)
LEMMA KeepTheirTypes ==
    /\ RoomsTyped /\ UNCHANGED <<queue, levelQueue, local, chan>> => RoomsTyped'
    /\ RunsTyped /\ UNCHANGED <<runVars, stopVars, countVars>> => RunsTyped'
    /\ ResultsTyped /\ UNCHANGED <<future, started, unanswered, dropped>> => ResultsTyped'
    /\ LifeTyped /\ UNCHANGED <<lifeVars, pc>> => LifeTyped'
    /\ SendTyped /\ UNCHANGED <<pc, target, inHand, moved, level, overtaken>> => SendTyped'
    /\ ScanTyped /\ UNCHANGED <<pc, scan, scans>> => ScanTyped'
<1>1. RoomsTyped /\ UNCHANGED <<queue, levelQueue, local, chan>> => RoomsTyped'
  BY DEF RoomsTyped
<1>2. RunsTyped /\ UNCHANGED <<runVars, stopVars, countVars>> => RunsTyped'
  BY DEF RunsTyped, RunTyped, RunInOrder, runVars, stopVars, countVars
<1>3. ResultsTyped /\ UNCHANGED <<future, started, unanswered, dropped>> => ResultsTyped'
  BY DEF ResultsTyped
<1>4. LifeTyped /\ UNCHANGED <<lifeVars, pc>> => LifeTyped'
  BY DEF LifeTyped, lifeVars
<1>5. SendTyped /\ UNCHANGED <<pc, target, inHand, moved, level, overtaken>> => SendTyped'
  BY DEF SendTyped, SenderTyped, LoopTyped, Batch
<1>6. ScanTyped /\ UNCHANGED <<pc, scan, scans>> => ScanTyped'
  BY DEF ScanTyped
<1> QED BY <1>1, <1>2, <1>3, <1>4, <1>5, <1>6

(* One sender steps on.                                                    *)
LEMMA SenderSteps ==
    ASSUME SendTyped, NEW s \in Senders,
           ChangesAt(pc, pc', s), ChangesAt(target, target', s),
           \/ UNCHANGED <<inHand, moved>>
           \/ /\ s \in Loops
              /\ ChangesAt(inHand, inHand', s) /\ ChangesAt(moved, moved', s)
              /\ inHand'[s] \in Tasks \cup {None} /\ moved'[s] \in Nat,
           target'[s] \in {0} \cup Workers,
           level' \in Levels, level' = level \/ s = PriorityLoop,
           overtaken' \subseteq Senders, SenderTyped(s)'
    PROVE  /\ SendTyped' /\ \A q \in Senders \ {s} : pc'[q] = pc[q]
<1>1. /\ pc \in [Senders -> TaskLabels \cup LoopLabels]
      /\ target \in [Senders -> {0} \cup Workers]
      /\ inHand \in [Loops -> Tasks \cup {None}]
      /\ moved \in [Loops -> Nat]
      /\ \A q \in Senders : SenderTyped(q)
  BY DEF SendTyped
<1> DEFINE Labels == TaskLabels \cup LoopLabels
           Targets == {0} \cup Workers
           Cargoes == Tasks \cup {None}
<1>2. pc'[s] \in Labels
  BY DEF SenderTyped, LabelsOf, LoopLabels
<1>a. /\ pc \in [Senders -> Labels] /\ target \in [Senders -> Targets]
      /\ inHand \in [Loops -> Cargoes] /\ target'[s] \in Targets
      /\ inHand'[s] \in Tasks \cup {None} => inHand'[s] \in Cargoes
  BY <1>1
<1>b. ASSUME NEW D, NEW R, NEW f \in [D -> R], NEW g, ChangesAt(f, g, s), s \in D,
             g[s] \in R
      PROVE  g \in [D -> R] /\ \A q \in D \ {s} : g[q] = f[q]
  BY <1>b, ChangedAt
<1> HIDE DEF Labels, Targets, Cargoes
<1>3. /\ pc' \in [Senders -> Labels]
      /\ \A q \in Senders \ {s} : pc'[q] = pc[q]
  BY <1>a, <1>2, <1>b
<1>4. /\ target' \in [Senders -> Targets]
      /\ \A q \in Senders \ {s} : target'[q] = target[q]
  BY <1>a, <1>b
<1>5. /\ inHand' \in [Loops -> Cargoes]
      /\ \A q \in Loops \ {s} : inHand'[q] = inHand[q]
  <2>1. CASE inHand' = inHand
    BY <1>a, <2>1
  <2>2. CASE s \in Loops /\ ChangesAt(inHand, inHand', s) /\ inHand'[s] \in Tasks \cup {None}
    BY <1>a, <1>b, <2>2
  <2> QED BY <2>1, <2>2
<1>6. /\ moved' \in [Loops -> Nat]
      /\ \A q \in Loops \ {s} : moved'[q] = moved[q]
  <2>1. CASE moved' = moved
    BY <1>1, <2>1
  <2>2. CASE s \in Loops /\ ChangesAt(moved, moved', s) /\ moved'[s] \in Nat
    BY <1>1, <1>b, <2>2
  <2> QED BY <2>1, <2>2
<1>7. ASSUME NEW q \in Senders \ {s} PROVE SenderTyped(q)'
  <2>1. SenderTyped(q) /\ pc'[q] = pc[q] /\ target'[q] = target[q]
    BY <1>1, <1>3, <1>4
  <2>2. ASSUME q \in Loops PROVE LoopTyped(q)'
    <3>1. inHand'[q] = inHand[q] /\ moved'[q] = moved[q]
      BY <1>5, <1>6, <2>2
    <3>2. Batch(q)' = Batch(q)
      BY DEF Batch
    <3> QED BY <2>1, <2>2, <3>1, <3>2 DEF SenderTyped, LoopTyped
  <2> QED BY <2>1, <2>2 DEF SenderTyped
<1> QED BY <1>3, <1>4, <1>5, <1>6, <1>7 DEF SendTyped, Labels, Targets, Cargoes

(* A loop that has ended stays where it is.                                *)
LEMMA LifeGoesOn ==
    ASSUME LifeTyped, UNCHANGED lifeVars, NEW s \in Senders,
           \A q \in Senders \ {s} : pc'[q] = pc[q],
           pc[s] # "exited" \/ pc'[s] = "exited"
    PROVE  LifeTyped'
BY Names DEF LifeTyped, lifeVars

(* What the steps do to the labels, the targets and the hands of loops.    *)
LEMMA Stepping ==
    ASSUME SendTyped, NEW s \in Senders, NEW from, NEW to, Step(s, from, to)
    PROVE  pc[s] = from /\ pc'[s] = to /\ ChangesAt(pc, pc', s)
BY DEF SendTyped, Step, ChangesAt

LEMMA Aiming ==
    ASSUME SendTyped, NEW s \in Senders, NEW w, target' = [target EXCEPT ![s] = w]
    PROVE  target'[s] = w /\ ChangesAt(target, target', s)
BY DEF SendTyped, ChangesAt

LEMMA Handling ==
    ASSUME SendTyped, NEW s \in Loops, NEW x, inHand' = [inHand EXCEPT ![s] = x]
    PROVE  inHand'[s] = x /\ ChangesAt(inHand, inHand', s)
BY DEF SendTyped, ChangesAt

LEMMA Counting ==
    ASSUME SendTyped, NEW s \in Loops, NEW n, moved' = [moved EXCEPT ![s] = n]
    PROVE  moved'[s] = n /\ ChangesAt(moved, moved', s)
BY DEF SendTyped, ChangesAt

(* A sender that is sending has a task to send.                            *)
LEMMA CargoIsTask ==
    ASSUME SendTyped, NEW s \in Senders, pc[s] \in Sending
    PROVE  Cargo(s) \in Tasks
<1>1. SenderTyped(s)
  BY DEF SendTyped
<1>2. CASE s \in Loops
  BY <1>1, <1>2 DEF SenderTyped, LoopTyped, Cargo, SendTyped
<1>3. CASE s \notin Loops
  BY <1>3 DEF Cargo, Senders
<1> QED BY <1>2, <1>3

(* A sender that goes on sending.                                          *)
LEMMA StillSending ==
    ASSUME SendTyped, NEW s \in Senders, pc[s] \in Sending,
           ChangesAt(pc, pc', s), ChangesAt(target, target', s),
           pc'[s] \in Sending \cap LabelsOf(s), target'[s] \in {0} \cup Workers,
           pc'[s] \in {"local", "chan"} <=> target'[s] # 0,
           UNCHANGED <<inHand, moved, level>>, overtaken' \subseteq Senders
    PROVE  /\ SendTyped' /\ \A q \in Senders \ {s} : pc'[q] = pc[q]
<1>1. SenderTyped(s)' /\ level \in Levels
  <2>1. s \in Loops => LoopTyped(s)'
    BY DEF SendTyped, SenderTyped, LoopTyped, Batch
  <2>2. LabelsOf(s)' = LabelsOf(s)
    BY DEF LabelsOf
  <2> QED BY <2>1, <2>2 DEF SenderTyped, SendTyped
<1> QED BY <1>1, SenderSteps

(* A loop or a caller that has delivered its task.                         *)
LEMMA DeliveredTypes ==
    ASSUME SendTyped, NEW s \in Senders, NEW from \in Sending, Delivered(s, from),
           UNCHANGED <<level, overtaken>>
    PROVE  /\ SendTyped' /\ \A q \in Senders \ {s} : pc'[q] = pc[q]
           /\ pc[s] = from
           /\ pc'[s] = IF s \in Tasks THEN "accepted"
                       ELSE IF s = StealingLoop THEN "wait" ELSE "dequeue"
           /\ s \in Tasks => UNCHANGED <<inHand, moved>>
           /\ s \in Loops => inHand' = [inHand EXCEPT ![s] = None]
<1> DEFINE to == IF s \in Tasks THEN "accepted"
                 ELSE IF s = StealingLoop THEN "wait" ELSE "dequeue"
<1>1. pc[s] = from /\ pc'[s] = to /\ ChangesAt(pc, pc', s)
  BY Stepping DEF Delivered
<1>2. target'[s] = 0 /\ ChangesAt(target, target', s)
  BY Aiming DEF Delivered
<1>3. to \in LabelsOf(s)' /\ to \notin Sending
  BY Names DEF LabelsOf, TaskLabels, Senders, Sending
<1>4. SenderTyped(s) /\ level \in Levels /\ overtaken \subseteq Senders
  BY DEF SendTyped
<1>5. CASE s \in Loops
  <2> DEFINE n == IF s = StealingLoop THEN 0 ELSE moved[s] + 1
  <2>1. inHand'[s] = None /\ ChangesAt(inHand, inHand', s)
    BY <1>5, Handling DEF Delivered
  <2>2. moved' = [moved EXCEPT ![s] = n]
    BY <1>5 DEF Delivered
  <2>3. moved'[s] = n /\ ChangesAt(moved, moved', s)
    BY <1>5, <2>2, Counting
  <2>4. LoopTyped(s) /\ moved[s] \in Nat
    BY <1>4, <1>5 DEF SenderTyped, SendTyped
  <2>5. moved[s] < Batch(s) /\ Batch(s)' = Batch(s) /\ Batch(s) \in Nat
    <3>1. Batch(s) \in Nat
      BY <1>4, SchedulerAssumption DEF Batch
    <3>2. Batch(s)' = Batch(s)
      BY DEF Batch
    <3> QED BY <1>1, <2>4, <3>1, <3>2 DEF LoopTyped
  <2>6. n \in Nat /\ n <= Batch(s)
    <3> HIDE DEF Batch
    <3> QED BY <2>4, <2>5
  <2>7. to \in {"dequeue", "wait"} /\ (to = "wait" => n = 0)
    BY <1>5, Names
  <2>8. LoopTyped(s)'
    <3> HIDE DEF n, to
    <3> QED BY <1>1, <1>3, <2>1, <2>3, <2>5, <2>6, <2>7 DEF LoopTyped
  <2>9. SenderTyped(s)'
    BY <1>1, <1>2, <1>3, <2>8 DEF SenderTyped, Sending
  <2> HIDE DEF n
  <2>10. SendTyped' /\ \A q \in Senders \ {s} : pc'[q] = pc[q]
    BY <1>1, <1>2, <1>4, <1>5, <2>1, <2>3, <2>6, <2>9, SenderSteps
  <2> QED BY <1>1, <1>5, <2>10, Names DEF Delivered
<1>6. CASE s \notin Loops
  <2>1. SenderTyped(s)'
    BY <1>1, <1>2, <1>3, <1>6 DEF SenderTyped, Sending
  <2>2. UNCHANGED <<inHand, moved>>
    BY <1>6 DEF Delivered
  <2>3. SendTyped' /\ \A q \in Senders \ {s} : pc'[q] = pc[q]
    BY <1>1, <1>2, <1>4, <2>1, <2>2, SenderSteps
  <2> QED BY <1>1, <1>6, <2>2, <2>3
<1> QED BY <1>5, <1>6

(* A sender whose Enqueue has returned.                                    *)
LEMMA LeaveEnqueueTypes ==
    ASSUME SendTyped, NEW s \in Senders, NEW from \in {"level", "global"},
           NEW verdict \in {"accepted", "global", "failing"},
           LeaveEnqueue(s, from, verdict), overtaken' \subseteq Senders
    PROVE  /\ SendTyped' /\ \A q \in Senders \ {s} : pc'[q] = pc[q]
           /\ pc[s] = from
           /\ pc'[s] = IF s = PriorityLoop THEN "nextLevel"
                       ELSE IF s \in Loops THEN "wait" ELSE verdict
           /\ s \in Tasks => UNCHANGED <<inHand, moved>>
           /\ s \in Loops => inHand' = [inHand EXCEPT ![s] = None]
<1> DEFINE to == IF s = PriorityLoop THEN "nextLevel"
                 ELSE IF s \in Loops THEN "wait" ELSE verdict
<1>1. pc[s] = from /\ pc'[s] = to /\ ChangesAt(pc, pc', s)
  BY Stepping DEF LeaveEnqueue
<1>2. to \in LabelsOf(s)' /\ to \notin {"local", "chan"}
  BY Names DEF LabelsOf, TaskLabels, Senders
<1>3. SenderTyped(s) /\ level \in Levels /\ UNCHANGED <<target, level>>
  BY DEF SendTyped, LeaveEnqueue
<1>4. /\ target[s] = 0 /\ target'[s] \in {0} \cup Workers
      /\ ChangesAt(target, target', s)
  BY <1>1, <1>3 DEF SenderTyped, ChangesAt
<1>5. CASE s \in Loops
  <2>1. inHand'[s] = None /\ ChangesAt(inHand, inHand', s)
    BY <1>5, Handling DEF LeaveEnqueue
  <2>2. moved'[s] = 0 /\ ChangesAt(moved, moved', s)
    BY <1>5, Counting DEF LeaveEnqueue
  <2>3. 0 <= Batch(s)'
    BY <1>3, SchedulerAssumption DEF Batch
  <2>4. to \in {"nextLevel", "wait"}
    BY <1>5
  <2>5. LoopTyped(s)'
    <3> HIDE DEF to
    <3> QED BY <1>1, <2>1, <2>2, <2>3, <2>4 DEF LoopTyped, Sending
  <2>6. SenderTyped(s)'
    BY <1>1, <1>2, <1>3, <1>4, <2>5 DEF SenderTyped
  <2>7. SendTyped' /\ \A q \in Senders \ {s} : pc'[q] = pc[q]
    BY <1>1, <1>3, <1>4, <1>5, <2>1, <2>2, <2>6, SenderSteps
  <2> QED BY <1>1, <1>5, <2>7, Names DEF LeaveEnqueue
<1>6. CASE s \notin Loops
  <2>1. SenderTyped(s)'
    BY <1>1, <1>2, <1>3, <1>4, <1>6 DEF SenderTyped
  <2>2. UNCHANGED <<inHand, moved>>
    BY <1>6 DEF LeaveEnqueue
  <2>3. SendTyped' /\ \A q \in Senders \ {s} : pc'[q] = pc[q]
    BY <1>1, <1>3, <1>4, <2>1, <2>2, SenderSteps
  <2> QED BY <1>1, <1>6, <2>2, <2>3
<1> QED BY <1>5, <1>6

(* A queue that takes one more task.                                       *)
LEMMA PutTypes ==
    ASSUME RoomsTyped, NEW t \in Tasks
    PROVE  /\ Len(queue) < QueueLimit =>
                Append(queue, t) \in Seq(Tasks) /\ Len(Append(queue, t)) <= QueueLimit
           /\ \A l \in Levels : Len(levelQueue[l]) < LevelLimit =>
                 /\ Append(levelQueue[l], t) \in Seq(Tasks)
                 /\ Len(Append(levelQueue[l], t)) <= LevelLimit
           /\ \A w \in Workers : Len(local[w]) < LocalLimit =>
                 /\ Append(local[w], t) \in Seq(Tasks)
                 /\ Len(Append(local[w], t)) <= LocalLimit
           /\ <<t>> \in Seq(Tasks) /\ Len(<<t>>) <= 1
<1>1. {QueueLimit, LevelLimit, LocalLimit} \subseteq Nat
  BY WorkerAssumption, SchedulerAssumption
<1>2. ASSUME NEW q \in Seq(Tasks), NEW n \in Nat, Len(q) < n
      PROVE  Append(q, t) \in Seq(Tasks) /\ Len(Append(q, t)) <= n
  <2>1. Len(Append(q, t)) = Len(q) + 1 /\ Append(q, t) \in Seq(Tasks) /\ Len(q) \in Nat
    BY Appended
  <2> QED BY <1>2, <2>1
<1>3. <<t>> \in Seq(Tasks) /\ Len(<<t>>) = 1
  BY OneElement
<1>4. Len(queue) < QueueLimit =>
         Append(queue, t) \in Seq(Tasks) /\ Len(Append(queue, t)) <= QueueLimit
  BY <1>1, <1>2 DEF RoomsTyped
<1>5. ASSUME NEW l \in Levels, Len(levelQueue[l]) < LevelLimit
      PROVE  /\ Append(levelQueue[l], t) \in Seq(Tasks)
             /\ Len(Append(levelQueue[l], t)) <= LevelLimit
  BY <1>1, <1>2, <1>5 DEF RoomsTyped
<1>6. ASSUME NEW w \in Workers, Len(local[w]) < LocalLimit
      PROVE  /\ Append(local[w], t) \in Seq(Tasks)
             /\ Len(Append(local[w], t)) <= LocalLimit
  BY <1>1, <1>2, <1>6 DEF RoomsTyped
<1> QED BY <1>3, <1>4, <1>5, <1>6

(* One room of many has changed.                                           *)
LEMMA RoomTypes ==
    ASSUME NEW D, NEW f \in [D -> Seq(Tasks)], NEW n, \A d \in D : Len(f[d]) <= n,
           NEW d \in D, NEW q \in Seq(Tasks), Len(q) <= n, NEW g, g = [f EXCEPT ![d] = q]
    PROVE  /\ g \in [D -> Seq(Tasks)] /\ g[d] = q
           /\ \A e \in D \ {d} : g[e] = f[e]
           /\ \A e \in D : Len(g[e]) <= n
<1> DEFINE S == Seq(Tasks)
<1>1. f \in [D -> S] /\ q \in S
  OBVIOUS
<1> HIDE DEF S
<1>2. g \in [D -> S] /\ g[d] = q /\ \A e \in D \ {d} : g[e] = f[e]
  BY <1>1
<1> QED BY <1>2 DEF S

(* The level a task is queued at exists.                                   *)
LEMMA LevelExists ==
    ASSUME SendTyped, NEW s \in Senders PROVE LevelFor(s) \in Levels
BY SchedulerAssumption DEF SendTyped, LevelFor, LevelOf

(* The seven ways a send can end, for callers and loops alike.             *)
LEMMA SendTypes ==
    ASSUME TypeInv, NEW s \in Senders, SendStep(s)
    PROVE  /\ TypeInv' /\ \A q \in Senders \ {s} : pc'[q] = pc[q]
           /\ UNCHANGED <<runVars, stopVars, countVars, resultVars, lifeVars>>
           /\ pc[s] \in Sending
<1> USE DEF TypeInv
<1>1. /\ UNCHANGED <<runVars, stopVars, countVars, resultVars, lifeVars, level, scan,
                     scans>>
      /\ pc[s] \in Sending
  BY DEF SendStep, SelectWorker, SubmitLocal, SubmitChan, EnqueueLevel, EnqueueGlobal,
         LevelRefused, GlobalRefused, LeaveEnqueue, workerVars, Delivered, Step, Sending
<1>2. Cargo(s) \in Tasks /\ SenderTyped(s) /\ overtaken \subseteq Senders
  BY <1>1, CargoIsTask DEF SendTyped
<1>3. /\ SendTyped' /\ \A q \in Senders \ {s} : pc'[q] = pc[q]
      /\ pc'[s] # "steal"
  <2>1. CASE SelectWorker(s)
    <3>1. pc[s] = "select" /\ target[s] = 0
      BY <1>2, <2>1 DEF SelectWorker, Step, SenderTyped
    <3>2. UNCHANGED <<inHand, moved, overtaken>>
      BY <2>1 DEF SelectWorker, queueVars
    <3>3. ASSUME NEW w \in Workers, Step(s, "select", "local"),
                 target' = [target EXCEPT ![s] = w]
          PROVE  SendTyped' /\ (\A q \in Senders \ {s} : pc'[q] = pc[q]) /\ pc'[s] # "steal"
      <4>1. pc'[s] = "local" /\ ChangesAt(pc, pc', s)
        BY <3>3, Stepping
      <4>2. target'[s] = w /\ ChangesAt(target, target', s)
        BY <3>3, Aiming
      <4>3. "local" \in LabelsOf(s) \cap Sending
        BY DEF LabelsOf, TaskLabels, Sending
      <4>4. w # 0
        BY Names
      <4> QED BY <1>1, <1>2, <3>2, <4>1, <4>2, <4>3, <4>4, StillSending
    <3>4. ASSUME Step(s, "select", Fallback(s)), UNCHANGED target
          PROVE  SendTyped' /\ (\A q \in Senders \ {s} : pc'[q] = pc[q]) /\ pc'[s] # "steal"
      <4>1. pc'[s] = Fallback(s) /\ ChangesAt(pc, pc', s)
        BY <3>4, Stepping
      <4>2. target'[s] = 0 /\ ChangesAt(target, target', s)
        BY <3>1, <3>4 DEF ChangesAt
      <4>3. Fallback(s) \in LabelsOf(s) \cap Sending /\ Fallback(s) \notin {"local", "chan"}
        BY Names DEF LabelsOf, TaskLabels, Sending, Fallback, Senders
      <4>4. Fallback(s) # "steal"
        BY DEF Fallback
      <4> QED BY <1>1, <1>2, <3>2, <4>1, <4>2, <4>3, <4>4, StillSending
    <3> QED BY <2>1, <3>3, <3>4 DEF SelectWorker
  <2>2. ASSUME NEW from \in {"local", "chan"}, Delivered(s, from), UNCHANGED overtaken
        PROVE  SendTyped' /\ (\A q \in Senders \ {s} : pc'[q] = pc[q]) /\ pc'[s] # "steal"
    <3>1. from \in Sending
      BY DEF Sending
    <3> QED BY <1>1, <2>2, <3>1, DeliveredTypes
  <2>3. ASSUME Step(s, "local", "chan"), UNCHANGED <<target, inHand, moved, overtaken>>
        PROVE  SendTyped' /\ (\A q \in Senders \ {s} : pc'[q] = pc[q]) /\ pc'[s] # "steal"
    <3>1. pc[s] = "local" /\ pc'[s] = "chan" /\ ChangesAt(pc, pc', s)
      BY <2>3, Stepping
    <3>2. target'[s] # 0 /\ target'[s] \in {0} \cup Workers /\ ChangesAt(target, target', s)
      BY <1>2, <2>3, <3>1 DEF SendTyped, SenderTyped, ChangesAt
    <3>3. "chan" \in LabelsOf(s) \cap Sending
      BY DEF LabelsOf, TaskLabels, Sending
    <3> QED BY <1>1, <1>2, <2>3, <3>1, <3>2, <3>3, StillSending
  <2>4. ASSUME Step(s, "chan", Fallback(s)), target' = [target EXCEPT ![s] = 0],
               UNCHANGED <<inHand, moved, overtaken>>
        PROVE  SendTyped' /\ (\A q \in Senders \ {s} : pc'[q] = pc[q]) /\ pc'[s] # "steal"
    <3>1. pc'[s] = Fallback(s) /\ ChangesAt(pc, pc', s)
      BY <2>4, Stepping
    <3>2. target'[s] = 0 /\ ChangesAt(target, target', s)
      BY <2>4, Aiming
    <3>3. Fallback(s) \in LabelsOf(s) \cap Sending /\ Fallback(s) \notin {"local", "chan"}
      BY Names DEF LabelsOf, TaskLabels, Sending, Fallback, Senders
    <3>4. Fallback(s) # "steal"
      BY DEF Fallback
    <3> QED BY <1>1, <1>2, <2>4, <3>1, <3>2, <3>3, <3>4, StillSending
  <2>5. ASSUME NEW from \in {"level", "global"}, NEW verdict \in {"accepted", "global", "failing"},
               LeaveEnqueue(s, from, verdict), overtaken' \subseteq Senders
        PROVE  SendTyped' /\ (\A q \in Senders \ {s} : pc'[q] = pc[q]) /\ pc'[s] # "steal"
    BY <2>5, LeaveEnqueueTypes
  <2>6. CASE SubmitLocal(s)
    BY <2>2, <2>3, <2>6 DEF SubmitLocal, queueVars
  <2>7. CASE SubmitChan(s)
    BY <2>2, <2>4, <2>7 DEF SubmitChan, queueVars
  <2>8. CASE EnqueueLevel(s)
    <3>1. overtaken' \subseteq Senders
      BY <1>2, <2>8, Names DEF EnqueueLevel, Overtake
    <3> QED BY <2>5, <2>8, <3>1 DEF EnqueueLevel
  <2>9. CASE EnqueueGlobal(s)
    <3>1. overtaken' \subseteq Senders
      BY <1>2, <2>9, Names DEF EnqueueGlobal, Overtake
    <3> QED BY <2>5, <2>9, <3>1 DEF EnqueueGlobal
  <2>10. CASE LevelRefused(s)
    <3>1. overtaken' \subseteq Senders
      BY <1>2, <2>10 DEF LevelRefused
    <3> QED BY <2>5, <2>10, <3>1 DEF LevelRefused
  <2>11. CASE GlobalRefused(s)
    <3>1. overtaken' \subseteq Senders
      BY <1>2, <2>11 DEF GlobalRefused
    <3> QED BY <2>5, <2>11, <3>1 DEF GlobalRefused
  <2> QED BY <2>1, <2>6, <2>7, <2>8, <2>9, <2>10, <2>11 DEF SendStep
<1>4. RoomsTyped'
  <2>1. CASE UNCHANGED <<queue, levelQueue, local, chan>>
    BY <2>1, KeepTheirTypes
  <2>2. ASSUME PutLocal(target[s], Cargo(s)), pc[s] = "local",
               UNCHANGED <<queue, levelQueue, chan>>
        PROVE  RoomsTyped'
    <3>1. target[s] \in Workers
      BY <1>2, <2>2 DEF SendTyped, SenderTyped
    <3>2. /\ Append(local[target[s]], Cargo(s)) \in Seq(Tasks)
          /\ Len(Append(local[target[s]], Cargo(s))) <= LocalLimit
      BY <1>2, <2>2, <3>1, PutTypes DEF PutLocal
    <3>3. local' = [local EXCEPT ![target[s]] = Append(local[target[s]], Cargo(s))]
      BY <2>2 DEF PutLocal
    <3>4. local' \in [Workers -> Seq(Tasks)] /\ \A w \in Workers : Len(local'[w]) <= LocalLimit
      <4>1. local \in [Workers -> Seq(Tasks)] /\ \A w \in Workers : Len(local[w]) <= LocalLimit
        BY DEF RoomsTyped
      <4> QED BY <3>1, <3>2, <3>3, <4>1, RoomTypes
    <3> QED BY <2>2, <3>4 DEF RoomsTyped
  <2>3. ASSUME PutChan(target[s], Cargo(s)), pc[s] = "chan",
               UNCHANGED <<queue, levelQueue, local>>
        PROVE  RoomsTyped'
    <3>1. target[s] \in Workers
      BY <1>2, <2>3 DEF SendTyped, SenderTyped
    <3>2. <<Cargo(s)>> \in Seq(Tasks) /\ Len(<<Cargo(s)>>) <= 1
      BY <1>2, PutTypes
    <3>3. chan' = [chan EXCEPT ![target[s]] = <<Cargo(s)>>]
      BY <2>3 DEF PutChan
    <3>4. chan' \in [Workers -> Seq(Tasks)] /\ \A w \in Workers : Len(chan'[w]) <= 1
      <4>1. chan \in [Workers -> Seq(Tasks)] /\ \A w \in Workers : Len(chan[w]) <= 1
        BY DEF RoomsTyped
      <4> QED BY <3>1, <3>2, <3>3, <4>1, RoomTypes
    <3> QED BY <2>3, <3>4 DEF RoomsTyped
  <2>4. CASE EnqueueGlobal(s)
    <3>1. /\ queue' = Append(queue, Cargo(s)) /\ Len(queue) < QueueLimit
          /\ UNCHANGED <<levelQueue, local, chan>>
      BY <2>4 DEF EnqueueGlobal, LeaveEnqueue, workerVars, roomVars
    <3>2. queue' \in Seq(Tasks) /\ Len(queue') <= QueueLimit
      BY <1>2, <3>1, PutTypes
    <3> QED BY <3>1, <3>2 DEF RoomsTyped
  <2>5. CASE EnqueueLevel(s)
    <3> DEFINE l == LevelFor(s)
    <3>1. /\ levelQueue' = [levelQueue EXCEPT ![l] = Append(levelQueue[l], Cargo(s))]
          /\ Len(levelQueue[l]) < LevelLimit /\ UNCHANGED <<queue, local, chan>>
      BY <2>5 DEF EnqueueLevel, LeaveEnqueue, workerVars, roomVars
    <3>2. l \in Levels
      BY LevelExists
    <3> HIDE DEF l
    <3>3. /\ Append(levelQueue[l], Cargo(s)) \in Seq(Tasks)
          /\ Len(Append(levelQueue[l], Cargo(s))) <= LevelLimit
      BY <1>2, <3>1, <3>2, PutTypes
    <3>4. /\ levelQueue' \in [Levels -> Seq(Tasks)]
          /\ \A m \in Levels : Len(levelQueue'[m]) <= LevelLimit
      <4>1. /\ levelQueue \in [Levels -> Seq(Tasks)]
            /\ \A m \in Levels : Len(levelQueue[m]) <= LevelLimit
        BY DEF RoomsTyped
      <4> QED BY <3>1, <3>2, <3>3, <4>1, RoomTypes
    <3> QED BY <3>1, <3>4 DEF RoomsTyped
  <2>6. CASE SelectWorker(s) \/ LevelRefused(s) \/ GlobalRefused(s)
    BY <2>1, <2>6 DEF SelectWorker, LevelRefused, GlobalRefused, LeaveEnqueue,
                      workerVars, roomVars, queueVars
  <2>7. CASE SubmitLocal(s)
    BY <2>1, <2>2, <2>7 DEF SubmitLocal, queueVars
  <2>8. CASE SubmitChan(s)
    BY <2>1, <2>3, <2>8 DEF SubmitChan, queueVars
  <2> QED BY <2>4, <2>5, <2>6, <2>7, <2>8 DEF SendStep
<1>5. RunsTyped'
  BY <1>1, KeepTheirTypes
<1>6. ResultsTyped'
  <2>1. dropped' \subseteq Tasks
    BY <1>2 DEF ResultsTyped, SendStep, SelectWorker, SubmitLocal, SubmitChan,
                EnqueueLevel, EnqueueGlobal, LevelRefused, GlobalRefused
  <2> QED BY <1>1, <2>1 DEF ResultsTyped, resultVars
<1>7. LifeTyped'
  BY <1>1, <1>3, LifeGoesOn DEF Sending
<1>8. ScanTyped'
  <2>1. pc'[StealingLoop] = "steal" => pc[StealingLoop] = "steal"
    BY <1>3, Names
  <2> QED BY <1>1, <2>1 DEF ScanTyped
<1> QED BY <1>1, <1>3, <1>4, <1>5, <1>6, <1>7, <1>8

(* A caller that has not begun to send, or has failed.                     *)
LEMMA CallerTypes ==
    ASSUME TypeInv, NEW t \in Tasks, Schedule(t) \/ Refuse(t)
    PROVE  /\ TypeInv' /\ \A q \in Senders \ {t} : pc'[q] = pc[q]
           /\ UNCHANGED <<workerVars, lifeVars, queueVars, target, inHand, moved,
                          level, scan, scans, dropped>>
<1> USE DEF TypeInv
<1>1. /\ UNCHANGED <<workerVars, lifeVars, queueVars, target, inHand, moved,
                     level, scan, scans, dropped>>
      /\ t \in Senders /\ t \notin Loops
  BY Names DEF Schedule, Refuse
<1>2. /\ pc[t] \in {"new", "failing"} /\ pc'[t] \in {"select", "failing", "refused"}
      /\ ChangesAt(pc, pc', t)
  <2>1. ASSUME NEW from, NEW to, Step(t, from, to)
        PROVE  pc[t] = from /\ pc'[t] = to /\ ChangesAt(pc, pc', t)
    BY <1>1, <2>1, Stepping
  <2>2. CASE Schedule(t)
    BY <2>1, <2>2 DEF Schedule
  <2>3. CASE Refuse(t)
    BY <2>1, <2>3 DEF Refuse
  <2> QED BY <2>2, <2>3
<1>3. SenderTyped(t)'
  <2>1. target[t] = 0
    BY <1>1, <1>2 DEF SendTyped, SenderTyped
  <2>2. pc'[t] \in LabelsOf(t)'
    BY <1>2 DEF LabelsOf, TaskLabels
  <2> QED BY <1>1, <1>2, <2>1, <2>2 DEF SenderTyped
<1>4. SendTyped' /\ \A q \in Senders \ {t} : pc'[q] = pc[q]
  <2>1. /\ target[t] \in {0} \cup Workers /\ level \in Levels /\ overtaken \subseteq Senders
    BY <1>1 DEF SendTyped
  <2>2. ChangesAt(target, target', t) /\ UNCHANGED <<target, inHand, moved, level, overtaken>>
    BY <1>1 DEF ChangesAt, queueVars
  <2> QED BY <1>1, <1>2, <1>3, <2>1, <2>2, SenderSteps
<1>5. LifeTyped' /\ ScanTyped'
  <2>1. pc'[StealingLoop] = pc[StealingLoop] /\ pc[t] # "exited"
    BY <1>1, <1>2, <1>4, Names
  <2> QED BY <1>1, <1>4, <2>1, LifeGoesOn DEF ScanTyped
<1>6. RoomsTyped' /\ RunsTyped' /\ ResultsTyped'
  BY <1>1, KeepTheirTypes DEF workerVars, roomVars, queueVars, resultVars
<1> QED BY <1>1, <1>4, <1>5, <1>6

(* A set of naturals that is not empty has a least element.                *)
LEMMA LeastNatural ==
    ASSUME NEW S \in SUBSET Nat, S # {}
    PROVE  \E n \in S : \A m \in S : n <= m
<1> DEFINE R == OpToRel(<, Nat)
<1>1. IsWellFoundedOn(R, Nat)
  BY NatLessThanWellFounded
<1>2. PICK n \in S : \A m \in S : <<m, n>> \notin R
  <2> HIDE DEF R
  <2> QED BY <1>1, WFMin
<1>3. \A m \in S : ~(m < n)
  BY <1>2 DEF OpToRel
<1> QED BY <1>3

(* Every set of levels that is not empty has a highest one.                *)
LEMMA HighestLevel ==
    ASSUME NEW S, S \subseteq Levels, S # {}
    PROVE  (CHOOSE l \in S : \A m \in S : m <= l) \in S
<1> DEFINE Above(l) == {m \in S : m > l}
           Rank(l) == Cardinality(Above(l))
           Ranks   == {Rank(l) : l \in S}
<1>1. IsFiniteSet(S) /\ \A l \in S : l \in Int
  BY SchedulerAssumption, FS_Subset
<1>2. ASSUME NEW l \in S PROVE IsFiniteSet(Above(l)) /\ Rank(l) \in Nat
  <2>1. Above(l) \in SUBSET S
    OBVIOUS
  <2> QED BY <1>1, <2>1, FS_Subset, FS_CardinalityType
<1>3. \E n \in Ranks : \A m \in Ranks : n <= m
  <2>1. Ranks \in SUBSET Nat /\ Ranks # {}
    BY <1>2
  <2> HIDE DEF Ranks
  <2> QED BY <2>1, LeastNatural
<1>4. PICK l \in S : \A k \in S : Rank(l) <= Rank(k)
  <2> HIDE DEF Rank
  <2> QED BY <1>3
<1>5. \A m \in S : m <= l
  <2> SUFFICES ASSUME NEW m \in S, m > l PROVE FALSE
    BY <1>1
  <2>1. Above(m) \subseteq Above(l) /\ m \in Above(l) /\ m \notin Above(m)
    BY <1>1
  <2>2. IsFiniteSet(Above(l)) /\ Above(m) \subseteq Above(l) /\ Above(m) # Above(l)
    BY <1>2, <2>1
  <2>3. Rank(m) < Rank(l)
    <3>1. /\ Cardinality(Above(m)) <= Cardinality(Above(l))
          /\ Cardinality(Above(l)) = Cardinality(Above(m)) => Above(l) = Above(m)
      <4> HIDE DEF Above
      <4> QED BY <2>2, FS_Subset
    <3> QED BY <1>2, <2>2, <3>1
  <2>4. Rank(l) <= Rank(m) /\ Rank(l) \in Nat /\ Rank(m) \in Nat
    BY <1>2, <1>4
  <2> HIDE DEF Rank
  <2> QED BY <2>3, <2>4
<1> QED BY <1>5

LEMMA TopLevelExists == TopLevel \in Levels
BY HighestLevel, SchedulerAssumption DEF TopLevel

(* A queue that gives away a task.                                         *)
LEMMA TakeTypes ==
    ASSUME NEW q \in Seq(Tasks), q # <<>>, NEW n, n \in Nat, Len(q) <= n
    PROVE  Head(q) \in Tasks /\ Tail(q) \in Seq(Tasks) /\ Len(Tail(q)) <= n
<1>1. Len(Tail(q)) = Len(q) - 1 /\ Len(q) \in Nat
  BY Removed
<1>2. Head(q) \in Tasks /\ Tail(q) \in Seq(Tasks)
  BY Removed
<1> QED BY <1>1, <1>2

(* A loop steps on at its own queues.                                      *)
LEMMA LoopMoves ==
    ASSUME SendTyped, NEW s \in Loops, NEW from, NEW to, Step(s, from, to),
           from \notin {"local", "chan"}, to \in LabelsOf(s) \ {"local", "chan"},
           UNCHANGED <<target, overtaken>>,
           ChangesAt(inHand, inHand', s), inHand'[s] \in Tasks \cup {None},
           ChangesAt(moved, moved', s), moved'[s] \in Nat,
           level' \in Levels, level' = level \/ s = PriorityLoop,
           inHand'[s] # None <=> to \in Sending,
           moved'[s] <= Batch(s)',
           to \in Sending => moved'[s] < Batch(s)',
           to \notin Sending \cup {"dequeue"} => moved'[s] = 0
    PROVE  /\ SendTyped' /\ \A q \in Senders \ {s} : pc'[q] = pc[q]
           /\ pc[s] = from /\ pc'[s] = to
<1>1. s \in Senders
  BY Names
<1>2. pc[s] = from /\ pc'[s] = to /\ ChangesAt(pc, pc', s)
  BY <1>1, Stepping
<1>3. target[s] = 0 /\ target'[s] \in {0} \cup Workers /\ ChangesAt(target, target', s)
  BY <1>1, <1>2 DEF SendTyped, SenderTyped, ChangesAt
<1>4. SenderTyped(s)'
  <2>1. LoopTyped(s)'
    <3> HIDE DEF Batch
    <3> QED BY <1>2 DEF LoopTyped
  <2>2. LabelsOf(s)' = LabelsOf(s)
    BY DEF LabelsOf
  <2> QED BY <1>2, <1>3, <2>1, <2>2 DEF SenderTyped
<1>5. overtaken' \subseteq Senders
  BY DEF SendTyped
<1> QED BY <1>1, <1>2, <1>3, <1>4, <1>5, SenderSteps

(* What a loop has in hand and has moved when it is not sending.           *)
LEMMA LoopIdle ==
    ASSUME SendTyped, NEW s \in Loops, pc[s] \notin Sending
    PROVE  /\ inHand[s] = None /\ inHand[s] \in Tasks \cup {None}
           /\ moved[s] \in Nat /\ moved[s] <= Batch(s)
           /\ pc[s] # "dequeue" => moved[s] = 0
           /\ ChangesAt(inHand, inHand, s) /\ ChangesAt(moved, moved, s)
           /\ level \in Levels /\ pc[s] \in LabelsOf(s)
<1>1. SenderTyped(s) /\ LoopTyped(s)
  BY Names DEF SendTyped, SenderTyped
<1> QED BY <1>1 DEF SendTyped, LoopTyped, SenderTyped, ChangesAt

LEMMA BatchIsNat ==
    ASSUME NEW s \in Loops, level \in Levels PROVE Batch(s) \in Nat /\ Batch(s) > 0
BY SchedulerAssumption DEF Batch

(* scheduleLoop and priorityScheduleLoop: what they take is a task.        *)
LEMMA DequeueTypes ==
    ASSUME TypeInv, NEW s \in Loops,
           \/ s = GlobalLoop /\ (GlobalTick \/ DequeueGlobal)
           \/ s = PriorityLoop /\ (PriorityTick \/ DequeueLevel \/ NextLevel)
    PROVE  /\ TypeInv' /\ \A q \in Senders \ {s} : pc'[q] = pc[q]
           /\ UNCHANGED loopUnchanged
           /\ pc[s] \notin Sending \cup {"exited"}
<1> USE DEF TypeInv
<1>1. UNCHANGED loopUnchanged /\ UNCHANGED <<target, overtaken, scan, scans>>
  BY DEF GlobalTick, DequeueGlobal, PriorityTick, DequeueLevel, NextLevel, loopUnchanged
<1>2. s \in Senders /\ level \in Levels
  BY Names DEF SendTyped
<1>3. /\ queue \in Seq(Tasks) /\ Len(queue) <= QueueLimit /\ QueueLimit \in Nat
      /\ levelQueue[level] \in Seq(Tasks) /\ Len(levelQueue[level]) <= LevelLimit
      /\ LevelLimit \in Nat
  BY <1>2, SchedulerAssumption DEF RoomsTyped
<1>4. pc[s] \in {"wait", "dequeue", "nextLevel"}
  BY DEF GlobalTick, DequeueGlobal, PriorityTick, DequeueLevel, NextLevel, Step
<1>5. /\ inHand[s] = None /\ inHand[s] \in Tasks \cup {None}
      /\ moved[s] \in Nat /\ moved[s] <= Batch(s)
      /\ pc[s] # "dequeue" => moved[s] = 0
      /\ ChangesAt(inHand, inHand, s) /\ ChangesAt(moved, moved, s)
  BY <1>4, LoopIdle DEF Sending
<1>6. /\ Batch(s) \in Nat /\ Batch(s) > 0
      /\ level' \in Levels => Batch(s)' \in Nat /\ Batch(s)' > 0
      /\ level' = level => Batch(s)' = Batch(s)
  BY <1>2, SchedulerAssumption DEF Batch
<1>7. /\ SendTyped' /\ \A q \in Senders \ {s} : pc'[q] = pc[q]
      /\ pc'[s] \in LabelsOf(s)
  <2>1. ASSUME NEW to \in {"dequeue", "nextLevel", "wait"}, Step(s, pc[s], to),
               to \in LabelsOf(s),
               UNCHANGED inHand, level' \in Levels, level' = level \/ s = PriorityLoop,
               \/ UNCHANGED moved /\ pc[s] # "dequeue"
               \/ moved' = [moved EXCEPT ![s] = 0]
        PROVE  /\ SendTyped' /\ \A q \in Senders \ {s} : pc'[q] = pc[q]
               /\ pc'[s] \in LabelsOf(s)
    <3>1. moved'[s] = 0 /\ ChangesAt(moved, moved', s)
      BY <1>5, <2>1, Counting
    <3>2. /\ to \notin Sending /\ to \notin {"local", "chan"}
          /\ pc[s] \notin {"local", "chan"} /\ 0 <= Batch(s)'
      BY <1>4, <1>6, <2>1 DEF Sending
    <3> HIDE DEF Batch
    <3> QED BY <1>1, <1>5, <2>1, <3>1, <3>2, LoopMoves
  <2>2. ASSUME NEW t \in Tasks, pc[s] = "dequeue", Step(s, "dequeue", "select"),
               inHand' = [inHand EXCEPT ![s] = t], UNCHANGED <<moved, level>>,
               moved[s] # Batch(s), s # StealingLoop
        PROVE  /\ SendTyped' /\ \A q \in Senders \ {s} : pc'[q] = pc[q]
               /\ pc'[s] \in LabelsOf(s)
    <3>1. inHand'[s] = t /\ ChangesAt(inHand, inHand', s) /\ t # None
      BY <2>2, Handling, Names
    <3>2. moved[s] < Batch(s)'
      <4> HIDE DEF Batch
      <4> QED BY <1>5, <1>6, <2>2
    <3>3. /\ "select" \in LabelsOf(s) /\ "select" \in Sending
          /\ "select" \notin {"local", "chan"} /\ "dequeue" \notin {"local", "chan"}
      BY <2>2, Names DEF LabelsOf, Sending
    <3>4. moved[s] <= Batch(s)' /\ moved'[s] = moved[s] /\ ChangesAt(moved, moved', s)
      <4> HIDE DEF Batch
      <4> QED BY <1>5, <1>6, <2>2
    <3> HIDE DEF Batch
    <3> QED BY <1>1, <1>2, <1>5, <2>2, <3>1, <3>2, <3>3, <3>4, LoopMoves
  <2>3. /\ {"dequeue", "wait"} \subseteq LabelsOf(GlobalLoop)
        /\ {"dequeue", "nextLevel", "wait"} \subseteq LabelsOf(PriorityLoop)
    BY Names DEF LabelsOf
  <2>4. CASE s = GlobalLoop /\ GlobalTick
    BY <1>2, <2>1, <2>3, <2>4 DEF GlobalTick, Step
  <2>5. CASE s = GlobalLoop /\ DequeueGlobal
    <3>1. level' = level
      BY <2>5 DEF DequeueGlobal
    <3>2. CASE queue = <<>> \/ moved[GlobalLoop] = GlobalBatch
      BY <1>2, <2>1, <2>3, <2>5, <3>1, <3>2 DEF DequeueGlobal, Step
    <3>3. CASE ~(queue = <<>> \/ moved[GlobalLoop] = GlobalBatch)
      <4>1. Head(queue) \in Tasks
        BY <1>3, <3>3, TakeTypes
      <4>2. moved[s] # Batch(s)
        BY <2>5, <3>3 DEF Batch
      <4> QED BY <2>2, <2>5, <3>1, <3>3, <4>1, <4>2, Names DEF DequeueGlobal, Step
    <3> QED BY <3>2, <3>3
  <2>6. CASE s = PriorityLoop /\ PriorityTick
    BY <1>2, <2>1, <2>3, <2>6, TopLevelExists DEF PriorityTick, Step
  <2>7. CASE s = PriorityLoop /\ DequeueLevel
    <3>1. level' = level
      BY <2>7 DEF DequeueLevel
    <3>2. CASE levelQueue[level] = <<>> \/ moved[PriorityLoop] = BatchAt[level]
      BY <1>2, <2>1, <2>3, <2>7, <3>1, <3>2 DEF DequeueLevel, Step
    <3>3. CASE ~(levelQueue[level] = <<>> \/ moved[PriorityLoop] = BatchAt[level])
      <4>1. Head(levelQueue[level]) \in Tasks
        BY <1>3, <3>3, TakeTypes
      <4>2. moved[s] # Batch(s)
        BY <2>7, <3>3, Names DEF Batch
      <4> QED BY <2>2, <2>7, <3>1, <3>3, <4>1, <4>2, Names DEF DequeueLevel, Step
    <3> QED BY <3>2, <3>3
  <2>8. CASE s = PriorityLoop /\ NextLevel
    <3> DEFINE below == {l \in Levels : l < level}
    <3>1. UNCHANGED <<inHand, moved>>
      BY <2>8 DEF NextLevel
    <3>2. CASE below = {}
      BY <2>1, <2>3, <2>8, <3>1, <3>2, TopLevelExists DEF NextLevel, Step
    <3>3. CASE below # {}
      <4>1. level' = CHOOSE l \in below : \A m \in below : m <= l
        BY <2>8, <3>3 DEF NextLevel
      <4>2. level' \in below
        <5>1. below \subseteq Levels
          OBVIOUS
        <5> HIDE DEF below
        <5> QED BY <3>3, <4>1, <5>1, HighestLevel
      <4>3. Step(s, "nextLevel", "dequeue")
        BY <2>8, <3>3 DEF NextLevel
      <4> QED BY <2>1, <2>3, <2>8, <3>1, <4>2, <4>3 DEF Step
    <3> QED BY <3>2, <3>3
  <2> QED BY <2>4, <2>5, <2>6, <2>7, <2>8
<1>8. RoomsTyped'
  <2>1. UNCHANGED <<local, chan>>
    BY <1>1 DEF loopUnchanged, workerVars, roomVars
  <2>2. /\ queue' = queue \/ (queue # <<>> /\ queue' = Tail(queue))
        /\ \/ levelQueue' = levelQueue
           \/ /\ levelQueue[level] # <<>>
              /\ levelQueue' = [levelQueue EXCEPT ![level] = Tail(levelQueue[level])]
    BY DEF GlobalTick, DequeueGlobal, PriorityTick, DequeueLevel, NextLevel
  <2>3. queue' \in Seq(Tasks) /\ Len(queue') <= QueueLimit
    BY <1>3, <2>2, TakeTypes
  <2>4. levelQueue' \in [Levels -> Seq(Tasks)] /\ \A l \in Levels : Len(levelQueue'[l]) <= LevelLimit
    <3>1. /\ levelQueue \in [Levels -> Seq(Tasks)]
          /\ \A l \in Levels : Len(levelQueue[l]) <= LevelLimit
      BY DEF RoomsTyped
    <3>2. CASE levelQueue' = levelQueue
      BY <3>1, <3>2
    <3>3. CASE /\ levelQueue[level] # <<>>
               /\ levelQueue' = [levelQueue EXCEPT ![level] = Tail(levelQueue[level])]
      <4>1. Tail(levelQueue[level]) \in Seq(Tasks) /\ Len(Tail(levelQueue[level])) <= LevelLimit
        BY <1>3, <3>3, TakeTypes
      <4> QED BY <1>2, <3>1, <3>3, <4>1, RoomTypes
    <3> QED BY <2>2, <3>2, <3>3
  <2> QED BY <2>1, <2>3, <2>4 DEF RoomsTyped
<1>9. LifeTyped' /\ ScanTyped'
  <2>1. pc[s] # "exited" /\ UNCHANGED lifeVars
    BY <1>1, <1>4 DEF loopUnchanged
  <2>2. pc'[StealingLoop] = pc[StealingLoop]
    BY <1>7, Names
  <2> QED BY <1>1, <1>2, <1>7, <2>1, <2>2, LifeGoesOn DEF ScanTyped
<1>10. RunsTyped' /\ ResultsTyped'
  BY <1>1, KeepTheirTypes DEF loopUnchanged, workerVars, resultVars
<1>11. pc[s] \notin Sending \cup {"exited"}
  BY <1>4 DEF Sending
<1> QED BY <1>1, <1>7, <1>8, <1>9, <1>10, <1>11

(* What the scan knows of a worker it has looked at.                       *)
LEMMA SeenTypes ==
    ASSUME TypeInv, NEW w \in Workers, scan.at = w
    PROVE  Seen(w) \in [at : 1 .. NWorkers + 1, busiest : {0} \cup Workers, maxLoad : Int,
                        idlest : {0} \cup Workers, minLoad : Int]
<1>1. Load(w) \in Int
  BY DEF TypeInv, RunsTyped, RoomsTyped, Load
<1>2. /\ scan.busiest \in {0} \cup Workers /\ scan.maxLoad \in Int
      /\ scan.idlest \in {0} \cup Workers /\ scan.minLoad \in Int
  BY DEF TypeInv, ScanTyped
<1>3. w + 1 \in 1 .. NWorkers + 1
  BY WorkerAssumption DEF Workers
<1> QED BY <1>1, <1>2, <1>3 DEF Seen

LEMMA NoScanTypes ==
    NoScan \in [at : 1 .. NWorkers + 1, busiest : {0} \cup Workers, maxLoad : Int,
                idlest : {0} \cup Workers, minLoad : Int]
BY WorkerAssumption DEF NoScan

(* workStealingLoop: what it steals is a task, and it goes to a worker.    *)
LEMMA StealTypes ==
    ASSUME TypeInv, StealingTick \/ ScanWorker \/ DecideToSteal \/ Steal
    PROVE  /\ TypeInv' /\ \A q \in Senders \ {StealingLoop} : pc'[q] = pc[q]
           /\ UNCHANGED stealUnchanged
           /\ pc[StealingLoop] \notin Sending \cup {"exited"}
<1> DEFINE s == StealingLoop
           ScanRecord == [at : 1 .. NWorkers + 1, busiest : {0} \cup Workers,
                          maxLoad : Int, idlest : {0} \cup Workers, minLoad : Int]
<1> USE DEF TypeInv
<1>1. UNCHANGED stealUnchanged /\ UNCHANGED <<chan, queue, levelQueue, overtaken, moved, level>>
  BY DEF StealingTick, ScanWorker, DecideToSteal, Steal, stealUnchanged, queueVars
<1>2. s \in Loops /\ s \in Senders /\ level \in Levels /\ s # PriorityLoop
  BY Names DEF SendTyped
<1>3. pc[s] \in {"wait", "scan", "steal"}
  BY DEF StealingTick, ScanWorker, DecideToSteal, Steal, Step
<1>4. pc[s] \notin Sending \cup {"exited", "dequeue"}
  BY <1>3 DEF Sending
<1>5. /\ inHand[s] = None /\ inHand[s] \in Tasks \cup {None} /\ moved[s] = 0
      /\ ChangesAt(inHand, inHand, s) /\ ChangesAt(moved, moved, s)
  BY <1>2, <1>4, LoopIdle
<1>6. Batch(s) = 1 /\ Batch(s)' = 1
  BY Names DEF Batch
<1>7. /\ {"wait", "scan", "steal", "local"} \subseteq LabelsOf(s)
      /\ {"wait", "scan", "steal"} \cap Sending = {} /\ "local" \in Sending
  BY Names DEF LabelsOf, Sending
<1>8. ASSUME NEW to \in {"wait", "scan", "steal"}, Step(s, pc[s], to),
             UNCHANGED <<target, inHand, local>>, scan' \in ScanRecord,
             to = "steal" => scan'.busiest # 0 /\ scan'.idlest # 0,
             scans' \in 0 .. MaxScans
      PROVE  /\ SendTyped' /\ \A q \in Senders \ {s} : pc'[q] = pc[q]
             /\ RoomsTyped' /\ ScanTyped' /\ pc'[s] # "exited"
  <2>1. /\ to \in LabelsOf(s) \ {"local", "chan"} /\ to \notin Sending
        /\ pc[s] \notin {"local", "chan"}
    BY <1>3, <1>7
  <2>2. SendTyped' /\ pc'[s] = to /\ \A q \in Senders \ {s} : pc'[q] = pc[q]
    <3> HIDE DEF s, Batch
    <3> QED BY <1>1, <1>2, <1>5, <1>6, <1>8, <2>1, LoopMoves
  <2> QED BY <1>1, <1>8, <2>2, KeepTheirTypes DEF ScanTyped
<1>9. /\ SendTyped' /\ \A q \in Senders \ {s} : pc'[q] = pc[q]
      /\ RoomsTyped' /\ ScanTyped' /\ pc'[s] # "exited"
  <2>1. scan \in ScanRecord /\ scans \in 0 .. MaxScans
    BY DEF ScanTyped
  <2>2. CASE StealingTick
    <3>1. scans' \in 0 .. MaxScans
      BY <2>1, <2>2, SchedulerAssumption DEF StealingTick
    <3>2. Step(s, pc[s], "scan") /\ scan' = NoScan /\ UNCHANGED <<target, inHand, local>>
      BY <2>2 DEF StealingTick, Step
    <3> HIDE DEF s
    <3> QED BY <1>8, <3>1, <3>2, NoScanTypes
  <2>3. CASE ScanWorker
    <3>1. scan.at \in Workers
      BY <2>1, <2>3, WorkerAssumption DEF ScanWorker, Workers
    <3>2. scan' \in ScanRecord
      <4>1. Seen(scan.at) \in ScanRecord
        BY <3>1, SeenTypes
      <4>2. [scan EXCEPT !.at = scan.at + 1] \in ScanRecord
        <5>1. scan.at + 1 \in 1 .. NWorkers + 1
          BY <3>1, WorkerAssumption DEF Workers
        <5> QED BY <2>1, <5>1
      <4> QED BY <2>3, <4>1, <4>2 DEF ScanWorker
    <3>3. /\ Step(s, pc[s], "scan") /\ UNCHANGED <<target, inHand, local>>
          /\ UNCHANGED scans
      BY <2>3 DEF ScanWorker, Step
    <3> HIDE DEF s, ScanRecord
    <3> QED BY <1>8, <2>1, <3>2, <3>3
  <2>4. CASE DecideToSteal
    <3>1. PICK to \in {"wait", "steal"} :
             /\ Step(s, "scan", to)
             /\ to = "steal" => WorthStealing
      BY <2>4 DEF DecideToSteal
    <3>2. pc[s] = "scan" /\ pc'[s] = to
      BY <1>2, <3>1, Stepping
    <3>3. /\ scan' = IF to = "steal" THEN scan ELSE NoScan
          /\ UNCHANGED <<target, inHand, local, scans>>
      BY <2>4, <3>2 DEF DecideToSteal
    <3>4. scan' \in ScanRecord /\ (to = "steal" => scan'.busiest # 0 /\ scan'.idlest # 0)
      BY <2>1, <3>1, <3>3, NoScanTypes DEF WorthStealing
    <3> HIDE DEF s, ScanRecord
    <3> QED BY <1>8, <2>1, <3>1, <3>2, <3>3, <3>4
  <2>5. CASE Steal
    <3> DEFINE victim == scan.busiest
    <3>1. pc[s] = "steal" /\ scan' = NoScan /\ UNCHANGED scans
      BY <2>5 DEF Steal
    <3>2. victim \in Workers /\ scan.idlest \in Workers /\ scan.idlest # 0
      BY <2>1, <3>1 DEF ScanTyped
    <3>3. CASE local[victim] = <<>>
      <4>1. Step(s, pc[s], "wait") /\ UNCHANGED <<target, inHand, local>>
        BY <2>5, <3>1, <3>3 DEF Steal
      <4> HIDE DEF s
      <4> QED BY <1>8, <2>1, <3>1, <4>1, NoScanTypes
    <3>4. CASE local[victim] # <<>>
      <4> DEFINE q == local[victim]
                 x == q[Len(q)]
                 r == SubSeq(q, 1, Len(q) - 1)
      <4>1. /\ Step(s, "steal", "local") /\ inHand' = [inHand EXCEPT ![s] = x]
            /\ local' = [local EXCEPT ![victim] = r]
            /\ target' = [target EXCEPT ![s] = scan.idlest]
        BY <2>5, <3>4 DEF Steal, Newest, TakeNewest
      <4>2. /\ q \in Seq(Tasks) /\ Len(q) <= LocalLimit /\ q # <<>>
            /\ local \in [Workers -> Seq(Tasks)] /\ \A w \in Workers : Len(local[w]) <= LocalLimit
            /\ LocalLimit \in Nat
        BY <3>2, <3>4, WorkerAssumption DEF RoomsTyped
      <4> HIDE DEF q, x, r, s, victim
      <4>3. x \in Tasks /\ r \in Seq(Tasks) /\ Len(q) \in Nat /\ Len(r) = Len(q) - 1
        BY <4>2, LastTaken DEF x, r
      <4>4. Len(r) <= LocalLimit
        BY <4>2, <4>3
      <4>5. local' \in [Workers -> Seq(Tasks)] /\ \A w \in Workers : Len(local'[w]) <= LocalLimit
        BY <3>2, <4>1, <4>2, <4>3, <4>4, RoomTypes
      <4>6. RoomsTyped'
        BY <1>1, <4>5 DEF RoomsTyped
      <4>7. pc[s] = "steal" /\ pc'[s] = "local" /\ ChangesAt(pc, pc', s)
        BY <1>2, <4>1, Stepping
      <4>8. target'[s] = scan.idlest /\ ChangesAt(target, target', s)
        BY <1>2, <4>1, Aiming
      <4>9. inHand'[s] = x /\ ChangesAt(inHand, inHand', s) /\ x # None
        BY <1>2, <4>1, <4>3, Handling, Names
      <4>10. moved'[s] = 0 /\ ChangesAt(moved, moved', s) /\ level' = level
             /\ overtaken' \subseteq Senders
        BY <1>1, <1>5 DEF SendTyped
      <4>11. SenderTyped(s)'
        <5>1. LoopTyped(s)'
          <6> HIDE DEF Batch
          <6> QED BY <1>6, <1>7, <4>7, <4>9, <4>10 DEF LoopTyped
        <5>2. LabelsOf(s)' = LabelsOf(s)
          BY DEF LabelsOf
        <5> QED BY <1>7, <3>2, <4>7, <4>8, <5>1, <5>2 DEF SenderTyped
      <4>12. SendTyped' /\ \A p \in Senders \ {s} : pc'[p] = pc[p]
        BY <1>2, <3>2, <4>3, <4>7, <4>8, <4>9, <4>10, <4>11, SenderSteps
      <4>13. ScanTyped'
        BY <2>1, <3>1, <4>7, NoScanTypes DEF ScanTyped, s
      <4> QED BY <4>6, <4>7, <4>12, <4>13
    <3> QED BY <3>3, <3>4
  <2> QED BY <2>2, <2>3, <2>4, <2>5
<1>10. LifeTyped'
  <2>1. UNCHANGED lifeVars
    BY <1>1 DEF stealUnchanged
  <2> HIDE DEF s
  <2> QED BY <1>2, <1>4, <1>9, <2>1, LifeGoesOn
<1>11. RunsTyped' /\ ResultsTyped'
  BY <1>1, KeepTheirTypes DEF stealUnchanged, resultVars
<1> QED BY <1>1, <1>4, <1>9, <1>10, <1>11
-----------------------------------------------------------------------------
(* Stop and Start.                                                         *)

LEMMA ExitTypes ==
    ASSUME TypeInv, NEW s \in Loops, LoopExit(s)
    PROVE  /\ TypeInv' /\ \A q \in Senders \ {s} : pc'[q] = pc[q]
           /\ pc[s] = "wait" /\ pc'[s] = "exited"
<1> USE DEF TypeInv
<1>1. /\ s \in Senders /\ level \in Levels /\ Step(s, "wait", "exited")
      /\ UNCHANGED <<workerVars, lifeVars, queueVars, target, inHand, moved, level, scan,
                     scans, dropped>>
      /\ overtaken' = overtaken
  BY Names DEF SendTyped, LoopExit, queueVars
<1>2. "wait" \notin Sending \cup {"local", "chan", "dequeue"}
      /\ "exited" \notin Sending \cup {"local", "chan", "dequeue"}
  BY DEF Sending
<1>3. pc[s] = "wait"
  BY <1>1 DEF Step
<1>4. /\ inHand[s] = None /\ inHand[s] \in Tasks \cup {None} /\ moved[s] = 0
      /\ ChangesAt(inHand, inHand, s) /\ ChangesAt(moved, moved, s)
  BY <1>2, <1>3, LoopIdle
<1>5. "exited" \in LabelsOf(s)
  BY Names DEF LabelsOf
<1>6. 0 <= Batch(s)'
  BY <1>1, SchedulerAssumption DEF Batch
<1>7. /\ SendTyped' /\ \A q \in Senders \ {s} : pc'[q] = pc[q]
      /\ pc'[s] = "exited"
  <2>1. moved'[s] = 0 /\ inHand'[s] = None /\ moved' = moved /\ inHand' = inHand
    BY <1>1, <1>4
  <2> HIDE DEF Batch
  <2> QED BY <1>1, <1>2, <1>4, <1>5, <1>6, <2>1, LoopMoves
<1>8. LifeTyped'
  BY <1>1, <1>7, LifeGoesOn
<1>9. ScanTyped'
  <2>1. pc'[StealingLoop] = "steal" => pc[StealingLoop] = "steal"
    BY <1>1, <1>7, Names
  <2> QED BY <1>1, <2>1 DEF ScanTyped
<1>10. RoomsTyped' /\ RunsTyped' /\ ResultsTyped'
  BY <1>1, KeepTheirTypes DEF workerVars, roomVars, queueVars, resultVars
<1> QED BY <1>3, <1>7, <1>8, <1>9, <1>10

LEMMA LifeTypes ==
    ASSUME TypeInv, Stop \/ StopReturned \/ StartAgain
    PROVE  /\ TypeInv' /\ UNCHANGED lifeUnchanged
           /\ \A s \in Senders : pc'[s] = pc[s] \/ (s \in Loops /\ pc'[s] = "wait")
           /\ \A s \in Loops : pc'[s] = pc[s] \/ pc[s] = "exited"
<1> USE DEF TypeInv
<1>1. UNCHANGED lifeUnchanged
  BY DEF Stop, StopReturned, StartAgain, lifeUnchanged
<1>2. RoomsTyped' /\ RunsTyped' /\ ResultsTyped'
  BY <1>1, KeepTheirTypes DEF lifeUnchanged, workerVars, roomVars, queueVars, resultVars
<1>3. UNCHANGED <<target, inHand, moved, level, scan, scans, overtaken>>
  BY <1>1 DEF lifeUnchanged, queueVars
<1>4. CASE Stop \/ StopReturned
  <2>1. pc' = pc
    BY <1>4 DEF Stop, StopReturned
  <2>2. SendTyped' /\ ScanTyped'
    BY <1>3, <2>1, KeepTheirTypes
  <2>3. LifeTyped'
    BY <1>4, <2>1 DEF LifeTyped, Stop, StopReturned, CancelContext
  <2> QED BY <1>1, <1>2, <2>1, <2>2, <2>3
<1>5. CASE StartAgain
  <2>1. /\ \A s \in Loops : pc[s] = "exited" /\ pc'[s] = "wait"
        /\ \A t \in Tasks : pc'[t] = pc[t]
        /\ pc' \in [Senders -> TaskLabels \cup LoopLabels]
    <3>1. \A s \in Loops : pc[s] = "exited"
      BY <1>5 DEF StartAgain, LifeTyped
    <3>2. pc' = [s \in Senders |-> IF s \in Loops THEN "wait" ELSE pc[s]]
      BY <1>5 DEF StartAgain
    <3>3. \A s \in Senders : pc[s] \in TaskLabels \cup LoopLabels
      BY DEF SendTyped
    <3>4. "wait" \in LoopLabels
      BY DEF LoopLabels
    <3> QED BY <3>1, <3>2, <3>3, <3>4, Names
  <2>2. ASSUME NEW s \in Senders PROVE SenderTyped(s)'
    <3>1. SenderTyped(s)
      BY DEF SendTyped
    <3>2. CASE s \in Tasks
      <4>1. pc'[s] = pc[s] /\ s \notin Loops /\ LabelsOf(s)' = LabelsOf(s)
        BY <2>1, <3>2, Names DEF LabelsOf
      <4> QED BY <1>3, <3>1, <4>1 DEF SenderTyped
    <3>3. CASE s \in Loops
      <4>1. pc[s] = "exited" /\ pc'[s] = "wait"
        BY <2>1, <3>3
      <4>2. "wait" \in LabelsOf(s)'
        BY <3>3, Names DEF LabelsOf
      <4>3. LoopTyped(s) /\ target[s] = 0
        BY <3>1, <3>3, <4>1 DEF SenderTyped
      <4>4. LoopTyped(s)'
        BY <1>3, <4>1, <4>3 DEF LoopTyped, Batch, Sending
      <4> QED BY <1>3, <4>1, <4>2, <4>3, <4>4 DEF SenderTyped
    <3> QED BY <3>2, <3>3 DEF Senders
  <2>3. SendTyped'
    BY <1>3, <2>1, <2>2 DEF SendTyped
  <2>4. ScanTyped'
    <3>1. pc'[StealingLoop] = "wait"
      BY <2>1, Names
    <3> QED BY <1>3, <3>1 DEF ScanTyped
  <2>5. LifeTyped'
    <3>1. starts + 1 \in 1 .. MaxStarts
      BY <1>5, SchedulerAssumption DEF LifeTyped, StartAgain
    <3> QED BY <1>5, <3>1 DEF LifeTyped, StartAgain
  <2> QED BY <1>1, <1>2, <2>1, <2>3, <2>4, <2>5 DEF Senders
<1> QED BY <1>4, <1>5
-----------------------------------------------------------------------------
(* The worker.                                                             *)

(* A run that has begun steps on.                                          *)
LEMMA RunSteps ==
    ASSUME RunsTyped, NEW r \in Runs,
           ChangesAt(wpc, wpc', r), wpc'[r] \in RunLabels,
           ChangesAt(current, current', r), current'[r] \in Tasks \cup {None},
           UNCHANGED restartCount, wpc[r] # "none",
           isRunning' \in [Workers -> BOOLEAN], cancelled' \in [Workers -> BOOLEAN],
           taskCount' \in [Workers -> Nat], RunTyped(r)'
    PROVE  /\ RunsTyped'
           /\ \A q \in Runs \ {r} : wpc'[q] = wpc[q] /\ current'[q] = current[q]
<1> DEFINE Cargoes == Tasks \cup {None}
<1>1. /\ wpc \in [Runs -> RunLabels] /\ current \in [Runs -> Cargoes]
      /\ current'[r] \in Cargoes
      /\ \A q \in Runs : RunTyped(q)
  BY DEF RunsTyped
<1> HIDE DEF Cargoes
<1>3. wpc' \in [Runs -> RunLabels] /\ \A q \in Runs \ {r} : wpc'[q] = wpc[q]
  BY <1>1, ChangedAt
<1>4. current' \in [Runs -> Cargoes] /\ \A q \in Runs \ {r} : current'[q] = current[q]
  <2>1. current \in [Runs -> Cargoes] /\ current'[r] \in Cargoes
        /\ ChangesAt(current, current', r)
    BY <1>1
  <2> QED BY ONLY r \in Runs, <2>1, ChangedAt
<1>5. ASSUME NEW q \in Runs \ {r} PROVE RunTyped(q)'
  <2>1. RunTyped(q) /\ wpc'[q] = wpc[q] /\ current'[q] = current[q]
    BY <1>1, <1>3, <1>4
  <2>2. ASSUME wpc[q] \in {"recover", "backoff"}, q[2] < MaxRestarts
        PROVE  wpc'[<<q[1], q[2] + 1>>] = "none"
    <3>1. wpc[<<q[1], q[2] + 1>>] = "none"
      BY <2>1, <2>2 DEF RunTyped, RunInOrder
    <3>2. q[2] + 1 \in 1 .. MaxRestarts
      BY <2>2, RunOfWorker
    <3>3. <<q[1], q[2] + 1>> \in Runs
      BY <3>2, RunOfWorker
    <3> QED BY <1>3, <3>1, <3>3
  <2>3. RunInOrder(q)'
    <3>1. RunInOrder(q)
      BY <2>1 DEF RunTyped
    <3> QED BY <2>1, <2>2, <3>1 DEF RunInOrder
  <2> QED BY <2>1, <2>3 DEF RunTyped
<1>6. \A q \in Runs : RunTyped(q)'
  BY <1>5
<1>7. restartCount' \in [Workers -> 0 .. MaxRestarts]
  BY DEF RunsTyped
<1> QED BY <1>3, <1>4, <1>6, <1>7 DEF RunsTyped, Cargoes

(* What the steps do to the labels of a run and what it has in hand.       *)
LEMMA Running ==
    ASSUME RunsTyped, NEW r \in Runs, NEW from, NEW to, RunStep(r, from, to)
    PROVE  wpc[r] = from /\ wpc'[r] = to /\ ChangesAt(wpc, wpc', r)
BY DEF RunsTyped, RunStep, ChangesAt

LEMMA Taking ==
    ASSUME RunsTyped, NEW r \in Runs, NEW t, current' = [current EXCEPT ![r] = t]
    PROVE  current'[r] = t /\ ChangesAt(current, current', r)
BY DEF RunsTyped, ChangesAt

(* A run that is not to count its restarts steps to a label that says      *)
(* little of the others.                                                   *)
LEMMA RunGoesOn ==
    ASSUME RunsTyped, NEW r \in Runs, NEW from, NEW to, RunStep(r, from, to),
           from # "none", to \in RunLabels \ {"none", "recover"},
           to \in {"loop", "choose", "pop", "execute", "report"} =>
              from \in {"loop", "choose", "pop", "execute", "report"},
           to = "backoff" => from = "recover" /\ restartCount[r[1]] < MaxRestarts,
           ChangesAt(current, current', r), current'[r] \in Tasks \cup {None},
           to \in {"execute", "report"} <=> current'[r] # None,
           isRunning' \in [Workers -> BOOLEAN], cancelled' \in [Workers -> BOOLEAN],
           taskCount' \in [Workers -> Nat], UNCHANGED restartCount
    PROVE  /\ RunsTyped' /\ wpc[r] = from /\ wpc'[r] = to
           /\ \A q \in Runs \ {r} : wpc'[q] = wpc[q] /\ current'[q] = current[q]
<1>1. wpc[r] = from /\ wpc'[r] = to /\ ChangesAt(wpc, wpc', r)
  BY Running
<1>2. RunTyped(r)
  BY DEF RunsTyped
<1>3. RunInOrder(r)'
  <2>1. RunInOrder(r)
    BY <1>2 DEF RunTyped
  <2>2. ASSUME to = "backoff", r[2] < MaxRestarts
        PROVE  wpc'[<<r[1], r[2] + 1>>] = "none"
    <3>1. wpc[<<r[1], r[2] + 1>>] = "none"
      BY <1>1, <2>1, <2>2 DEF RunInOrder
    <3>2. r[2] + 1 \in 1 .. MaxRestarts /\ r[2] + 1 # r[2]
      BY <2>2, RunOfWorker
    <3>3. <<r[1], r[2] + 1>> \in Runs /\ <<r[1], r[2] + 1>> # r
      BY <3>2, RunOfWorker
    <3>4. wpc \in [Runs -> RunLabels]
      BY DEF RunsTyped
    <3> QED BY <1>1, <3>1, <3>3, <3>4, ChangedAt
  <2>3. to = "backoff" => r[2] = restartCount[r[1]] /\ r[2] < MaxRestarts
    BY <1>1, <2>1 DEF RunInOrder
  <2>4. r[2] > restartCount[r[1]] + 1 => FALSE
    BY <1>1, <2>1 DEF RunInOrder
  <2>5. to \in {"loop", "choose", "pop", "execute", "report"} => r[2] = restartCount[r[1]] + 1
    BY <1>1, <2>1 DEF RunInOrder
  <2> QED BY <1>1, <2>2, <2>3, <2>4, <2>5 DEF RunInOrder
<1>4. RunTyped(r)'
  BY <1>1, <1>3 DEF RunTyped
<1> QED BY <1>1, <1>4, RunSteps

(* The oldest task of a local queue, or the task of a channel, goes.       *)
LEMMA EmptiedTypes ==
    ASSUME RoomsTyped, NEW w \in Workers, UNCHANGED <<queue, levelQueue>>,
           \/ /\ local[w] # <<>> /\ TakeOldest(w) /\ UNCHANGED chan
           \/ /\ chan[w] # <<>> /\ chan' = [chan EXCEPT ![w] = <<>>] /\ UNCHANGED local
    PROVE  RoomsTyped'
<1>1. /\ local \in [Workers -> Seq(Tasks)] /\ \A v \in Workers : Len(local[v]) <= LocalLimit
      /\ chan \in [Workers -> Seq(Tasks)] /\ \A v \in Workers : Len(chan[v]) <= 1
      /\ local[w] \in Seq(Tasks) /\ LocalLimit \in Nat
      /\ <<>> \in Seq(Tasks) /\ Len(<<>>) <= 1
  BY WorkerAssumption DEF RoomsTyped
<1>2. CASE local[w] # <<>> /\ TakeOldest(w) /\ UNCHANGED chan
  <2>1. Tail(local[w]) \in Seq(Tasks) /\ Len(Tail(local[w])) <= LocalLimit
    BY <1>1, <1>2, TakeTypes
  <2>2. local' = [local EXCEPT ![w] = Tail(local[w])]
    BY <1>2 DEF TakeOldest
  <2>3. local' \in [Workers -> Seq(Tasks)] /\ \A v \in Workers : Len(local'[v]) <= LocalLimit
    BY <1>1, <2>1, <2>2, RoomTypes
  <2> QED BY <1>2, <2>3 DEF RoomsTyped
<1>3. CASE chan[w] # <<>> /\ chan' = [chan EXCEPT ![w] = <<>>] /\ UNCHANGED local
  <2>1. chan' \in [Workers -> Seq(Tasks)] /\ \A v \in Workers : Len(chan'[v]) <= 1
    BY <1>1, <1>3, RoomTypes
  <2> QED BY <1>3, <2>1 DEF RoomsTyped
<1> QED BY <1>2, <1>3

LEMMA ResultTypes ==
    ASSUME ResultsTyped, NEW t \in Tasks, NEW outcome \in {"result", "closed"},
           SetResult(t, outcome)
    PROVE  /\ future' \in [Tasks -> {"pending", "result", "closed"}]
           /\ future'[t] = IF future[t] = "pending" THEN outcome ELSE future[t]
           /\ \A u \in Tasks \ {t} : future'[u] = future[u]
BY DEF ResultsTyped, SetResult

(* A panic ends a run: the next one is still to come.                      *)
LEMMA PanicTypes ==
    ASSUME TypeInv, NEW r \in Runs, ReportPanics(r)
    PROVE  /\ RunsTyped' /\ current[r] \in Tasks
           /\ wpc[r] \in {"execute", "report"} /\ wpc'[r] = "recover"
           /\ current' = [current EXCEPT ![r] = None]
           /\ \A q \in Runs \ {r} : wpc'[q] = wpc[q] /\ current'[q] = current[q]
<1> DEFINE w == r[1]
           n == restartCount[w]
           Cargoes == Tasks \cup {None}
<1>1. /\ w \in Workers /\ r = <<w, r[2]>> /\ r[2] \in Nat /\ r[2] \in 1 .. MaxRestarts
      /\ MaxRestarts \in Nat
  BY RunOfWorker
<1>2. /\ wpc \in [Runs -> RunLabels] /\ current \in [Runs -> Cargoes]
      /\ restartCount \in [Workers -> 0 .. MaxRestarts]
      /\ \A q \in Runs : RunTyped(q)
  BY DEF TypeInv, RunsTyped
<1>3. wpc[r] \in {"execute", "report"} /\ wpc'[r] = "recover" /\ ChangesAt(wpc, wpc', r)
  BY Running DEF ReportPanics, TypeInv
<1>4. current' = [current EXCEPT ![r] = None] /\ current'[r] = None
      /\ ChangesAt(current, current', r) /\ None \in Cargoes
  BY Taking DEF ReportPanics, TypeInv
<1>5. "recover" \in RunLabels
  BY DEF RunLabels
<1>6. wpc' \in [Runs -> RunLabels] /\ \A q \in Runs \ {r} : wpc'[q] = wpc[q]
  <2>1. wpc \in [Runs -> RunLabels] /\ wpc'[r] \in RunLabels /\ ChangesAt(wpc, wpc', r)
    BY <1>2, <1>3, <1>5
  <2> QED BY ONLY r \in Runs, <2>1, ChangedAt
<1>7. current' \in [Runs -> Cargoes] /\ \A q \in Runs \ {r} : current'[q] = current[q]
  <2> HIDE DEF Cargoes
  <2> QED BY ONLY r \in Runs, <1>2, <1>4, ChangedAt
<1>8. r[2] = n + 1 /\ n \in Nat
  <2>1. RunInOrder(r)
    BY <1>2 DEF RunTyped
  <2> QED BY <1>1, <1>2, <1>3, <2>1 DEF RunInOrder
<1>9. /\ restartCount' \in [Workers -> 0 .. MaxRestarts] /\ restartCount'[w] = n + 1
      /\ \A v \in Workers \ {w} : restartCount'[v] = restartCount[v]
  <2>1. restartCount' = [restartCount EXCEPT ![w] = n + 1]
    BY DEF ReportPanics
  <2>2. n + 1 \in 0 .. MaxRestarts
    BY <1>1, <1>8
  <2> HIDE DEF w, n
  <2> QED BY <1>1, <1>2, <2>1, <2>2
<1>10. ASSUME NEW q \in Runs PROVE RunTyped(q)'
  <2>1. /\ q[1] \in Workers /\ q[2] \in 1 .. MaxRestarts /\ q[2] \in Nat
        /\ q = <<q[1], q[2]>>
    BY RunOfWorker
  <2>2. RunInOrder(q) /\ (wpc[q] \in {"execute", "report"} <=> current[q] # None)
    BY <1>2 DEF RunTyped
  <2>3. CASE q = r
    <3>1. ASSUME r[2] < MaxRestarts PROVE wpc'[<<w, r[2] + 1>>] = "none"
      <4>1. r[2] + 1 \in 1 .. MaxRestarts /\ r[2] + 1 # r[2] /\ r[2] + 1 > n + 1
        BY <1>1, <1>8, <3>1
      <4>2. /\ <<w, r[2] + 1>> \in Runs /\ <<w, r[2] + 1>> # r
            /\ <<w, r[2] + 1>>[1] = w /\ <<w, r[2] + 1>>[2] = r[2] + 1
        BY <1>1, <4>1, RunOfWorker
      <4>3. RunInOrder(<<w, r[2] + 1>>)
        BY <1>2, <4>2 DEF RunTyped
      <4> QED BY <1>6, <4>1, <4>2, <4>3 DEF RunInOrder
    <3>2. RunInOrder(r)'
      BY <1>3, <1>8, <1>9, <3>1 DEF RunInOrder
    <3> QED BY <1>3, <1>4, <2>3, <3>2 DEF RunTyped
  <2>4. CASE q # r /\ q[1] # w
    <3>1. restartCount'[q[1]] = restartCount[q[1]]
      BY <1>9, <2>1, <2>4
    <3>2. ASSUME wpc[q] \in {"recover", "backoff"}, q[2] < MaxRestarts
          PROVE  wpc'[<<q[1], q[2] + 1>>] = "none"
      <4>1. q[2] + 1 \in 1 .. MaxRestarts
        BY <2>1, <3>2, <1>1
      <4>2. <<q[1], q[2] + 1>> \in Runs /\ <<q[1], q[2] + 1>> # r
        BY <1>1, <2>1, <2>4, <4>1, RunOfWorker
      <4> QED BY <1>6, <2>2, <3>2, <4>2 DEF RunInOrder
    <3>3. RunInOrder(q)'
      BY <1>6, <2>2, <2>4, <3>1, <3>2 DEF RunInOrder
    <3> QED BY <1>6, <1>7, <2>2, <2>4, <3>3 DEF RunTyped
  <2>5. CASE q # r /\ q[1] = w
    <3>1. wpc'[q] = wpc[q] /\ current'[q] = current[q] /\ restartCount'[q[1]] = n + 1
          /\ restartCount[q[1]] = n /\ q[2] # n + 1
      BY <1>1, <1>6, <1>7, <1>8, <1>9, <2>1, <2>5
    <3>2. wpc[q] \notin {"recover", "backoff"}
      <4> SUFFICES ASSUME wpc[q] \in {"recover", "backoff"} PROVE FALSE
        OBVIOUS
      <4>1. q[2] = n /\ q[2] < MaxRestarts
        BY <1>1, <1>8, <2>2, <3>1 DEF RunInOrder
      <4>2. <<q[1], q[2] + 1>> = r
        BY <1>1, <1>8, <2>5, <4>1
      <4> QED BY <1>3, <2>2, <4>1, <4>2 DEF RunInOrder
    <3>3. q[2] > n + 2 => wpc[q] = "none"
      BY <1>8, <2>1, <2>2, <3>1 DEF RunInOrder
    <3>4. q[2] <= n + 1 => wpc[q] # "none"
      BY <1>8, <2>1, <2>2, <3>1 DEF RunInOrder
    <3>5. wpc[q] \notin {"loop", "choose", "pop", "execute", "report"}
      BY <1>8, <2>1, <2>2, <3>1 DEF RunInOrder
    <3>6. n + 1 + 1 = n + 2
      BY <1>8
    <3> HIDE DEF n
    <3>7. RunInOrder(q)'
      BY <3>1, <3>2, <3>3, <3>4, <3>5, <3>6 DEF RunInOrder
    <3> QED BY <2>2, <3>1, <3>7 DEF RunTyped
  <2> QED BY <2>3, <2>4, <2>5
<1>11. current[r] \in Tasks
  BY <1>2, <1>3 DEF RunTyped
<1>12. \A q \in Runs : RunTyped(q)'
  BY <1>10
<1>13. /\ isRunning' \in [Workers -> BOOLEAN] /\ cancelled' \in [Workers -> BOOLEAN]
       /\ taskCount' \in [Workers -> Nat]
  BY DEF ReportPanics, stopVars, TypeInv, RunsTyped
<1> QED BY <1>3, <1>4, <1>6, <1>7, <1>9, <1>11, <1>12, <1>13 DEF RunsTyped, Cargoes

(* The run that is started next is the one after the run that recovers.    *)
LEMMA RestartTypes ==
    ASSUME TypeInv, NEW r \in Runs, Restart(r)
    PROVE  /\ RunsTyped' /\ wpc[r] = "backoff"
           /\ \A q \in Runs : \/ wpc'[q] = wpc[q]
                              \/ wpc'[q] \in {"exiting", "loop"} /\ wpc[q] \in {"none", "backoff"}
<1> DEFINE w == r[1]
           n == restartCount[w]
           next == <<w, n + 1>>
<1>1. /\ w \in Workers /\ r = <<w, r[2]>> /\ r[2] \in Nat /\ r[2] \in 1 .. MaxRestarts
      /\ MaxRestarts \in Nat
  BY RunOfWorker
<1>2. /\ wpc \in [Runs -> RunLabels] /\ wpc[r] = "backoff"
      /\ \A q \in Runs : RunTyped(q)
  BY DEF TypeInv, RunsTyped, Restart
<1>3. r[2] = n /\ n \in Nat /\ n < MaxRestarts /\ wpc[next] = "none"
  BY <1>1, <1>2 DEF RunTyped, RunInOrder
<1>4. n + 1 \in 1 .. MaxRestarts
  BY <1>1, <1>3
<1>5. next \in Runs /\ next # r /\ next[1] = w /\ next[2] = n + 1
  <2>1. n + 1 # n
    BY <1>3
  <2> QED BY <1>1, <1>3, <1>4, <2>1, RunOfWorker
<1>6. NextRun(w) = next
  <2> DEFINE P(k) == /\ wpc[<<w, k>>] = "none"
                     /\ \A j \in 1 .. k - 1 : wpc[<<w, j>>] # "none"
  <2>1. ASSUME NEW k \in 1 .. MaxRestarts
        PROVE  k <= n => wpc[<<w, k>>] # "none"
    <3>1. <<w, k>> \in Runs /\ <<w, k>>[1] = w /\ <<w, k>>[2] = k
      BY <1>1, RunOfWorker
    <3>2. RunInOrder(<<w, k>>)
      BY <1>2, <3>1 DEF RunTyped
    <3> QED BY <3>1, <3>2 DEF RunInOrder
  <2>2. P(n + 1)
    <3>1. \A j \in 1 .. n + 1 - 1 : j \in 1 .. MaxRestarts /\ j <= n
      BY <1>1, <1>3
    <3> QED BY <1>3, <2>1, <3>1
  <2>3. ASSUME NEW k \in 1 .. MaxRestarts, P(k) PROVE k = n + 1
    <3>1. ~(k <= n)
      BY <2>1, <2>3
    <3>2. ~(k > n + 1)
      <4> SUFFICES ASSUME k > n + 1 PROVE FALSE
        OBVIOUS
      <4>1. n + 1 \in 1 .. k - 1
        BY <1>3
      <4> QED BY <1>3, <2>3, <4>1
    <3> QED BY <1>3, <3>1, <3>2
  <2>4. (CHOOSE k \in 1 .. MaxRestarts : P(k)) = n + 1
    <3> HIDE DEF P, n
    <3> QED BY <1>4, <2>2, <2>3
  <2> QED BY <2>4 DEF NextRun
<1>7. /\ wpc' \in [Runs -> RunLabels] /\ wpc'[r] = "exiting" /\ wpc'[next] = "loop"
      /\ \A q \in Runs \ {r, next} : wpc'[q] = wpc[q]
  <2>1. wpc' = [wpc EXCEPT ![r] = "exiting", ![next] = "loop"]
    BY <1>6 DEF Restart
  <2>2. "exiting" \in RunLabels /\ "loop" \in RunLabels
    BY DEF RunLabels
  <2> HIDE DEF next
  <2> QED BY <1>2, <1>5, <2>1, <2>2
<1>8. UNCHANGED <<current, stopVars, countVars>>
  BY DEF Restart
<1>9. ASSUME NEW q \in Runs PROVE RunTyped(q)'
  <2>1. /\ q[1] \in Workers /\ q[2] \in 1 .. MaxRestarts /\ q[2] \in Nat
        /\ q = <<q[1], q[2]>>
    BY RunOfWorker
  <2>2. /\ RunInOrder(q) /\ (wpc[q] \in {"execute", "report"} <=> current[q] # None)
        /\ current'[q] = current[q] /\ restartCount'[q[1]] = restartCount[q[1]]
    BY <1>2, <1>8 DEF RunTyped, countVars
  <2>3. CASE q = r
    <3>1. RunInOrder(q)'
      BY <1>3, <1>7, <2>2, <2>3 DEF RunInOrder
    <3> QED BY <1>2, <1>7, <2>2, <2>3, <3>1 DEF RunTyped
  <2>4. CASE q = next
    <3>1. RunInOrder(q)'
      <4> HIDE DEF next
      <4> QED BY <1>3, <1>5, <1>7, <2>2, <2>4 DEF RunInOrder
    <3>2. wpc[q] = "none" /\ wpc'[q] = "loop"
      BY <1>3, <1>7, <2>4
    <3> QED BY <2>2, <3>1, <3>2 DEF RunTyped
  <2>5. CASE q \notin {r, next}
    <3>1. wpc'[q] = wpc[q]
      BY <1>7, <2>5
    <3>2. ASSUME wpc[q] \in {"recover", "backoff"}, q[2] < MaxRestarts
          PROVE  wpc'[<<q[1], q[2] + 1>>] = "none"
      <4>1. q[2] + 1 \in 1 .. MaxRestarts /\ q[2] = restartCount[q[1]]
        BY <1>1, <2>1, <2>2, <3>2 DEF RunInOrder
      <4>2. q[1] # w
        BY <1>1, <1>3, <2>1, <2>5, <4>1
      <4>3. <<q[1], q[2] + 1>> \in Runs /\ <<q[1], q[2] + 1>> \notin {r, next}
        BY <1>1, <2>1, <4>1, <4>2, RunOfWorker
      <4>4. wpc[<<q[1], q[2] + 1>>] = "none"
        BY <2>2, <3>2 DEF RunInOrder
      <4> QED BY <1>7, <4>3, <4>4
    <3>3. RunInOrder(q)'
      BY <2>2, <3>1, <3>2 DEF RunInOrder
    <3> QED BY <2>2, <3>1, <3>3 DEF RunTyped
  <2> QED BY <2>3, <2>4, <2>5
<1>10. RunsTyped'
  BY <1>7, <1>8, <1>9 DEF TypeInv, RunsTyped, stopVars, countVars
<1>11. \A q \in Runs : \/ wpc'[q] = wpc[q]
                       \/ wpc'[q] \in {"exiting", "loop"} /\ wpc[q] \in {"none", "backoff"}
  <2> HIDE DEF next
  <2> QED BY <1>2, <1>3, <1>7
<1> QED BY <1>2, <1>10, <1>11

(* A run steps on, or a worker is stopped.                                 *)
LEMMA WorkerTypes ==
    ASSUME TypeInv, WorkerNext, UNCHANGED schedulerVars
    PROVE  TypeInv'
<1> USE DEF TypeInv
<1>1. SendTyped' /\ LifeTyped' /\ ScanTyped' /\ UNCHANGED <<queue, levelQueue, dropped>>
  <2>1. UNCHANGED <<pc, target, inHand, moved, level, overtaken, scan, scans, lifeVars,
                    queue, levelQueue, dropped>>
    BY DEF schedulerVars, sendVars, queueVars
  <2> QED BY <2>1, KeepTheirTypes
<1>2. /\ isRunning \in [Workers -> BOOLEAN] /\ cancelled \in [Workers -> BOOLEAN]
      /\ taskCount \in [Workers -> Nat] /\ \A r \in Runs : RunTyped(r)
      /\ current \in [Runs -> Tasks \cup {None}]
  BY DEF RunsTyped
<1>3. ASSUME NEW w \in Workers, StopWorker(w) PROVE RoomsTyped' /\ RunsTyped' /\ ResultsTyped'
  <2>1. UNCHANGED <<roomVars, runVars, countVars, resultVars>>
    BY <1>3 DEF StopWorker
  <2>2. RoomsTyped' /\ ResultsTyped'
    BY <1>1, <2>1, KeepTheirTypes DEF roomVars, resultVars
  <2>3. isRunning' \in [Workers -> BOOLEAN] /\ cancelled' \in [Workers -> BOOLEAN]
    BY <1>2, <1>3 DEF StopWorker
  <2>4. \A r \in Runs : RunTyped(r)'
    BY <1>2, <2>1 DEF RunTyped, RunInOrder, runVars, countVars
  <2> QED BY <2>1, <2>2, <2>3, <2>4 DEF RunsTyped, runVars, countVars
<1>4. ASSUME NEW r \in Runs, ReportPanics(r) PROVE RoomsTyped' /\ RunsTyped' /\ ResultsTyped'
  <2>1. RunsTyped' /\ current[r] \in Tasks
    BY <1>4, PanicTypes
  <2>2. RoomsTyped'
    BY <1>1, <1>4, KeepTheirTypes DEF ReportPanics, roomVars
  <2>3. ResultsTyped'
    BY <1>1, <1>4, <2>1 DEF ReportPanics, ResultsTyped
  <2> QED BY <2>1, <2>2, <2>3
<1>5. ASSUME NEW r \in Runs, RunNext(r) PROVE RoomsTyped' /\ RunsTyped' /\ ResultsTyped'
  <2> DEFINE w == r[1]
  <2>1. w \in Workers /\ RunTyped(r) /\ ChangesAt(current, current, r)
    BY <1>2, RunOfWorker DEF ChangesAt
  <2>2. ASSUME NEW from, NEW to, RunStep(r, from, to), UNCHANGED <<current, countVars, stopVars>>,
               from \in {"loop", "choose", "pop", "exiting", "drainLocal", "drainChan"},
               to \in {"loop", "choose", "pop", "exiting", "drainLocal", "drainChan", "stopped"},
               to \in {"loop", "choose", "pop"} => from \in {"loop", "choose", "pop"}
        PROVE  RunsTyped'
    <3>1. wpc[r] = from
      BY <2>2 DEF RunStep
    <3>2. current[r] = None
      BY <2>1, <2>2, <3>1 DEF RunTyped
    <3>3. to \in RunLabels \ {"none", "recover", "execute", "report", "backoff"} /\ from # "none"
      BY <2>2 DEF RunLabels
    <3> QED BY <1>2, <2>1, <2>2, <3>2, <3>3, RunGoesOn DEF countVars, stopVars
  <2>3. CASE LoopTest(r) \/ SeeDone(r) \/ NoneReady(r) \/ FindNothing(r)
    <3>1. RunsTyped'
      BY <2>2, <2>3 DEF LoopTest, SeeDone, NoneReady, FindNothing
    <3>2. UNCHANGED <<roomVars, resultVars>>
      BY <2>3 DEF LoopTest, SeeDone, NoneReady, FindNothing
    <3> QED BY <1>1, <3>1, <3>2, KeepTheirTypes DEF roomVars, resultVars
  <2>4. ASSUME NEW t \in Tasks, NEW from \in {"choose", "pop"}, Begin(r, from, t),
               UNCHANGED <<stopVars, countVars, future, unanswered>>
        PROVE  RunsTyped' /\ ResultsTyped'
    <3>1. current'[r] = t /\ ChangesAt(current, current', r) /\ t # None
      BY <2>4, Taking, Names DEF Begin
    <3>2. "execute" \in RunLabels
      BY DEF RunLabels
    <3>3. RunsTyped'
      BY <1>2, <2>4, <3>1, <3>2, RunGoesOn DEF Begin, stopVars, countVars
    <3>4. ResultsTyped'
      BY <1>1, <2>4 DEF ResultsTyped, Begin
    <3> QED BY <3>3, <3>4
  <2>5. CASE ReceiveChan(r)
    <3>1. chan[w] \in Seq(Tasks) /\ chan[w] # <<>>
      BY <2>1, <2>5 DEF RoomsTyped, ReceiveChan
    <3>2. Head(chan[w]) \in Tasks
      BY <3>1, Removed
    <3>3. RoomsTyped'
      BY <1>1, <2>1, <2>5, <3>1, EmptiedTypes DEF ReceiveChan
    <3> QED BY <2>4, <2>5, <3>2, <3>3 DEF ReceiveChan
  <2>6. CASE DequeueLocal(r)
    <3>1. local[w] \in Seq(Tasks) /\ local[w] # <<>>
      BY <2>1, <2>6 DEF RoomsTyped, DequeueLocal
    <3>2. Head(local[w]) \in Tasks
      BY <3>1, Removed
    <3>3. RoomsTyped'
      BY <1>1, <2>1, <2>6, <3>1, EmptiedTypes DEF DequeueLocal
    <3> QED BY <2>4, <2>6, <3>2, <3>3 DEF DequeueLocal
  <2>7. CASE TaskReturns(r)
    <3>1. RunStep(r, "execute", "report") /\ UNCHANGED <<current, restartCount, stopVars>>
      BY <2>7 DEF TaskReturns
    <3>2. current[r] # None
      BY <2>1, <3>1 DEF RunTyped, RunStep
    <3>3. taskCount' \in [Workers -> Nat]
      BY <1>2, <2>1, <2>7 DEF TaskReturns
    <3>4. "report" \in RunLabels
      BY DEF RunLabels
    <3>5. RunsTyped'
      BY <1>2, <2>1, <3>1, <3>2, <3>3, <3>4, RunGoesOn DEF stopVars
    <3>6. RoomsTyped' /\ ResultsTyped'
      BY <1>1, <2>7, KeepTheirTypes DEF TaskReturns, roomVars, resultVars
    <3> QED BY <3>5, <3>6
  <2>8. CASE ReportResult(r)
    <3>1. RunStep(r, "report", "loop") /\ UNCHANGED <<stopVars, countVars>>
      BY <2>8 DEF ReportResult
    <3>2. current'[r] = None /\ ChangesAt(current, current', r)
      BY <2>8, Taking DEF ReportResult
    <3>3. "loop" \in RunLabels
      BY DEF RunLabels
    <3>4. RunsTyped'
      BY <1>2, <3>1, <3>2, <3>3, RunGoesOn DEF stopVars, countVars
    <3>5. current[r] \in Tasks
      BY <1>2, <2>1, <3>1 DEF RunTyped, RunStep
    <3>6. ResultsTyped'
      BY <1>1, <2>8, <3>5, ResultTypes DEF ReportResult, ResultsTyped
    <3>7. RoomsTyped'
      BY <1>1, <2>8, KeepTheirTypes DEF ReportResult, roomVars
    <3> QED BY <3>4, <3>6, <3>7
  <2>9. CASE Recover(r)
    <3>1. isRunning' \in [Workers -> BOOLEAN]
      BY <1>2, <2>9 DEF Recover
    <3>2. UNCHANGED <<current, cancelled, countVars, roomVars, resultVars>>
      BY <2>9 DEF Recover
    <3>3. PICK to \in {"backoff", "exiting"} :
             RunStep(r, "recover", to) /\ (to = "backoff" => restartCount[w] < MaxRestarts)
      BY <2>9 DEF Recover
    <3>4. current[r] = None
      BY <2>1, <3>3 DEF RunTyped, RunStep
    <3>5. to \in RunLabels \ {"none", "recover", "loop", "choose", "execute", "report"}
      BY DEF RunLabels
    <3>6. RunsTyped'
      BY <1>2, <2>1, <3>1, <3>2, <3>3, <3>4, <3>5, RunGoesOn DEF countVars
    <3> QED BY <1>1, <3>2, <3>6, KeepTheirTypes DEF roomVars, resultVars
  <2>10. CASE Restart(r)
    <3>1. RunsTyped'
      BY <2>10, RestartTypes
    <3>2. UNCHANGED <<roomVars, resultVars>>
      BY <2>10 DEF Restart
    <3> QED BY <1>1, <3>1, <3>2, KeepTheirTypes DEF roomVars, resultVars
  <2>11. CASE RunExits(r)
    <3>1. isRunning' \in [Workers -> BOOLEAN]
      BY <1>2, <2>11 DEF RunExits, MarkStopped
    <3>2. /\ RunStep(r, "exiting", "drainLocal")
          /\ UNCHANGED <<current, cancelled, countVars, roomVars, resultVars>>
      BY <2>11 DEF RunExits
    <3>3. current[r] = None
      BY <2>1, <3>2 DEF RunTyped, RunStep
    <3>4. "drainLocal" \in RunLabels
      BY DEF RunLabels
    <3>5. RunsTyped'
      BY <1>2, <2>1, <3>1, <3>2, <3>3, <3>4, RunGoesOn DEF countVars
    <3> QED BY <1>1, <3>2, <3>5, KeepTheirTypes DEF roomVars, resultVars
  <2>12. CASE DrainLocal(r)
    <3>1. UNCHANGED <<chan, current, stopVars, countVars, started, unanswered>>
      BY <2>12 DEF DrainLocal
    <3>2. CASE local[w] = <<>>
      <4>1. RunStep(r, "drainLocal", "drainChan") /\ UNCHANGED <<local, future>>
        BY <2>12, <3>2 DEF DrainLocal
      <4>2. RunsTyped'
        BY <2>2, <3>1, <4>1
      <4> QED BY <1>1, <3>1, <4>1, <4>2, KeepTheirTypes
    <3>3. CASE local[w] # <<>>
      <4>1. TakeOldest(w) /\ SetResult(Head(local[w]), "closed") /\ UNCHANGED wpc
        BY <2>12, <3>3 DEF DrainLocal, Discard
      <4>2. Head(local[w]) \in Tasks
        BY <2>1, <3>3, Removed DEF RoomsTyped
      <4>3. ResultsTyped'
        BY <1>1, <3>1, <4>1, <4>2, ResultTypes DEF ResultsTyped
      <4>4. RoomsTyped'
        BY <1>1, <2>1, <3>1, <3>3, <4>1, EmptiedTypes
      <4>5. RunsTyped'
        BY <3>1, <4>1, KeepTheirTypes DEF runVars
      <4> QED BY <4>3, <4>4, <4>5
    <3> QED BY <3>2, <3>3
  <2>13. CASE DrainChan(r)
    <3>1. UNCHANGED <<local, current, stopVars, countVars, started, unanswered>>
      BY <2>13 DEF DrainChan
    <3>2. CASE chan[w] = <<>>
      <4>1. RunStep(r, "drainChan", "stopped") /\ UNCHANGED <<chan, future>>
        BY <2>13, <3>2 DEF DrainChan
      <4>2. RunsTyped'
        BY <2>2, <3>1, <4>1
      <4> QED BY <1>1, <3>1, <4>1, <4>2, KeepTheirTypes
    <3>3. CASE chan[w] # <<>>
      <4>1. /\ chan' = [chan EXCEPT ![w] = <<>>] /\ SetResult(Head(chan[w]), "closed")
            /\ UNCHANGED wpc
        BY <2>13, <3>3 DEF DrainChan, Discard
      <4>2. Head(chan[w]) \in Tasks
        BY <2>1, <3>3, Removed DEF RoomsTyped
      <4>3. ResultsTyped'
        BY <1>1, <3>1, <4>1, <4>2, ResultTypes DEF ResultsTyped
      <4>4. RoomsTyped'
        BY <1>1, <2>1, <3>1, <3>3, <4>1, EmptiedTypes
      <4>5. RunsTyped'
        BY <3>1, <4>1, KeepTheirTypes DEF runVars
      <4> QED BY <4>3, <4>4, <4>5
    <3> QED BY <3>2, <3>3
  <2> QED BY <1>5, <2>3, <2>5, <2>6, <2>7, <2>8, <2>9, <2>10, <2>11, <2>12, <2>13 DEF RunNext
<1> QED BY <1>1, <1>3, <1>4, <1>5 DEF WorkerNext
-----------------------------------------------------------------------------
(* Every state has its types.                                              *)

LEMMA TypeInitially == Init => TypeInv
<1> SUFFICES ASSUME Init PROVE TypeInv
  OBVIOUS
<1>1. PICK s \in Scenarios :
         /\ WorkerInit(s.local, s.chan, s.count, s.up)
         /\ queue = s.queue
         /\ pc = [x \in Senders |-> IF x \in Loops THEN "wait"
                                    ELSE IF x \in s.callers THEN "new"
                                    ELSE IF x \in Held(s) THEN "accepted"
                                    ELSE "absent"]
  BY DEF Init
<1>2. /\ accepting = TRUE /\ schedDone = FALSE /\ starts = 1 /\ waiting = FALSE
      /\ levelQueue = [l \in Levels |-> <<>>] /\ overtaken = {}
      /\ target = [x \in Senders |-> 0]
      /\ inHand = [x \in Loops |-> None] /\ moved = [x \in Loops |-> 0]
      /\ level = TopLevel /\ scan = NoScan /\ scans = 0 /\ dropped = {}
  BY DEF Init
<1>3. /\ s.local \in [Workers -> Seq(Tasks)] /\ s.chan \in [Workers -> Seq(Tasks)]
      /\ s.queue \in Seq(Tasks) /\ Len(s.queue) <= QueueLimit
      /\ \A w \in Workers : Len(s.local[w]) <= LocalLimit /\ Len(s.chan[w]) <= 1
      /\ s.count \in [Workers -> Nat]
  BY ScenarioAssumption
<1>4. /\ local = s.local /\ chan = s.chan /\ taskCount = s.count
      /\ isRunning = [w \in Workers |-> w \in s.up]
      /\ cancelled = [w \in Workers |-> w \notin s.up]
      /\ restartCount = [w \in Workers |-> 0]
      /\ wpc = [r \in Runs |-> IF r[2] > 1 THEN "none"
                               ELSE IF r[1] \in s.up THEN "loop" ELSE "stopped"]
      /\ current = [r \in Runs |-> None]
      /\ future = [t \in Tasks |-> "pending"]
      /\ started = {} /\ unanswered = {}
  BY <1>1 DEF WorkerInit
<1>5. RoomsTyped
  <2>1. /\ levelQueue \in [Levels -> Seq(Tasks)]
        /\ \A l \in Levels : Len(levelQueue[l]) <= LevelLimit
    <3>1. <<>> \in Seq(Tasks) /\ Len(<<>>) <= LevelLimit
      BY SchedulerAssumption
    <3> QED BY <1>2, <3>1
  <2> QED BY <1>1, <1>3, <1>4, <2>1 DEF RoomsTyped
<1>6. RunsTyped
  <2>1. MaxRestarts \in Nat /\ 0 \in 0 .. MaxRestarts
    BY RunOfWorker
  <2>2. wpc \in [Runs -> RunLabels]
    BY <1>4 DEF RunLabels
  <2>3. ASSUME NEW r \in Runs PROVE RunTyped(r)
    <3>1. /\ r[1] \in Workers /\ r[2] \in 1 .. MaxRestarts /\ r[2] \in Nat
          /\ restartCount[r[1]] = 0 /\ current[r] = None
          /\ wpc[r] = IF r[2] > 1 THEN "none"
                      ELSE IF r[1] \in s.up THEN "loop" ELSE "stopped"
      BY <1>4, RunOfWorker
    <3> QED BY <3>1 DEF RunTyped, RunInOrder
  <2>4. /\ isRunning \in [Workers -> BOOLEAN] /\ cancelled \in [Workers -> BOOLEAN]
        /\ taskCount \in [Workers -> Nat]
        /\ restartCount \in [Workers -> 0 .. MaxRestarts]
        /\ current \in [Runs -> Tasks \cup {None}]
    BY <1>3, <1>4, <2>1
  <2> QED BY <2>2, <2>3, <2>4 DEF RunsTyped
<1>7. ResultsTyped
  BY <1>2, <1>4 DEF ResultsTyped
<1>8. LifeTyped
  <2>1. MaxStarts \in Nat \ {0}
    BY SchedulerAssumption
  <2>2. 1 \in 1 .. MaxStarts
    BY <2>1
  <2> QED BY <1>2, <2>2 DEF LifeTyped
<1>9. SendTyped
  <2>1. pc \in [Senders -> TaskLabels \cup LoopLabels]
    BY <1>1 DEF TaskLabels, LoopLabels
  <2>2. level \in Levels
    BY <1>2, TopLevelExists
  <2>3. ASSUME NEW q \in Senders PROVE SenderTyped(q)
    <3>1. target[q] = 0 /\ pc[q] \notin {"local", "chan"}
      BY <1>1, <1>2, <2>3
    <3>2. CASE q \in Tasks
      <4>1. pc[q] \in {"new", "accepted", "absent"} /\ q \notin Loops
        BY <1>1, <3>2, Names
      <4> QED BY <3>1, <3>2, <4>1 DEF SenderTyped, LabelsOf, TaskLabels
    <3>3. CASE q \in Loops
      <4>1. pc[q] = "wait" /\ inHand[q] = None /\ moved[q] = 0
        BY <1>1, <1>2, <3>3, Names
      <4>2. 0 <= Batch(q)
        BY <2>2, SchedulerAssumption DEF Batch
      <4>3. LoopTyped(q)
        BY <4>1, <4>2 DEF LoopTyped, Sending
      <4>4. "wait" \in LabelsOf(q)
        BY <3>3, Names DEF LabelsOf
      <4> QED BY <3>1, <4>1, <4>3, <4>4 DEF SenderTyped
    <3> QED BY <3>2, <3>3 DEF Senders
  <2> QED BY <1>2, <2>1, <2>2, <2>3 DEF SendTyped
<1>10. ScanTyped
  <2>1. pc[StealingLoop] = "wait" /\ 0 \in 0 .. MaxScans
    BY <1>1, Names, SchedulerAssumption
  <2> QED BY <1>2, <2>1, NoScanTypes DEF ScanTyped
<1> QED BY <1>5, <1>6, <1>7, <1>8, <1>9, <1>10 DEF TypeInv

LEMMA TypeSteps == TypeInv /\ [Next]_vars => TypeInv'
<1> SUFFICES ASSUME TypeInv, [Next]_vars PROVE TypeInv'
  OBVIOUS
<1>1. CASE WorkerNext /\ UNCHANGED schedulerVars
  BY <1>1, WorkerTypes
<1>2. ASSUME NEW t \in Tasks, Schedule(t) \/ CallerStep(t) PROVE TypeInv'
  BY <1>2, CallerTypes, SendTypes, Names DEF CallerStep
<1>3. ASSUME NEW s \in Loops, LoopStep(s) PROVE TypeInv'
  BY <1>3, DequeueTypes, StealTypes, SendTypes, ExitTypes, Names DEF LoopStep, OwnStep
<1>4. CASE Stop \/ StopReturned \/ StartAgain
  BY <1>4, LifeTypes
<1>5. CASE UNCHANGED vars
  <2>1. UNCHANGED <<queue, levelQueue, local, chan, runVars, stopVars, countVars, future,
                    started, unanswered, dropped, lifeVars, pc, target, inHand, moved,
                    level, overtaken, scan, scans>>
    BY <1>5 DEF vars, workerVars, roomVars, resultVars, queueVars, sendVars
  <2> QED BY <2>1, KeepTheirTypes DEF TypeInv
<1> QED BY <1>1, <1>2, <1>3, <1>4, <1>5 DEF Next

LEMMA TypesAreOK == TypeInv => TypeOK
<1> SUFFICES ASSUME TypeInv PROVE TypeOK
  OBVIOUS
<1> USE DEF TypeInv
<1>1. WorkerTypeOK
  <2>1. \A r \in Runs : wpc[r] \in {"execute", "report"} <=> current[r] # None
    BY DEF RunsTyped, RunTyped
  <2> QED BY <2>1 DEF RoomsTyped, RunsTyped, ResultsTyped, WorkerTypeOK
<1>2. \A s \in Senders : SenderTyped(s)
  BY DEF SendTyped
<1>3. \A t \in Tasks : pc[t] \in TaskLabels
  BY <1>2, Names DEF SenderTyped, LabelsOf
<1>4. \A s \in Loops : /\ pc[s] \in LoopLabels
                       /\ inHand[s] # None <=>
                             pc[s] \in {"select", "local", "chan", "level", "global"}
  BY <1>2, Names DEF SenderTyped, LabelsOf, LoopLabels, LoopTyped, Sending
<1>5. \A s \in Senders : pc[s] \in {"local", "chan"} <=> target[s] # 0
  BY <1>2 DEF SenderTyped
<1>6. moved[GlobalLoop] \in 0 .. GlobalBatch /\ moved[PriorityLoop] \in 0 .. BatchAt[level]
  <2>1. /\ moved[GlobalLoop] \in Nat /\ moved[GlobalLoop] <= GlobalBatch
        /\ moved[PriorityLoop] \in Nat /\ moved[PriorityLoop] <= BatchAt[level]
    BY <1>2, Names DEF SendTyped, SenderTyped, LoopTyped, Batch
  <2>2. GlobalBatch \in Nat /\ BatchAt[level] \in Nat
    BY SchedulerAssumption DEF SendTyped
  <2> QED BY <2>1, <2>2
<1>7. /\ scan.busiest \in {0} \cup Workers /\ scan.idlest \in {0} \cup Workers
      /\ scans \in 0 .. MaxScans
  BY DEF ScanTyped
<1>8. /\ accepting \in BOOLEAN /\ schedDone \in BOOLEAN /\ waiting \in BOOLEAN
      /\ starts \in 1 .. MaxStarts /\ dropped \subseteq Tasks
  BY DEF LifeTyped, ResultsTyped
<1>9. /\ queue \in Seq(Tasks) /\ Len(queue) <= QueueLimit
      /\ levelQueue \in [Levels -> Seq(Tasks)]
      /\ \A l \in Levels : Len(levelQueue[l]) <= LevelLimit
  BY DEF RoomsTyped
<1>10. /\ overtaken \subseteq Senders /\ target \in [Senders -> {0} \cup Workers]
       /\ inHand \in [Loops -> Tasks \cup {None}] /\ level \in Levels
  BY DEF SendTyped
<1> QED BY <1>1, <1>3, <1>4, <1>5, <1>6, <1>7, <1>8, <1>9, <1>10 DEF TypeOK

(* The variables have their types, no queue, channel or batch exceeds its  *)
(* limit, a loop has a task in hand exactly while it is sending it and a   *)
(* run exactly while it executes or reports it, and a restart count never  *)
(* exceeds maxRestarts (worker.go:252-281).                                *)
THEOREM TypeCorrect == Spec => []TypeOK
<1>1. Spec => []TypeInv
  BY TypeInitially, TypeSteps, PTL DEF Spec
<1> QED BY <1>1, TypesAreOK, PTL
-----------------------------------------------------------------------------
(* Holders.                                                                *)

HolderKinds ==
    /\ Global \in Queues /\ Caller \in Holders \ Queues /\ Queues \subseteq Holders
    /\ \A l \in Levels : Level(l) \in Queues /\ Level(l) # Global
    /\ \A w \in Workers : /\ Local(w) \in Queues /\ Chan(w) \in Queues
                          /\ Local(w) # Global /\ Chan(w) # Global
    /\ \A l \in Levels, w \in Workers : Level(l) # Local(w) /\ Level(l) # Chan(w)
    /\ \A v, w \in Workers : /\ Local(v) # Chan(w)
                             /\ v # w => Local(v) # Local(w) /\ Chan(v) # Chan(w)
    /\ \A l, m \in Levels : l # m => Level(l) # Level(m)
    /\ \A r \in Runs : Hand(r) \in Hands /\ Hand(r) \in Holders
    /\ \A s \in Loops : Mover(s) \in Movers /\ Mover(s) \in Holders
    /\ \A q, r \in Runs : q # r => Hand(q) # Hand(r)
    /\ \A q, s \in Loops : q # s => Mover(q) # Mover(s)
    /\ Hands \cap (Queues \cup Movers \cup {Caller}) = {}
    /\ Movers \cap (Queues \cup {Caller}) = {}
    /\ \A h \in Queues : \/ h = Global \/ \E l \in Levels : h = Level(l)
                         \/ \E w \in Workers : h = Local(w) \/ h = Chan(w)
    /\ \A h \in Holders : \/ h = Caller \/ h \in Queues
                          \/ \E r \in Runs : h = Hand(r)
                          \/ \E s \in Loops : h = Mover(s)

(* The holders' names are distinct, and these are all of them.             *)
LEMMA HoldersDiffer == HolderKinds
<1> USE DEF Global, Caller, Level, Local, Chan, Hand, Mover
<1>1. /\ Global \in Queues /\ Caller \in Holders /\ Queues \subseteq Holders
      /\ \A l \in Levels : Level(l) \in Queues /\ Level(l) # Global
      /\ \A w \in Workers : /\ Local(w) \in Queues /\ Chan(w) \in Queues
                            /\ Local(w) # Global /\ Chan(w) # Global
  BY DEF Queues, Holders
<1>2. /\ \A l \in Levels, w \in Workers : Level(l) # Local(w) /\ Level(l) # Chan(w)
      /\ \A v, w \in Workers : /\ Local(v) # Chan(w)
                               /\ v # w => Local(v) # Local(w) /\ Chan(v) # Chan(w)
      /\ \A l, m \in Levels : l # m => Level(l) # Level(m)
  OBVIOUS
<1>3. /\ \A r \in Runs : Hand(r) \in Hands /\ Hand(r) \in Holders
      /\ \A s \in Loops : Mover(s) \in Movers /\ Mover(s) \in Holders
      /\ \A q, r \in Runs : q # r => Hand(q) # Hand(r)
      /\ \A q, s \in Loops : q # s => Mover(q) # Mover(s)
  BY DEF Hands, Movers, Holders
<1>4. /\ \A h \in Queues : \/ h = Global \/ \E l \in Levels : h = Level(l)
                           \/ \E w \in Workers : h = Local(w) \/ h = Chan(w)
      /\ \A h \in Hands : \E r \in Runs : h = Hand(r)
      /\ \A h \in Movers : \E s \in Loops : h = Mover(s)
  BY DEF Queues, Hands, Movers
<1>5. /\ \A h \in Hands : h[1] = "run"
      /\ \A h \in Movers : h[1] = "loop"
      /\ \A h \in Queues : h[1] \in {"global", "level", "local", "chan"}
      /\ Caller[1] = "caller"
  <2>1. \A h \in Hands : h[1] = "run"
    BY <1>4
  <2>2. \A h \in Movers : h[1] = "loop"
    BY <1>4
  <2>3. \A h \in Queues : h[1] \in {"global", "level", "local", "chan"}
    BY <1>4
  <2> QED BY <2>1, <2>2, <2>3
<1> HIDE DEF Global, Caller, Level, Local, Chan, Hand, Mover
<1>6. /\ Hands \cap (Queues \cup Movers \cup {Caller}) = {}
      /\ Movers \cap (Queues \cup {Caller}) = {} /\ Caller \notin Queues
  BY <1>5
<1>7. \A h \in Holders : \/ h = Caller \/ h \in Queues
                         \/ \E r \in Runs : h = Hand(r)
                         \/ \E s \in Loops : h = Mover(s)
  BY <1>4 DEF Holders
<1> QED BY <1>1, <1>2, <1>3, <1>4, <1>6, <1>7 DEF HolderKinds

(* What each holder holds, read off the variables.                         *)
HeldByKind ==
    /\ held[Global] = Elements(queue)
    /\ held[Caller] = {t \in Tasks : pc[t] \in Sending}
    /\ \A l \in Levels : held[Level(l)] = Elements(levelQueue[l])
    /\ \A w \in Workers : /\ held[Local(w)] = Elements(local[w])
                          /\ held[Chan(w)] = Elements(chan[w])
    /\ \A r \in Runs : held[Hand(r)] = {current[r]} \ {None}
    /\ \A s \in Loops : held[Mover(s)] = {inHand[s]} \ {None}
    /\ \A h \in Holders : held[h] \subseteq Tasks

(* In a typed state, held is what the variables say.                       *)
LEMMA HeldIs == TypeInv => HeldByKind
<1> SUFFICES ASSUME TypeInv PROVE HeldByKind
  OBVIOUS
<1>1. HolderKinds
  BY HoldersDiffer
<1>2. \A h \in Holders : held[h] = {t \in Tasks : Holds(h, t)}
  BY DEF held
<1>3. None \notin Tasks
  BY Names
<1>4. ASSUME NEW q \in Seq(Tasks) PROVE Elements(q) \subseteq Tasks
  BY DEF Elements
<1>5. held[Global] = Elements(queue)
  <2>1. Elements(queue) \subseteq Tasks
    BY <1>4 DEF TypeInv, RoomsTyped
  <2>2. \A t : Holds(Global, t) <=> t \in Elements(queue)
    BY <1>1 DEF Holds, HolderKinds
  <2>3. Global \in Holders
    BY <1>1 DEF HolderKinds
  <2> QED BY <1>2, <2>1, <2>2, <2>3
<1>6. held[Caller] = {t \in Tasks : pc[t] \in Sending}
  <2>1. \A t : Holds(Caller, t) <=> pc[t] \in Sending
    BY <1>1 DEF Holds, HolderKinds
  <2> QED BY <1>1, <1>2, <2>1 DEF HolderKinds
<1>7. ASSUME NEW l \in Levels PROVE held[Level(l)] = Elements(levelQueue[l])
  <2>1. Elements(levelQueue[l]) \subseteq Tasks
    BY <1>4 DEF TypeInv, RoomsTyped
  <2>2. \A t : Holds(Level(l), t) <=> t \in Elements(levelQueue[l])
    BY <1>1 DEF Holds, HolderKinds
  <2>3. Level(l) \in Holders
    BY <1>1 DEF HolderKinds
  <2> QED BY <1>2, <2>1, <2>2, <2>3
<1>8. ASSUME NEW w \in Workers
      PROVE  held[Local(w)] = Elements(local[w]) /\ held[Chan(w)] = Elements(chan[w])
  <2>1. Elements(local[w]) \subseteq Tasks /\ Elements(chan[w]) \subseteq Tasks
    BY <1>4 DEF TypeInv, RoomsTyped
  <2>2. \A t : Holds(Local(w), t) <=> t \in Elements(local[w])
    BY <1>1 DEF Holds, HolderKinds
  <2>3. \A t : Holds(Chan(w), t) <=> t \in Elements(chan[w])
    BY <1>1 DEF Holds, HolderKinds
  <2>4. Local(w) \in Holders /\ Chan(w) \in Holders
    BY <1>1 DEF HolderKinds
  <2>5. held[Local(w)] = Elements(local[w])
    BY <1>2, <2>1, <2>2, <2>4
  <2>6. held[Chan(w)] = Elements(chan[w])
    BY <1>2, <2>1, <2>3, <2>4
  <2> QED BY <2>5, <2>6
<1>9. ASSUME NEW r \in Runs PROVE held[Hand(r)] = {current[r]} \ {None}
  <2>1. current[r] \in Tasks \cup {None}
    BY DEF TypeInv, RunsTyped
  <2>2. \A t : Holds(Hand(r), t) <=> current[r] = t
    BY <1>1 DEF Holds, HolderKinds
  <2>3. Hand(r) \in Holders
    BY <1>1 DEF HolderKinds
  <2> QED BY <1>2, <1>3, <2>1, <2>2, <2>3
<1>10. ASSUME NEW s \in Loops PROVE held[Mover(s)] = {inHand[s]} \ {None}
  <2>1. inHand[s] \in Tasks \cup {None}
    BY DEF TypeInv, SendTyped
  <2>2. \A t : Holds(Mover(s), t) <=> inHand[s] = t
    BY <1>1 DEF Holds, HolderKinds
  <2>3. Mover(s) \in Holders
    BY <1>1 DEF HolderKinds
  <2> QED BY <1>2, <1>3, <2>1, <2>2, <2>3
<1>11. \A h \in Holders : held[h] \subseteq Tasks
  BY <1>2
<1> QED BY <1>5, <1>6, <1>7, <1>8, <1>9, <1>10, <1>11 DEF HeldByKind

(* After a step the same holds of the new state.                           *)
LEMMA HeldIsNext == TypeInv' => HeldByKind'
BY HeldIs, PTL
-----------------------------------------------------------------------------
(* What a step does to the tasks held: nothing, or one task is now with b, *)
(* or one task is now with nobody.                                         *)

Still == \A h \in Holders : held'[h] = held[h]

Handed(t, b) ==
    \A h \in Holders : held'[h] = IF h = b THEN held[h] \cup {t} ELSE held[h] \ {t}

Freed(t) == \A h \in Holders : held'[h] = held[h] \ {t}

(* A task that leaves one holder for another is then with nobody else.     *)
LEMMA HandOver ==
    ASSUME Apart, NEW t, NEW a \in Holders, NEW b \in Holders, a # b, t \in held[a],
           held'[a] = held[a] \ {t}, held'[b] = held[b] \cup {t},
           \A h \in Holders \ {a, b} : held'[h] = held[h]
    PROVE  Handed(t, b)
<1>1. \A h \in Holders \ {a} : t \notin held[h]
  BY DEF Apart
<1>2. \A h \in Holders \ {b} : held'[h] = held[h] \ {t}
  BY <1>1
<1> QED BY <1>2 DEF Handed

(* A task that leaves its holder for nobody is then with nobody.           *)
LEMMA LetGo ==
    ASSUME Apart, NEW t, NEW a \in Holders, t \in held[a], held'[a] = held[a] \ {t},
           \A h \in Holders \ {a} : held'[h] = held[h]
    PROVE  Freed(t)
BY DEF Apart, Freed

(* A holder keeps what it holds if its variable has not changed.           *)
LEMMA KeptByKind ==
    ASSUME HeldByKind, HeldByKind'
    PROVE  /\ queue' = queue => held'[Global] = held[Global]
           /\ (\A t \in Tasks : pc'[t] \in Sending <=> pc[t] \in Sending) =>
                 held'[Caller] = held[Caller]
           /\ \A l \in Levels :
                 levelQueue'[l] = levelQueue[l] => held'[Level(l)] = held[Level(l)]
           /\ \A w \in Workers :
                 /\ local'[w] = local[w] => held'[Local(w)] = held[Local(w)]
                 /\ chan'[w] = chan[w] => held'[Chan(w)] = held[Chan(w)]
           /\ \A r \in Runs : current'[r] = current[r] => held'[Hand(r)] = held[Hand(r)]
           /\ \A s \in Loops : inHand'[s] = inHand[s] => held'[Mover(s)] = held[Mover(s)]
<1>1. queue' = queue => held'[Global] = held[Global]
  BY DEF HeldByKind
<1>2. ASSUME \A t \in Tasks : pc'[t] \in Sending <=> pc[t] \in Sending
      PROVE  held'[Caller] = held[Caller]
  BY <1>2 DEF HeldByKind
<1>3. ASSUME NEW l \in Levels
      PROVE  levelQueue'[l] = levelQueue[l] => held'[Level(l)] = held[Level(l)]
  <2>1. /\ held[Level(l)] = Elements(levelQueue[l])
        /\ held'[Level(l)] = Elements(levelQueue'[l])
    BY DEF HeldByKind
  <2> QED BY <2>1
<1>4. ASSUME NEW w \in Workers
      PROVE  /\ local'[w] = local[w] => held'[Local(w)] = held[Local(w)]
             /\ chan'[w] = chan[w] => held'[Chan(w)] = held[Chan(w)]
  <2>1. /\ held[Local(w)] = Elements(local[w]) /\ held'[Local(w)] = Elements(local'[w])
        /\ held[Chan(w)] = Elements(chan[w]) /\ held'[Chan(w)] = Elements(chan'[w])
    BY DEF HeldByKind
  <2> QED BY <2>1
<1>5. ASSUME NEW r \in Runs
      PROVE  current'[r] = current[r] => held'[Hand(r)] = held[Hand(r)]
  <2>1. /\ held[Hand(r)] = {current[r]} \ {None}
        /\ held'[Hand(r)] = {current'[r]} \ {None}
    BY DEF HeldByKind
  <2> QED BY <2>1
<1>6. ASSUME NEW s \in Loops
      PROVE  inHand'[s] = inHand[s] => held'[Mover(s)] = held[Mover(s)]
  <2>1. /\ held[Mover(s)] = {inHand[s]} \ {None}
        /\ held'[Mover(s)] = {inHand'[s]} \ {None}
    BY DEF HeldByKind
  <2> QED BY <2>1
<1> QED BY <1>1, <1>2, <1>3, <1>4, <1>5, <1>6

(* What the steps of callers, loops and runs leave with whom.              *)
LEMMA OthersKeep ==
    ASSUME HeldByKind, HeldByKind'
    PROVE  /\ UNCHANGED <<queue, levelQueue, local, chan>> =>
                 \A h \in Queues : held'[h] = held[h]
           /\ UNCHANGED current => \A h \in Hands : held'[h] = held[h]
           /\ UNCHANGED inHand => \A h \in Movers : held'[h] = held[h]
           /\ (\A t \in Tasks : pc'[t] = pc[t]) => held'[Caller] = held[Caller]
<1>1. HolderKinds
  BY HoldersDiffer
<1>2. UNCHANGED <<queue, levelQueue, local, chan>> => \A h \in Queues : held'[h] = held[h]
  BY <1>1, KeptByKind DEF HolderKinds
<1>3. UNCHANGED current => \A h \in Hands : held'[h] = held[h]
  BY KeptByKind DEF Hands
<1>4. UNCHANGED inHand => \A h \in Movers : held'[h] = held[h]
  BY KeptByKind DEF Movers
<1>5. (\A t \in Tasks : pc'[t] = pc[t]) => held'[Caller] = held[Caller]
  BY KeptByKind
<1> QED BY <1>2, <1>3, <1>4, <1>5
-----------------------------------------------------------------------------
(* The effects of the steps.                                               *)

(* How far a task's caller is.                                             *)
Stage(t) == IF pc[t] \in {"absent", "new"} THEN "new"
            ELSE IF pc[t] \in {"refused", "accepted"} THEN pc[t] ELSE "offered"

StagesKept == \A u \in Tasks : Stage(u)' = Stage(u)

StageGoes(t, from, to) ==
    /\ Stage(t) = from /\ Stage(t)' = to
    /\ \A u \in Tasks \ {t} : Stage(u)' = Stage(u)

(* Some worker is through with its tasks or throws them away.              *)
Ending == \E r \in Runs : wpc[r] \in {"drainLocal", "drainChan", "stopped"}

RunsKept ==
    /\ UNCHANGED <<current, started, unanswered, future>>
    /\ \A r \in Runs : current[r] # None => wpc'[r] = wpc[r]

Quiet == RunsKept /\ (Ending' <=> Ending)

(* Nothing that counts.                                                    *)
Idle == Still /\ RunsKept /\ StagesKept /\ UNCHANGED dropped /\ (Ending => Ending')

(* What callers and loops do.                                              *)
Offered(t) ==
    /\ Quiet /\ UNCHANGED dropped /\ StageGoes(t, "new", "offered")
    /\ Still \/ Handed(t, Caller)

Refused(t) ==
    Quiet /\ UNCHANGED dropped /\ StageGoes(t, "offered", "refused") /\ Still

Accepted(t, b) ==
    Quiet /\ UNCHANGED dropped /\ StageGoes(t, "offered", "accepted") /\ Handed(t, b)

Moved(t, b) ==
    /\ Quiet /\ UNCHANGED dropped /\ StagesKept /\ Handed(t, b)
    /\ \E a \in Queues \cup Movers : t \in held[a]

GivenUp(t) ==
    Quiet /\ UNCHANGED dropped /\ StagesKept /\ Freed(t) /\ Stage(t) = "offered"

Lost(t) ==
    /\ Quiet /\ dropped' = dropped \cup {t} /\ StagesKept /\ Freed(t)
    /\ \E a \in Movers : t \in held[a]

(* What a run does.                                                        *)
OnlyRun(r) ==
    /\ StagesKept /\ UNCHANGED dropped /\ (Ending' <=> Ending)
    /\ \A q \in Runs \ {r} : wpc'[q] = wpc[q] /\ current'[q] = current[q]

Begun(t, r) ==
    /\ OnlyRun(r) /\ Handed(t, Hand(r)) /\ \E a \in Queues : t \in held[a]
    /\ current[r] = None /\ current'[r] = t /\ wpc'[r] = "execute"
    /\ started' = started \cup {t} /\ UNCHANGED <<unanswered, future>>

Returned(r) ==
    /\ OnlyRun(r) /\ Still /\ wpc[r] = "execute" /\ wpc'[r] = "report"
    /\ UNCHANGED <<current, started, unanswered, future>>

Reported(r) ==
    /\ OnlyRun(r) /\ Freed(current[r]) /\ wpc[r] = "report" /\ current'[r] = None
    /\ SetResult(current[r], "result") /\ UNCHANGED <<started, unanswered>>

CutShort(r) ==
    /\ OnlyRun(r) /\ Freed(current[r]) /\ wpc[r] \in {"execute", "report"}
    /\ current'[r] = None
    /\ unanswered' = unanswered \cup {current[r]} /\ UNCHANGED <<started, future>>

Discarded(t) ==
    /\ Ending /\ UNCHANGED <<wpc, current, started, unanswered, dropped>> /\ StagesKept
    /\ Freed(t) /\ \E a \in Queues : t \in held[a]
    /\ SetResult(t, "closed")

Effects ==
    \/ Idle
    \/ \E t \in Tasks : \/ Offered(t) \/ Refused(t) \/ GivenUp(t) \/ Lost(t) \/ Discarded(t)
                        \/ \E b \in Queues : Accepted(t, b)
                        \/ \E b \in Queues \cup Movers : Moved(t, b)
                        \/ \E r \in Runs : Begun(t, r)
    \/ \E r \in Runs : Returned(r) \/ Reported(r) \/ CutShort(r)
-----------------------------------------------------------------------------
(* Every step has one of them: first those of senders.                     *)

Bearer(s) == IF s \in Loops THEN Mover(s) ELSE Caller

(* The task being sent is with its sender.                                 *)
LEMMA SenderHolds ==
    ASSUME TypeInv, NEW s \in Senders, pc[s] \in Sending
    PROVE  /\ Bearer(s) \in Holders \ Queues /\ Cargo(s) \in held[Bearer(s)]
           /\ Cargo(s) \in Tasks
           /\ s \in Loops => Bearer(s) \in Movers
<1>1. Cargo(s) \in Tasks /\ HeldByKind /\ HolderKinds
  BY CargoIsTask, HeldIs, HoldersDiffer DEF TypeInv
<1>2. CASE s \in Loops
  <2>1. held[Mover(s)] = {inHand[s]} \ {None} /\ Cargo(s) = inHand[s]
    BY <1>1, <1>2 DEF HeldByKind, Cargo
  <2>2. Mover(s) \in Holders /\ Mover(s) \in Movers /\ Mover(s) \notin Queues
    BY <1>1, <1>2 DEF HolderKinds
  <2> QED BY <1>1, <1>2, <2>1, <2>2, Names DEF Bearer
<1>3. CASE s \notin Loops
  <2>1. s \in Tasks /\ Cargo(s) = s /\ Bearer(s) = Caller
    BY <1>3 DEF Senders, Cargo, Bearer
  <2>2. held[Caller] = {t \in Tasks : pc[t] \in Sending} /\ Caller \in Holders \ Queues
    BY <1>1 DEF HeldByKind, HolderKinds
  <2> QED BY <1>1, <1>3, <2>1, <2>2
<1> QED BY <1>2, <1>3

(* A sender that is rid of its task no longer holds it; the other senders  *)
(* hold what they held.                                                    *)
LEMMA SenderLeaves ==
    ASSUME TypeInv, TypeInv', NEW s \in Senders, pc[s] \in Sending,
           \A q \in Senders \ {s} : pc'[q] = pc[q],
           s \in Loops => inHand' = [inHand EXCEPT ![s] = None],
           s \in Tasks => inHand' = inHand /\ pc'[s] \notin Sending
    PROVE  /\ held'[Bearer(s)] = held[Bearer(s)] \ {Cargo(s)}
           /\ \A h \in (Movers \cup {Caller}) \ {Bearer(s)} : held'[h] = held[h]
<1>1. HeldByKind /\ HeldByKind' /\ HolderKinds
  BY HeldIs, HeldIsNext, HoldersDiffer
<1>2. CASE s \in Loops
  <2>1. inHand'[s] = None /\ \A q \in Loops \ {s} : inHand'[q] = inHand[q]
    BY <1>2 DEF TypeInv, SendTyped
  <2>2. \A t \in Tasks : pc'[t] = pc[t]
    BY <1>2, Names
  <2>3. held[Mover(s)] = {inHand[s]} \ {None} /\ held'[Mover(s)] = {inHand'[s]} \ {None}
    BY <1>1, <1>2 DEF HeldByKind
  <2>4. held'[Bearer(s)] = held[Bearer(s)] \ {Cargo(s)}
    BY <1>2, <2>1, <2>3 DEF Bearer, Cargo
  <2>5. held'[Caller] = held[Caller]
    BY <1>1, <2>2, OthersKeep
  <2>6. ASSUME NEW q \in Loops, Mover(q) # Mover(s) PROVE held'[Mover(q)] = held[Mover(q)]
    <3>1. inHand'[q] = inHand[q]
      BY <2>1, <2>6
    <3> QED BY <1>1, <3>1, KeptByKind
  <2> QED BY <1>2, <2>4, <2>5, <2>6 DEF Bearer, Movers
<1>3. CASE s \notin Loops
  <2>1. s \in Tasks /\ Bearer(s) = Caller /\ Cargo(s) = s
    BY <1>3 DEF Senders, Bearer, Cargo
  <2>2. \A t \in Tasks \ {s} : pc'[t] = pc[t]
    BY Names
  <2>3. /\ held[Caller] = {t \in Tasks : pc[t] \in Sending}
        /\ held'[Caller] = {t \in Tasks : pc'[t] \in Sending}
    BY <1>1 DEF HeldByKind
  <2>4. held'[Caller] = held[Caller] \ {s}
    BY <2>1, <2>2, <2>3
  <2>5. \A h \in Movers : held'[h] = held[h]
    BY <1>1, <2>1, OthersKeep
  <2> QED BY <2>1, <2>4, <2>5
<1> QED BY <1>2, <1>3

(* A sender that steps on without delivering anything.                     *)
LEMMA SenderKeeps ==
    ASSUME TypeInv, TypeInv', NEW s \in Senders,
           \A q \in Senders \ {s} : pc'[q] = pc[q],
           s \in Tasks => (pc'[s] \in Sending <=> pc[s] \in Sending),
           UNCHANGED <<queue, levelQueue, local, chan, inHand, current>>
    PROVE  Still
<1>1. HeldByKind /\ HeldByKind' /\ HolderKinds
  BY HeldIs, HeldIsNext, HoldersDiffer
<1>2. \A t \in Tasks : pc'[t] \in Sending <=> pc[t] \in Sending
  BY Names
<1>3. held'[Caller] = held[Caller]
  BY <1>1, <1>2, KeptByKind
<1>4. \A h \in Queues \cup Hands \cup Movers : held'[h] = held[h]
  BY <1>1, OthersKeep
<1> QED BY <1>3, <1>4 DEF Still, Holders
-----------------------------------------------------------------------------
(* What happens to the queues: one gains a task, or one loses a task.      *)

Gained(c) ==
    \E b \in Queues : /\ held'[b] = held[b] \cup {c}
                      /\ \A h \in Queues \ {b} : held'[h] = held[h]

Gave(c) ==
    \E a \in Queues : /\ c \in held[a] /\ held'[a] = held[a] \ {c}
                      /\ \A h \in Queues \ {a} : held'[h] = held[h]

(* The queue that changes is b.                                            *)
LEMMA OneQueue ==
    ASSUME TypeInv, TypeInv', NEW b \in Queues,
           b = Global \/ queue' = queue,
           \A l \in Levels : b = Level(l) \/ levelQueue'[l] = levelQueue[l],
           \A w \in Workers : /\ b = Local(w) \/ local'[w] = local[w]
                              /\ b = Chan(w) \/ chan'[w] = chan[w]
    PROVE  \A h \in Queues \ {b} : held'[h] = held[h]
<1>1. HeldByKind /\ HeldByKind' /\ HolderKinds
  BY HeldIs, HeldIsNext, HoldersDiffer
<1> SUFFICES ASSUME NEW h \in Queues \ {b} PROVE held'[h] = held[h]
  OBVIOUS
<1>2. CASE h = Global
  BY <1>1, <1>2, KeptByKind
<1>3. ASSUME NEW l \in Levels, h = Level(l) PROVE held'[h] = held[h]
  BY <1>1, <1>3, KeptByKind
<1>4. ASSUME NEW w \in Workers, h = Local(w) \/ h = Chan(w) PROVE held'[h] = held[h]
  BY <1>1, <1>4, KeptByKind
<1> QED BY <1>1, <1>2, <1>3, <1>4 DEF HolderKinds

LEMMA QueueGains ==
    ASSUME TypeInv, TypeInv', QueuedOnce, NEW c \in Tasks, \A h \in Queues : c \notin held[h],
           \/ queue' = Append(queue, c) /\ UNCHANGED <<levelQueue, local, chan>>
           \/ \E l \in Levels : /\ levelQueue' = [levelQueue EXCEPT ![l] = Append(@, c)]
                                /\ UNCHANGED <<queue, local, chan>>
           \/ \E w \in Workers : /\ local' = [local EXCEPT ![w] = Append(@, c)]
                                 /\ UNCHANGED <<queue, levelQueue, chan>>
           \/ \E w \in Workers : /\ chan[w] = <<>> /\ chan' = [chan EXCEPT ![w] = <<c>>]
                                 /\ UNCHANGED <<queue, levelQueue, local>>
    PROVE  Gained(c) /\ QueuedOnce'
<1>1. HeldByKind /\ HeldByKind' /\ HolderKinds
  BY HeldIs, HeldIsNext, HoldersDiffer
<1>2. /\ queue \in Seq(Tasks) /\ levelQueue \in [Levels -> Seq(Tasks)]
      /\ local \in [Workers -> Seq(Tasks)] /\ chan \in [Workers -> Seq(Tasks)]
  BY DEF TypeInv, RoomsTyped
<1>3. CASE queue' = Append(queue, c) /\ UNCHANGED <<levelQueue, local, chan>>
  <2>1. c \notin Elements(queue) /\ Global \in Queues
    BY <1>1 DEF HeldByKind, HolderKinds
  <2>2. Elements(queue') = Elements(queue) \cup {c} /\ NoRepeats(queue')
    BY <1>2, <1>3, <2>1, Appended DEF QueuedOnce
  <2>3. held'[Global] = held[Global] \cup {c}
    BY <1>1, <2>2 DEF HeldByKind
  <2>4. \A h \in Queues \ {Global} : held'[h] = held[h]
    BY <1>3, <2>1, OneQueue
  <2>5. QueuedOnce'
    BY <1>3, <2>2 DEF QueuedOnce
  <2> QED BY <2>1, <2>3, <2>4, <2>5 DEF Gained
<1>4. ASSUME NEW l \in Levels, levelQueue' = [levelQueue EXCEPT ![l] = Append(@, c)],
             UNCHANGED <<queue, local, chan>>
      PROVE  Gained(c) /\ QueuedOnce'
  <2>1. /\ levelQueue'[l] = Append(levelQueue[l], c)
        /\ \A m \in Levels \ {l} : levelQueue'[m] = levelQueue[m]
        /\ levelQueue[l] \in Seq(Tasks)
    BY <1>2, <1>4
  <2>2. c \notin Elements(levelQueue[l]) /\ Level(l) \in Queues
    BY <1>1 DEF HeldByKind, HolderKinds
  <2>3. /\ Elements(levelQueue'[l]) = Elements(levelQueue[l]) \cup {c}
        /\ NoRepeats(levelQueue'[l])
    BY <2>1, <2>2, Appended DEF QueuedOnce
  <2>4. held'[Level(l)] = held[Level(l)] \cup {c}
    BY <1>1, <2>3 DEF HeldByKind
  <2>5. \A h \in Queues \ {Level(l)} : held'[h] = held[h]
    BY <1>4, <2>1, <2>2, OneQueue
  <2>6. QueuedOnce'
    BY <1>4, <2>1, <2>3 DEF QueuedOnce
  <2> QED BY <2>2, <2>4, <2>5, <2>6 DEF Gained
<1>5. ASSUME NEW w \in Workers, local' = [local EXCEPT ![w] = Append(@, c)],
             UNCHANGED <<queue, levelQueue, chan>>
      PROVE  Gained(c) /\ QueuedOnce'
  <2>1. /\ local'[w] = Append(local[w], c)
        /\ \A v \in Workers \ {w} : local'[v] = local[v]
        /\ local[w] \in Seq(Tasks)
    BY <1>2, <1>5
  <2>2. c \notin Elements(local[w]) /\ Local(w) \in Queues
    BY <1>1 DEF HeldByKind, HolderKinds
  <2>3. /\ Elements(local'[w]) = Elements(local[w]) \cup {c}
        /\ NoRepeats(local'[w])
    BY <2>1, <2>2, Appended DEF QueuedOnce
  <2>4. held'[Local(w)] = held[Local(w)] \cup {c}
    BY <1>1, <2>3 DEF HeldByKind
  <2>5. \A h \in Queues \ {Local(w)} : held'[h] = held[h]
    BY <1>5, <2>1, <2>2, OneQueue
  <2>6. QueuedOnce'
    BY <1>5, <2>1, <2>3 DEF QueuedOnce
  <2> QED BY <2>2, <2>4, <2>5, <2>6 DEF Gained
<1>6. ASSUME NEW w \in Workers, chan[w] = <<>>, chan' = [chan EXCEPT ![w] = <<c>>],
             UNCHANGED <<queue, levelQueue, local>>
      PROVE  Gained(c) /\ QueuedOnce'
  <2>1. /\ chan'[w] = <<c>> /\ \A v \in Workers \ {w} : chan'[v] = chan[v]
        /\ Chan(w) \in Queues
    BY <1>1, <1>2, <1>6 DEF HolderKinds
  <2>2. Elements(chan'[w]) = Elements(chan[w]) \cup {c} /\ NoRepeats(chan'[w])
    BY <1>6, <2>1, OneElement
  <2>3. held'[Chan(w)] = held[Chan(w)] \cup {c}
    BY <1>1, <2>2 DEF HeldByKind
  <2>4. \A h \in Queues \ {Chan(w)} : held'[h] = held[h]
    BY <1>6, <2>1, OneQueue
  <2>5. QueuedOnce'
    BY <1>6, <2>1, <2>2 DEF QueuedOnce
  <2> QED BY <2>1, <2>3, <2>4, <2>5 DEF Gained
<1> QED BY <1>3, <1>4, <1>5, <1>6

(* A channel with a task has one.                                          *)
LEMMA ChannelIsSingle ==
    ASSUME NEW q \in Seq(Tasks), q # <<>>, Len(q) <= 1
    PROVE  Head(q) \in Tasks /\ Elements(q) = {Head(q)}
<1>1. /\ Head(q) \in Tasks /\ Tail(q) \in Seq(Tasks) /\ Len(q) \in Nat
      /\ Len(Tail(q)) = Len(q) - 1
      /\ Elements(q) = Elements(Tail(q)) \cup {Head(q)} /\ Len(q) > 0
  BY Removed
<1>2. Len(Tail(q)) = 0
  BY <1>1
<1>3. Elements(Tail(q)) = {}
  BY <1>2 DEF Elements
<1> QED BY <1>1, <1>3

LEMMA QueueGives ==
    ASSUME TypeInv, TypeInv', QueuedOnce, NEW c,
           \/ /\ queue # <<>> /\ c = Head(queue) /\ queue' = Tail(queue)
              /\ UNCHANGED <<levelQueue, local, chan>>
           \/ \E l \in Levels : /\ levelQueue[l] # <<>> /\ c = Head(levelQueue[l])
                                /\ levelQueue' = [levelQueue EXCEPT ![l] = Tail(@)]
                                /\ UNCHANGED <<queue, local, chan>>
           \/ \E w \in Workers : /\ local[w] # <<>>
                                 /\ \/ c = Head(local[w]) /\ TakeOldest(w)
                                    \/ c = Newest(w) /\ TakeNewest(w)
                                 /\ UNCHANGED <<queue, levelQueue, chan>>
           \/ \E w \in Workers : /\ chan[w] # <<>> /\ c = Head(chan[w])
                                 /\ chan' = [chan EXCEPT ![w] = <<>>]
                                 /\ UNCHANGED <<queue, levelQueue, local>>
    PROVE  c \in Tasks /\ Gave(c) /\ QueuedOnce'
<1>1. HeldByKind /\ HeldByKind' /\ HolderKinds
  BY HeldIs, HeldIsNext, HoldersDiffer
<1>2. /\ queue \in Seq(Tasks) /\ levelQueue \in [Levels -> Seq(Tasks)]
      /\ local \in [Workers -> Seq(Tasks)] /\ chan \in [Workers -> Seq(Tasks)]
      /\ \A w \in Workers : Len(chan[w]) <= 1
  BY DEF TypeInv, RoomsTyped
<1>a. ASSUME NEW q \in Seq(Tasks), q # <<>>, NoRepeats(q)
      PROVE  /\ Head(q) \in Tasks /\ Head(q) \in Elements(q)
             /\ Elements(Tail(q)) = Elements(q) \ {Head(q)} /\ NoRepeats(Tail(q))
  BY <1>a, Removed
<1>3. CASE /\ queue # <<>> /\ c = Head(queue) /\ queue' = Tail(queue)
           /\ UNCHANGED <<levelQueue, local, chan>>
  <2>1. /\ c \in Tasks /\ c \in Elements(queue)
        /\ Elements(queue') = Elements(queue) \ {c} /\ NoRepeats(queue')
    BY <1>2, <1>3, <1>a DEF QueuedOnce
  <2>2. c \in held[Global] /\ held'[Global] = held[Global] \ {c} /\ Global \in Queues
    BY <1>1, <2>1 DEF HeldByKind, HolderKinds
  <2>3. \A h \in Queues \ {Global} : held'[h] = held[h]
    BY <1>3, <2>2, OneQueue
  <2>4. QueuedOnce'
    BY <1>3, <2>1 DEF QueuedOnce
  <2> QED BY <2>1, <2>2, <2>3, <2>4 DEF Gave
<1>4. ASSUME NEW l \in Levels, levelQueue[l] # <<>>, c = Head(levelQueue[l]),
             levelQueue' = [levelQueue EXCEPT ![l] = Tail(@)],
             UNCHANGED <<queue, local, chan>>
      PROVE  c \in Tasks /\ Gave(c) /\ QueuedOnce'
  <2>1. /\ levelQueue'[l] = Tail(levelQueue[l])
        /\ \A m \in Levels \ {l} : levelQueue'[m] = levelQueue[m]
        /\ levelQueue[l] \in Seq(Tasks)
    BY <1>2, <1>4
  <2>2. /\ c \in Tasks /\ c \in Elements(levelQueue[l])
        /\ Elements(levelQueue'[l]) = Elements(levelQueue[l]) \ {c}
        /\ NoRepeats(levelQueue'[l])
    BY <1>4, <2>1, <1>a DEF QueuedOnce
  <2>3. /\ c \in held[Level(l)] /\ held'[Level(l)] = held[Level(l)] \ {c}
        /\ Level(l) \in Queues
    BY <1>1, <2>2 DEF HeldByKind, HolderKinds
  <2>4. \A h \in Queues \ {Level(l)} : held'[h] = held[h]
    BY <1>4, <2>1, <2>3, OneQueue
  <2>5. QueuedOnce'
    BY <1>4, <2>1, <2>2 DEF QueuedOnce
  <2> QED BY <2>2, <2>3, <2>4, <2>5 DEF Gave
<1>5. ASSUME NEW w \in Workers, local[w] # <<>>,
             \/ c = Head(local[w]) /\ TakeOldest(w)
             \/ c = Newest(w) /\ TakeNewest(w),
             UNCHANGED <<queue, levelQueue, chan>>
      PROVE  c \in Tasks /\ Gave(c) /\ QueuedOnce'
  <2>1. local[w] \in Seq(Tasks) /\ NoRepeats(local[w])
    BY <1>2 DEF QueuedOnce
  <2>2. /\ c \in Tasks /\ c \in Elements(local[w])
        /\ Elements(local'[w]) = Elements(local[w]) \ {c} /\ NoRepeats(local'[w])
        /\ \A v \in Workers \ {w} : local'[v] = local[v]
    <3>1. CASE c = Head(local[w]) /\ TakeOldest(w)
      <4>1. /\ local'[w] = Tail(local[w])
            /\ \A v \in Workers \ {w} : local'[v] = local[v]
        BY <1>2, <3>1 DEF TakeOldest
      <4> QED BY <1>5, <2>1, <3>1, <4>1, <1>a
    <3>2. CASE c = Newest(w) /\ TakeNewest(w)
      <4> DEFINE q == local[w]
                 r == SubSeq(q, 1, Len(q) - 1)
      <4>1. local' = [local EXCEPT ![w] = r] /\ c = q[Len(q)]
        BY <3>2 DEF TakeNewest, Newest
      <4>2. local'[w] = r /\ \A v \in Workers \ {w} : local'[v] = local[v]
        <5> HIDE DEF r
        <5> QED BY <1>2, <4>1
      <4>3. /\ q[Len(q)] \in Tasks /\ q[Len(q)] \in Elements(q)
            /\ Elements(q) = Elements(r) \cup {q[Len(q)]}
            /\ NoRepeats(r) /\ q[Len(q)] \notin Elements(r)
        BY <1>5, <2>1, LastTaken
      <4> HIDE DEF r
      <4> QED BY <4>1, <4>2, <4>3
    <3> QED BY <1>5, <3>1, <3>2
  <2>3. /\ c \in held[Local(w)] /\ held'[Local(w)] = held[Local(w)] \ {c}
        /\ Local(w) \in Queues
    BY <1>1, <2>2 DEF HeldByKind, HolderKinds
  <2>4. \A h \in Queues \ {Local(w)} : held'[h] = held[h]
    BY <1>5, <2>2, <2>3, OneQueue
  <2>5. QueuedOnce'
    BY <1>5, <2>2 DEF QueuedOnce
  <2> QED BY <2>2, <2>3, <2>4, <2>5 DEF Gave
<1>6. ASSUME NEW w \in Workers, chan[w] # <<>>, c = Head(chan[w]),
             chan' = [chan EXCEPT ![w] = <<>>], UNCHANGED <<queue, levelQueue, local>>
      PROVE  c \in Tasks /\ Gave(c) /\ QueuedOnce'
  <2>1. chan'[w] = <<>> /\ \A v \in Workers \ {w} : chan'[v] = chan[v]
    BY <1>2, <1>6
  <2>2. /\ c \in Tasks /\ Elements(chan[w]) = {c}
        /\ Elements(chan'[w]) = {} /\ NoRepeats(chan'[w])
    <3>1. c \in Tasks /\ Elements(chan[w]) = {c}
      BY <1>2, <1>6, ChannelIsSingle
    <3> QED BY <2>1, <3>1, OneElement
  <2>3. c \in held[Chan(w)] /\ held'[Chan(w)] = held[Chan(w)] \ {c} /\ Chan(w) \in Queues
    BY <1>1, <2>2 DEF HeldByKind, HolderKinds
  <2>4. \A h \in Queues \ {Chan(w)} : held'[h] = held[h]
    BY <1>6, <2>1, <2>3, OneQueue
  <2>5. QueuedOnce'
    BY <1>6, <2>1, <2>2 DEF QueuedOnce
  <2> QED BY <2>2, <2>3, <2>4, <2>5 DEF Gave
<1> QED BY <1>3, <1>4, <1>5, <1>6
-----------------------------------------------------------------------------
(* The effects of the steps of senders.                                    *)

(* What a step of the loops, or of a worker's owner, leaves alone.         *)
LEMMA StagesStay ==
    ASSUME \A t \in Tasks : pc'[t] = pc[t] PROVE StagesKept
BY DEF StagesKept, Stage

LEMMA QuietStep ==
    ASSUME UNCHANGED <<runVars, future, started, unanswered>> PROVE Quiet
BY DEF Quiet, RunsKept, Ending, runVars

(* No queue has what a sender has.                                         *)
LEMMA SenderAlone ==
    ASSUME SchedInv, NEW s \in Senders, pc[s] \in Sending
    PROVE  \A h \in Queues : Cargo(s) \notin held[h]
BY SenderHolds, HoldersDiffer DEF SchedInv, Ownership, Apart, HolderKinds

(* A queue has it now.                                                     *)
LEMMA SenderDelivers ==
    ASSUME SchedInv, TypeInv', NEW s \in Senders, pc[s] \in Sending,
           \A q \in Senders \ {s} : pc'[q] = pc[q],
           UNCHANGED <<runVars, future, started, unanswered, dropped>>,
           s \in Loops => inHand' = [inHand EXCEPT ![s] = None],
           s \in Tasks => inHand' = inHand /\ pc'[s] = "accepted",
           Gained(Cargo(s))
    PROVE  \E t \in Tasks : \E b \in Queues : Accepted(t, b) \/ Moved(t, b)
<1> DEFINE c == Cargo(s)
<1>1. TypeInv /\ Apart /\ HolderKinds /\ HeldByKind /\ HeldByKind'
  BY HoldersDiffer, HeldIs, HeldIsNext DEF SchedInv, Ownership
<1>2. /\ Bearer(s) \in Holders \ Queues /\ c \in held[Bearer(s)] /\ c \in Tasks
      /\ s \in Loops => Bearer(s) \in Movers
  BY <1>1, SenderHolds
<1>3. /\ held'[Bearer(s)] = held[Bearer(s)] \ {c}
      /\ \A h \in (Movers \cup {Caller}) \ {Bearer(s)} : held'[h] = held[h]
  BY <1>1, SenderLeaves DEF Sending
<1>4. PICK b \in Queues : /\ held'[b] = held[b] \cup {c}
                          /\ \A h \in Queues \ {b} : held'[h] = held[h]
  BY DEF Gained
<1>5. \A h \in Hands : held'[h] = held[h]
  BY <1>1, OthersKeep DEF runVars
<1> HIDE DEF c
<1>6. Handed(c, b)
  <2>1. b \in Holders /\ Bearer(s) # b
    BY <1>1, <1>2 DEF HolderKinds
  <2>2. \A h \in Holders \ {Bearer(s), b} : held'[h] = held[h]
    BY <1>3, <1>4, <1>5 DEF Holders
  <2> QED BY <1>1, <1>2, <1>3, <1>4, <2>1, <2>2, HandOver
<1>7. Quiet
  BY QuietStep
<1>8. CASE s \in Loops
  <2>1. StagesKept
    BY <1>8, StagesStay, Names
  <2>2. Moved(c, b)
    BY <1>2, <1>6, <1>7, <1>8, <2>1 DEF Moved
  <2> QED BY <1>2, <2>2
<1>9. CASE s \notin Loops
  <2>1. c = s /\ s \in Tasks
    BY <1>9 DEF c, Cargo, Senders
  <2>2. StageGoes(s, "offered", "accepted")
    BY <2>1, Names DEF StageGoes, Stage, Sending
  <2>3. Handed(s, b)
    BY <1>6, <2>1
  <2>4. Accepted(s, b)
    BY <1>7, <2>2, <2>3 DEF Accepted
  <2> QED BY <2>1, <2>4
<1> QED BY <1>8, <1>9

(* Nobody has it now.                                                      *)
LEMMA SenderLoses ==
    ASSUME SchedInv, TypeInv', NEW s \in Senders, pc[s] \in Sending,
           \A q \in Senders \ {s} : pc'[q] = pc[q],
           UNCHANGED <<runVars, future, started, unanswered>>,
           UNCHANGED <<queue, levelQueue, local, chan>>,
           s \in Loops => inHand' = [inHand EXCEPT ![s] = None],
           s \in Tasks => inHand' = inHand /\ pc'[s] = "failing",
           dropped' = dropped \cup ({Cargo(s)} \ {s})
    PROVE  \E t \in Tasks : GivenUp(t) \/ Lost(t)
<1> DEFINE c == Cargo(s)
<1>1. TypeInv /\ Apart /\ HolderKinds /\ HeldByKind /\ HeldByKind'
  BY HoldersDiffer, HeldIs, HeldIsNext DEF SchedInv, Ownership
<1>2. /\ Bearer(s) \in Holders \ Queues /\ c \in held[Bearer(s)] /\ c \in Tasks
      /\ s \in Loops => Bearer(s) \in Movers
  BY <1>1, SenderHolds
<1>3. /\ held'[Bearer(s)] = held[Bearer(s)] \ {c}
      /\ \A h \in (Movers \cup {Caller}) \ {Bearer(s)} : held'[h] = held[h]
  BY <1>1, SenderLeaves DEF Sending
<1>4. \A h \in Hands \cup Queues : held'[h] = held[h]
  BY <1>1, OthersKeep DEF runVars
<1>5. dropped' = dropped \cup ({c} \ {s})
  OBVIOUS
<1>6. Quiet
  BY QuietStep
<1> HIDE DEF c
<1>7. Freed(c)
  <2>1. \A h \in Holders \ {Bearer(s)} : held'[h] = held[h]
    BY <1>3, <1>4 DEF Holders
  <2> QED BY <1>1, <1>2, <1>3, <2>1, LetGo
<1>8. CASE s \in Loops
  <2>1. StagesKept
    BY <1>8, StagesStay, Names
  <2>2. dropped' = dropped \cup {c}
    BY <1>2, <1>5, <1>8, Names
  <2>3. Lost(c)
    BY <1>2, <1>6, <1>7, <1>8, <2>1, <2>2 DEF Lost
  <2> QED BY <1>2, <2>3
<1>9. CASE s \notin Loops
  <2>1. c = s /\ s \in Tasks
    BY <1>9 DEF c, Cargo, Senders
  <2>2. StagesKept /\ Stage(c) = "offered"
    BY <2>1, Names DEF StagesKept, Stage, Sending
  <2>3. GivenUp(c)
    BY <1>5, <1>6, <1>7, <2>1, <2>2 DEF GivenUp
  <2> QED BY <1>2, <2>3
<1> QED BY <1>8, <1>9

(* It still has it.                                                        *)
LEMMA SenderIdles ==
    ASSUME SchedInv, TypeInv', NEW s \in Senders,
           \A q \in Senders \ {s} : pc'[q] = pc[q],
           s \in Tasks => pc[s] \in Sending /\ pc'[s] \in Sending,
           UNCHANGED <<queue, levelQueue, local, chan, inHand, runVars, future, started,
                       unanswered, dropped>>
    PROVE  Idle
<1>1. Still
  BY SenderKeeps DEF SchedInv, runVars
<1>2. StagesKept
  <2>1. CASE s \in Tasks
    BY <2>1, Names DEF StagesKept, Stage, Sending
  <2>2. CASE s \notin Tasks
    <3>1. \A t \in Tasks : pc'[t] = pc[t]
      BY <2>2, Names
    <3> QED BY <3>1, StagesStay
  <2> QED BY <2>1, <2>2
<1>3. Quiet
  BY QuietStep
<1> QED BY <1>1, <1>2, <1>3 DEF Idle, Quiet

LEMMA QueuesKeepOnce ==
    ASSUME QueuedOnce, UNCHANGED <<queue, levelQueue, local, chan>> PROVE QueuedOnce'
BY DEF QueuedOnce

LEMMA SendEffects ==
    ASSUME SchedInv, NEW s \in Senders, SendStep(s)
    PROVE  Effects /\ QueuedOnce'
<1>1. TypeInv /\ QueuedOnce
  BY DEF SchedInv
<1>2. /\ TypeInv' /\ \A q \in Senders \ {s} : pc'[q] = pc[q]
      /\ UNCHANGED <<runVars, stopVars, countVars, resultVars, lifeVars>>
      /\ pc[s] \in Sending
  BY <1>1, SendTypes
<1>3. UNCHANGED <<runVars, future, started, unanswered>>
  BY <1>2 DEF resultVars
<1>4. Cargo(s) \in Tasks /\ \A h \in Queues : Cargo(s) \notin held[h]
  BY <1>1, <1>2, SenderHolds, SenderAlone
<1>a. SendTyped /\ SenderTyped(s)
  BY <1>1 DEF TypeInv, SendTyped
<1>5. ASSUME pc'[s] \in Sending,
             UNCHANGED <<queue, levelQueue, local, chan, inHand, dropped>>
      PROVE  Effects /\ QueuedOnce'
  <2>1. Idle
    BY <1>2, <1>3, <1>5, SenderIdles
  <2> QED BY <1>1, <1>5, <2>1, QueuesKeepOnce DEF Effects
<1>6. ASSUME Gained(Cargo(s)), QueuedOnce', UNCHANGED dropped,
             s \in Loops => inHand' = [inHand EXCEPT ![s] = None],
             s \in Tasks => inHand' = inHand /\ pc'[s] = "accepted"
      PROVE  Effects /\ QueuedOnce'
  <2>1. \E t \in Tasks : \E b \in Queues : Accepted(t, b) \/ Moved(t, b)
    BY <1>2, <1>3, <1>6, SenderDelivers
  <2> QED BY <1>6, <2>1 DEF Effects
<1>7. ASSUME NEW from \in Sending, Delivered(s, from), Gained(Cargo(s)), QueuedOnce',
             UNCHANGED <<dropped, level, overtaken>>
      PROVE  Effects /\ QueuedOnce'
  <2>1. /\ s \in Tasks => pc'[s] = "accepted" /\ UNCHANGED <<inHand, moved>>
        /\ s \in Loops => inHand' = [inHand EXCEPT ![s] = None]
    BY <1>7, <1>a, DeliveredTypes
  <2> QED BY <1>6, <1>7, <2>1
<1>8. CASE SelectWorker(s)
  <2>1. UNCHANGED <<queue, levelQueue, local, chan, inHand, dropped>>
    BY <1>8 DEF SelectWorker, queueVars, workerVars, roomVars
  <2>2. pc'[s] \in {"local", "global", "level"}
    BY <1>8, <1>a, Stepping DEF SelectWorker, Fallback
  <2> QED BY <1>5, <2>1, <2>2 DEF Sending
<1>9. CASE SubmitLocal(s)
  <2>1. UNCHANGED <<queue, levelQueue, chan, overtaken, level, dropped>>
    BY <1>9 DEF SubmitLocal, queueVars
  <2>2. CASE PutLocal(target[s], Cargo(s)) /\ Delivered(s, "local")
    <3>1. pc[s] = "local"
      BY <1>9 DEF SubmitLocal
    <3>2. target[s] \in Workers /\ "local" \in Sending
      BY <1>a, <3>1 DEF SendTyped, SenderTyped, Sending
    <3>3. local' = [local EXCEPT ![target[s]] = Append(@, Cargo(s))]
      BY <2>2 DEF PutLocal
    <3>4. Gained(Cargo(s)) /\ QueuedOnce'
      BY <1>1, <1>2, <1>4, <2>1, <3>2, <3>3, QueueGains
    <3> QED BY <1>7, <2>1, <2>2, <3>2, <3>4
  <2>3. CASE Step(s, "local", "chan") /\ UNCHANGED <<local, target, inHand, moved>>
    <3>1. pc'[s] = "chan"
      BY <1>a, <2>3, Stepping
    <3> QED BY <1>5, <2>1, <2>3, <3>1 DEF Sending
  <2> QED BY <1>9, <2>2, <2>3 DEF SubmitLocal
<1>10. CASE SubmitChan(s)
  <2>1. UNCHANGED <<queue, levelQueue, local, overtaken, level, dropped>>
    BY <1>10 DEF SubmitChan, queueVars
  <2>2. CASE PutChan(target[s], Cargo(s)) /\ Delivered(s, "chan")
    <3>1. pc[s] = "chan"
      BY <1>10 DEF SubmitChan
    <3>2. target[s] \in Workers /\ "chan" \in Sending
      BY <1>a, <3>1 DEF SendTyped, SenderTyped, Sending
    <3>3. /\ chan[target[s]] = <<>>
          /\ chan' = [chan EXCEPT ![target[s]] = <<Cargo(s)>>]
      BY <2>2 DEF PutChan
    <3>4. Gained(Cargo(s)) /\ QueuedOnce'
      BY <1>1, <1>2, <1>4, <2>1, <3>2, <3>3, QueueGains
    <3> QED BY <1>7, <2>1, <2>2, <3>2, <3>4
  <2>3. CASE Step(s, "chan", Fallback(s)) /\ UNCHANGED <<chan, inHand, moved>>
    <3>1. pc'[s] \in {"global", "level"}
      BY <1>a, <2>3, Stepping DEF Fallback
    <3> QED BY <1>5, <2>1, <2>3, <3>1 DEF Sending
  <2> QED BY <1>10, <2>2, <2>3 DEF SubmitChan
<1>11. ASSUME NEW from \in {"level", "global"}, NEW verdict \in {"accepted", "global", "failing"},
              LeaveEnqueue(s, from, verdict)
       PROVE  /\ s \in Loops => inHand' = [inHand EXCEPT ![s] = None]
              /\ s \in Tasks => inHand' = inHand /\ pc'[s] = verdict
              /\ UNCHANGED <<local, chan>>
  <2>1. overtaken' \subseteq Senders
    BY <1>2 DEF TypeInv, SendTyped
  <2> QED BY <1>11, <1>a, <2>1, LeaveEnqueueTypes, Names DEF LeaveEnqueue, workerVars, roomVars
<1>12. CASE EnqueueLevel(s)
  <2>1. LeaveEnqueue(s, "level", "accepted") /\ UNCHANGED <<queue, dropped>>
    BY <1>12 DEF EnqueueLevel
  <2>2. LevelFor(s) \in Levels
    BY <1>a, LevelExists
  <2>3. levelQueue' = [levelQueue EXCEPT ![LevelFor(s)] = Append(@, Cargo(s))]
    BY <1>12 DEF EnqueueLevel
  <2>4. Gained(Cargo(s)) /\ QueuedOnce'
    BY <1>1, <1>2, <1>4, <1>11, <2>1, <2>2, <2>3, QueueGains
  <2> QED BY <1>6, <1>11, <2>1, <2>4
<1>13. CASE EnqueueGlobal(s)
  <2>1. LeaveEnqueue(s, "global", "accepted") /\ UNCHANGED <<levelQueue, dropped>>
    BY <1>13 DEF EnqueueGlobal
  <2>2. queue' = Append(queue, Cargo(s))
    BY <1>13 DEF EnqueueGlobal
  <2>3. Gained(Cargo(s)) /\ QueuedOnce'
    BY <1>1, <1>2, <1>4, <1>11, <2>1, <2>2, QueueGains
  <2> QED BY <1>6, <1>11, <2>1, <2>3
<1>14. CASE LevelRefused(s)
  <2>1. /\ LeaveEnqueue(s, "level", "global") /\ UNCHANGED <<queue, levelQueue>>
        /\ dropped' = dropped \cup ({Cargo(s)} \ {s})
    BY <1>14 DEF LevelRefused
  <2>2. CASE s \in Tasks
    <3>1. Cargo(s) = s
      BY <2>2, Names DEF Cargo
    <3>2. UNCHANGED dropped
      BY <2>1, <3>1
    <3> QED BY <1>5, <1>11, <2>1, <2>2, <3>2 DEF Sending
  <2>3. CASE s \notin Tasks
    <3>1. \E t \in Tasks : GivenUp(t) \/ Lost(t)
      BY <1>2, <1>3, <1>11, <2>1, <2>3, SenderLoses
    <3> QED BY <1>1, <1>11, <2>1, <3>1, QueuesKeepOnce DEF Effects
  <2> QED BY <2>2, <2>3
<1>15. CASE GlobalRefused(s)
  <2>1. /\ LeaveEnqueue(s, "global", "failing") /\ UNCHANGED <<queue, levelQueue>>
        /\ dropped' = dropped \cup ({Cargo(s)} \ {s})
    BY <1>15 DEF GlobalRefused
  <2>2. \E t \in Tasks : GivenUp(t) \/ Lost(t)
    BY <1>2, <1>3, <1>11, <2>1, SenderLoses
  <2> QED BY <1>1, <1>11, <2>1, <2>2, QueuesKeepOnce DEF Effects
<1> QED BY <1>8, <1>9, <1>10, <1>12, <1>13, <1>14, <1>15 DEF SendStep

(* A caller that has not begun to send, or has failed.                     *)
LEMMA CallerEffects ==
    ASSUME SchedInv, NEW t \in Tasks, Schedule(t) \/ Refuse(t)
    PROVE  Effects /\ QueuedOnce'
<1>1. TypeInv /\ QueuedOnce /\ CallerOwns
  BY DEF SchedInv, Ownership
<1>2. /\ TypeInv' /\ \A q \in Senders \ {t} : pc'[q] = pc[q]
      /\ UNCHANGED <<workerVars, lifeVars, queueVars, inHand, dropped>>
  BY <1>1, CallerTypes
<1>3. /\ UNCHANGED <<queue, levelQueue, local, chan, inHand, runVars, future, started,
                     unanswered, dropped>>
      /\ UNCHANGED current
  BY <1>2 DEF workerVars, queueVars, roomVars, resultVars, runVars
<1>4. t \in Senders /\ t \notin Loops /\ \A u \in Tasks \ {t} : u \in Senders /\ pc'[u] = pc[u]
  BY <1>2, Names
<1>5. QueuedOnce' /\ Quiet
  BY <1>1, <1>3, QueuesKeepOnce, QuietStep
<1>6. CASE Schedule(t)
  <2>1. pc[t] = "new" /\ pc'[t] \in {"select", "failing"}
    BY <1>1, <1>4, <1>6, Stepping DEF Schedule, TypeInv
  <2>2. StageGoes(t, "new", "offered")
    BY <1>4, <2>1 DEF StageGoes, Stage
  <2>3. CASE pc'[t] = "failing"
    <3>1. Still
      BY <1>1, <1>2, <1>3, <1>4, <2>1, <2>3, SenderKeeps DEF Sending
    <3> QED BY <1>3, <1>5, <2>2, <3>1 DEF Effects, Offered
  <2>4. CASE pc'[t] = "select"
    <3>1. HeldByKind /\ HeldByKind' /\ HolderKinds
      BY <1>1, <1>2, HeldIs, HeldIsNext, HoldersDiffer
    <3>2. \A h \in Holders \ {Caller} : t \notin held[h]
      BY <1>1, <2>1 DEF CallerOwns
    <3>3. held'[Caller] = held[Caller] \cup {t}
      <4>1. \A u \in Tasks \ {t} : pc'[u] = pc[u]
        BY <1>4
      <4> QED BY <2>4, <3>1, <4>1 DEF HeldByKind, Sending
    <3>4. \A h \in Holders \ {Caller} : held'[h] = held[h]
      BY <1>3, <3>1, OthersKeep DEF Holders
    <3>5. Handed(t, Caller)
      BY <3>2, <3>3, <3>4 DEF Handed
    <3> QED BY <1>3, <1>5, <2>2, <3>5 DEF Effects, Offered
  <2> QED BY <2>1, <2>3, <2>4
<1>7. CASE Refuse(t)
  <2>1. pc[t] = "failing" /\ pc'[t] = "refused"
    BY <1>1, <1>4, <1>7, Stepping DEF Refuse, TypeInv
  <2>2. Still
    BY <1>1, <1>2, <1>3, <1>4, <2>1, SenderKeeps DEF Sending
  <2>3. StageGoes(t, "offered", "refused")
    BY <1>4, <2>1 DEF StageGoes, Stage
  <2> QED BY <1>3, <1>5, <2>2, <2>3 DEF Effects, Refused
<1> QED BY <1>6, <1>7

(* A loop takes a task a queue gives.                                      *)
LEMMA LoopTakes ==
    ASSUME SchedInv, TypeInv', NEW s \in Loops, pc[s] \notin Sending, NEW c \in Tasks,
           inHand' = [inHand EXCEPT ![s] = c], Gave(c),
           \A t \in Tasks : pc'[t] = pc[t],
           UNCHANGED <<runVars, future, started, unanswered, dropped>>
    PROVE  Effects
<1>1. TypeInv /\ Apart /\ HolderKinds /\ HeldByKind /\ HeldByKind'
  BY HoldersDiffer, HeldIs, HeldIsNext DEF SchedInv, Ownership
<1>2. PICK a \in Queues : /\ c \in held[a] /\ held'[a] = held[a] \ {c}
                          /\ \A h \in Queues \ {a} : held'[h] = held[h]
  BY DEF Gave
<1>3. inHand[s] = None /\ inHand'[s] = c /\ \A q \in Loops \ {s} : inHand'[q] = inHand[q]
  BY <1>1, LoopIdle DEF TypeInv, SendTyped
<1>4. held'[Mover(s)] = held[Mover(s)] \cup {c}
  BY <1>1, <1>3, Names DEF HeldByKind
<1>5. \A h \in Movers \ {Mover(s)} : held'[h] = held[h]
  BY <1>1, <1>3, KeptByKind DEF Movers
<1>6. held'[Caller] = held[Caller] /\ \A h \in Hands : held'[h] = held[h]
  BY <1>1, OthersKeep DEF runVars
<1>7. /\ Mover(s) \in Movers /\ Mover(s) \in Holders /\ a \in Holders
      /\ Mover(s) # a
  BY <1>1 DEF HolderKinds
<1>8. Handed(c, Mover(s))
  <2>1. \A h \in Holders \ {a, Mover(s)} : held'[h] = held[h]
    BY <1>2, <1>5, <1>6 DEF Holders
  <2> QED BY <1>1, <1>2, <1>4, <1>7, <2>1, HandOver
<1>9. Moved(c, Mover(s))
  BY <1>2, <1>8, StagesStay, QuietStep DEF Moved
<1> QED BY <1>7, <1>9 DEF Effects

LEMMA LoopEffects ==
    ASSUME SchedInv, NEW s \in Loops, OwnStep(s) \/ LoopExit(s)
    PROVE  Effects /\ QueuedOnce'
<1>1. TypeInv /\ QueuedOnce /\ s \in Senders /\ s \notin Tasks
  BY Names DEF SchedInv
<1>2. ASSUME TypeInv', \A q \in Senders \ {s} : pc'[q] = pc[q],
             UNCHANGED <<queue, levelQueue, local, chan, inHand, runVars, future, started,
                         unanswered, dropped>>
      PROVE  Effects /\ QueuedOnce'
  BY <1>1, <1>2, SenderIdles, QueuesKeepOnce DEF Effects
<1>3. CASE LoopExit(s)
  <2>1. TypeInv' /\ \A q \in Senders \ {s} : pc'[q] = pc[q]
    BY <1>1, <1>3, ExitTypes
  <2>2. UNCHANGED <<queue, levelQueue, local, chan, inHand, runVars, future, started,
                    unanswered, dropped>>
    BY <1>3 DEF LoopExit, workerVars, queueVars, roomVars, resultVars
  <2> QED BY <1>2, <2>1, <2>2
<1>4. CASE \/ s = GlobalLoop /\ (GlobalTick \/ DequeueGlobal)
           \/ s = PriorityLoop /\ (PriorityTick \/ DequeueLevel \/ NextLevel)
  <2>1. /\ TypeInv' /\ \A q \in Senders \ {s} : pc'[q] = pc[q]
        /\ UNCHANGED loopUnchanged /\ pc[s] \notin Sending
    BY <1>1, <1>4, DequeueTypes
  <2>2. UNCHANGED <<local, chan, runVars, future, started, unanswered, dropped>>
    BY <2>1 DEF loopUnchanged, workerVars, roomVars, resultVars
  <2>3. \A t \in Tasks : pc'[t] = pc[t]
    BY <1>1, <2>1, Names
  <2>4. CASE GlobalTick \/ PriorityTick \/ NextLevel
    <3>1. UNCHANGED <<queue, levelQueue, inHand>>
      BY <2>4 DEF GlobalTick, PriorityTick, NextLevel
    <3> QED BY <1>2, <2>1, <2>2, <3>1
  <2>5. CASE s = GlobalLoop /\ DequeueGlobal
    <3>1. CASE UNCHANGED <<queue, inHand>>
      BY <1>2, <2>1, <2>2, <2>5, <3>1 DEF DequeueGlobal
    <3>2. CASE /\ queue # <<>> /\ inHand' = [inHand EXCEPT ![s] = Head(queue)]
               /\ queue' = Tail(queue)
      <4> DEFINE c == Head(queue)
      <4>1. levelQueue' = levelQueue
        BY <2>5 DEF DequeueGlobal
      <4>2. c \in Tasks /\ Gave(c) /\ QueuedOnce'
        BY <1>1, <2>1, <2>2, <3>2, <4>1, QueueGives
      <4> HIDE DEF c
      <4>3. inHand' = [inHand EXCEPT ![s] = c]
        BY <3>2 DEF c
      <4> QED BY <2>1, <2>2, <2>3, <4>2, <4>3, LoopTakes
    <3> QED BY <2>5, <3>1, <3>2 DEF DequeueGlobal
  <2>6. CASE s = PriorityLoop /\ DequeueLevel
    <3>1. CASE UNCHANGED <<levelQueue, inHand>>
      BY <1>2, <2>1, <2>2, <2>6, <3>1 DEF DequeueLevel
    <3>2. CASE /\ levelQueue[level] # <<>>
               /\ inHand' = [inHand EXCEPT ![s] = Head(levelQueue[level])]
               /\ levelQueue' = [levelQueue EXCEPT ![level] = Tail(@)]
      <4> DEFINE c == Head(levelQueue[level])
      <4>1. queue' = queue /\ level \in Levels
        BY <1>1, <2>6 DEF DequeueLevel, TypeInv, SendTyped
      <4>2. c \in Tasks /\ Gave(c) /\ QueuedOnce'
        BY <1>1, <2>1, <2>2, <3>2, <4>1, QueueGives
      <4> HIDE DEF c
      <4>3. inHand' = [inHand EXCEPT ![s] = c]
        BY <3>2 DEF c
      <4> QED BY <2>1, <2>2, <2>3, <4>2, <4>3, LoopTakes
    <3> QED BY <2>6, <3>1, <3>2 DEF DequeueLevel
  <2> QED BY <1>4, <2>4, <2>5, <2>6
<1>5. CASE s = StealingLoop /\ (StealingTick \/ ScanWorker \/ DecideToSteal \/ Steal)
  <2>1. /\ TypeInv' /\ \A q \in Senders \ {s} : pc'[q] = pc[q]
        /\ UNCHANGED stealUnchanged /\ pc[s] \notin Sending
    BY <1>1, <1>5, StealTypes
  <2>2. UNCHANGED <<queue, levelQueue, chan, runVars, future, started, unanswered, dropped>>
    BY <2>1 DEF stealUnchanged, queueVars, resultVars
  <2>3. \A t \in Tasks : pc'[t] = pc[t]
    BY <1>1, <2>1, Names
  <2>4. CASE StealingTick \/ ScanWorker \/ DecideToSteal
    <3>1. UNCHANGED <<local, inHand>>
      BY <2>4 DEF StealingTick, ScanWorker, DecideToSteal
    <3> QED BY <1>2, <2>1, <2>2, <3>1
  <2>5. CASE Steal
    <3>1. CASE UNCHANGED <<local, inHand>>
      BY <1>2, <2>1, <2>2, <3>1
    <3>2. CASE /\ local[scan.busiest] # <<>>
               /\ inHand' = [inHand EXCEPT ![s] = Newest(scan.busiest)]
               /\ TakeNewest(scan.busiest)
      <4> DEFINE c == Newest(scan.busiest)
      <4>1. scan.busiest \in Workers
        BY <1>1, <2>5 DEF Steal, TypeInv, ScanTyped
      <4>2. c \in Tasks /\ Gave(c) /\ QueuedOnce'
        BY <1>1, <2>1, <2>2, <3>2, <4>1, QueueGives
      <4> HIDE DEF c
      <4>3. inHand' = [inHand EXCEPT ![s] = c]
        BY <3>2 DEF c
      <4> QED BY <2>1, <2>2, <2>3, <4>2, <4>3, LoopTakes
    <3> QED BY <1>5, <2>5, <3>1, <3>2 DEF Steal
  <2> QED BY <1>5, <2>4, <2>5
<1> QED BY <1>3, <1>4, <1>5 DEF OwnStep

(* Stop and Start move no task.                                            *)
LEMMA LifeEffects ==
    ASSUME SchedInv, Stop \/ StopReturned \/ StartAgain
    PROVE  Effects /\ QueuedOnce'
<1>1. TypeInv /\ QueuedOnce
  BY DEF SchedInv
<1>2. /\ TypeInv' /\ UNCHANGED lifeUnchanged
      /\ \A s \in Senders : pc'[s] = pc[s] \/ (s \in Loops /\ pc'[s] = "wait")
  BY <1>1, LifeTypes
<1>3. UNCHANGED <<queue, levelQueue, local, chan, inHand, runVars, future, started,
                  unanswered, dropped, current>>
  BY <1>2 DEF lifeUnchanged, workerVars, queueVars, roomVars, resultVars, runVars
<1>4. \A t \in Tasks : pc'[t] = pc[t]
  BY <1>2, Names
<1>5. Still
  BY <1>1, <1>2, <1>3, <1>4, HeldIs, HeldIsNext, OthersKeep DEF Still, Holders
<1>6. Idle
  BY <1>3, <1>4, <1>5, StagesStay, QuietStep DEF Idle, Quiet
<1> QED BY <1>1, <1>3, <1>6, QueuesKeepOnce DEF Effects
-----------------------------------------------------------------------------
(* The effects of the worker's steps.                                      *)

(* Nothing in hand, no task moved.                                         *)
LEMMA RunIdles ==
    ASSUME SchedInv, TypeInv',
           UNCHANGED <<queue, levelQueue, local, chan, current, inHand, pc, future,
                       started, unanswered, dropped>>,
           \A q \in Runs : wpc'[q] = wpc[q] \/ current[q] = None,
           Ending => Ending'
    PROVE  Effects /\ QueuedOnce'
<1>1. Still
  BY HeldIs, HeldIsNext, OthersKeep DEF Still, Holders, SchedInv
<1>2. StagesKept
  BY StagesStay
<1>3. Idle
  BY <1>1, <1>2 DEF Idle, RunsKept
<1> QED BY <1>3, QueuesKeepOnce DEF Effects, SchedInv

(* A run whose step is not one of its end.                                 *)
LEMMA EndingStays ==
    ASSUME NEW r \in Runs, \A q \in Runs \ {r} : wpc'[q] = wpc[q],
           wpc[r] \in {"drainLocal", "drainChan", "stopped"} <=>
              wpc'[r] \in {"drainLocal", "drainChan", "stopped"}
    PROVE  Ending' <=> Ending
BY DEF Ending

(* The run has the task the queue gives.                                   *)
LEMMA RunTakes ==
    ASSUME SchedInv, TypeInv', NEW r \in Runs, NEW c \in Tasks, Gave(c),
           NEW from \in {"choose", "pop"}, Begin(r, from, c),
           UNCHANGED <<pc, inHand, future, unanswered, dropped>>
    PROVE  Effects
<1>1. TypeInv /\ Apart /\ HolderKinds /\ HeldByKind /\ HeldByKind' /\ RunsTyped
  BY HoldersDiffer, HeldIs, HeldIsNext DEF SchedInv, Ownership, TypeInv
<1>2. PICK a \in Queues : /\ c \in held[a] /\ held'[a] = held[a] \ {c}
                          /\ \A h \in Queues \ {a} : held'[h] = held[h]
  BY DEF Gave
<1>3. /\ wpc[r] \in {"choose", "pop"} /\ wpc'[r] = "execute"
      /\ \A q \in Runs \ {r} : wpc'[q] = wpc[q]
  BY <1>1 DEF Begin, RunStep, RunsTyped
<1>4. /\ current[r] = None /\ current'[r] = c
      /\ \A q \in Runs \ {r} : current'[q] = current[q]
  BY <1>1, <1>3 DEF Begin, RunsTyped, RunTyped
<1>5. held'[Hand(r)] = held[Hand(r)] \cup {c}
  BY <1>1, <1>4, Names DEF HeldByKind
<1>6. \A h \in Hands \ {Hand(r)} : held'[h] = held[h]
  BY <1>1, <1>4, KeptByKind DEF Hands
<1>7. held'[Caller] = held[Caller] /\ \A h \in Movers : held'[h] = held[h]
  BY <1>1, OthersKeep
<1>8. Hand(r) \in Holders /\ a \in Holders /\ Hand(r) # a
  BY <1>1 DEF HolderKinds
<1>9. Handed(c, Hand(r))
  <2>1. \A h \in Holders \ {a, Hand(r)} : held'[h] = held[h]
    BY <1>2, <1>6, <1>7 DEF Holders
  <2> QED BY <1>1, <1>2, <1>5, <1>8, <2>1, HandOver
<1>10. OnlyRun(r)
  <2>1. Ending' <=> Ending
    BY <1>3, EndingStays
  <2> QED BY <1>3, <1>4, <2>1, StagesStay DEF OnlyRun
<1>11. Begun(c, r)
  BY <1>2, <1>3, <1>4, <1>9, <1>10 DEF Begun, Begin
<1> QED BY <1>11 DEF Effects

(* The run is rid of the task.                                             *)
LEMMA RunLetsGo ==
    ASSUME SchedInv, TypeInv', NEW r \in Runs, current[r] # None, current'[r] = None,
           \A q \in Runs \ {r} : current'[q] = current[q],
           UNCHANGED <<queue, levelQueue, local, chan, pc, inHand>>
    PROVE  Freed(current[r]) /\ QueuedOnce' /\ current[r] \in Tasks
<1>1. TypeInv /\ Apart /\ HolderKinds /\ HeldByKind /\ HeldByKind' /\ RunsTyped
  BY HoldersDiffer, HeldIs, HeldIsNext DEF SchedInv, Ownership, TypeInv
<1>2. /\ held[Hand(r)] = {current[r]} \ {None} /\ held'[Hand(r)] = {current'[r]} \ {None}
      /\ Hand(r) \in Holders
  BY <1>1 DEF HeldByKind, HolderKinds
<1>3. \A h \in Hands \ {Hand(r)} : held'[h] = held[h]
  BY <1>1, KeptByKind DEF Hands
<1>4. \A h \in Queues \cup Movers \cup {Caller} : held'[h] = held[h]
  BY <1>1, OthersKeep
<1>5. \A h \in Holders \ {Hand(r)} : held'[h] = held[h]
  BY <1>3, <1>4 DEF Holders
<1>6. Freed(current[r])
  BY <1>1, <1>2, <1>5, LetGo
<1>7. current[r] \in Tasks
  BY <1>1 DEF RunsTyped
<1> QED BY <1>6, <1>7, QueuesKeepOnce DEF SchedInv

(* A task is thrown away.                                                  *)
LEMMA RunDiscards ==
    ASSUME SchedInv, TypeInv', NEW c \in Tasks, Gave(c), SetResult(c, "closed"), Ending,
           UNCHANGED <<wpc, current, pc, inHand, started, unanswered, dropped>>
    PROVE  Effects
<1>1. TypeInv /\ Apart /\ HolderKinds /\ HeldByKind /\ HeldByKind'
  BY HoldersDiffer, HeldIs, HeldIsNext DEF SchedInv, Ownership
<1>2. PICK a \in Queues : /\ c \in held[a] /\ held'[a] = held[a] \ {c}
                          /\ \A h \in Queues \ {a} : held'[h] = held[h]
  BY DEF Gave
<1>3. \A h \in Hands \cup Movers \cup {Caller} : held'[h] = held[h]
  BY <1>1, OthersKeep
<1>4. Freed(c)
  <2>1. a \in Holders /\ \A h \in Holders \ {a} : held'[h] = held[h]
    BY <1>1, <1>2, <1>3 DEF Holders, HolderKinds
  <2> QED BY <1>1, <1>2, <2>1, LetGo
<1>5. Discarded(c)
  BY <1>2, <1>4, StagesStay DEF Discarded
<1> QED BY <1>5 DEF Effects

LEMMA WorkerEffects ==
    ASSUME SchedInv, WorkerNext, UNCHANGED schedulerVars
    PROVE  Effects /\ QueuedOnce'
<1>1. TypeInv /\ QueuedOnce /\ TypeInv' /\ RunsTyped /\ RunsTyped'
  BY WorkerTypes DEF SchedInv, TypeInv
<1>2. UNCHANGED <<pc, inHand, queue, levelQueue, dropped>>
  BY DEF schedulerVars, sendVars, queueVars
<1>3. ASSUME NEW w \in Workers, StopWorker(w) PROVE Effects /\ QueuedOnce'
  <2>1. UNCHANGED <<local, chan, current, wpc, future, started, unanswered>>
    BY <1>3 DEF StopWorker, roomVars, runVars, resultVars
  <2> QED BY <1>1, <1>2, <2>1, RunIdles DEF Ending
<1>4. ASSUME NEW r \in Runs, ReportPanics(r) PROVE Effects /\ QueuedOnce'
  <2>1. /\ current[r] \in Tasks /\ wpc[r] \in {"execute", "report"} /\ wpc'[r] = "recover"
        /\ current' = [current EXCEPT ![r] = None]
        /\ \A q \in Runs \ {r} : wpc'[q] = wpc[q] /\ current'[q] = current[q]
    BY <1>1, <1>4, PanicTypes
  <2>2. UNCHANGED <<local, chan, future, started>> /\ unanswered' = unanswered \cup {current[r]}
    BY <1>4 DEF ReportPanics, roomVars
  <2>3. current'[r] = None /\ current[r] # None
    BY <1>1, <2>1, Names DEF RunsTyped
  <2>4. Freed(current[r]) /\ QueuedOnce'
    BY <1>1, <1>2, <2>1, <2>2, <2>3, RunLetsGo
  <2>5. OnlyRun(r)
    BY <1>2, <2>1, EndingStays, StagesStay DEF OnlyRun
  <2>6. CutShort(r)
    BY <2>1, <2>2, <2>3, <2>4, <2>5 DEF CutShort
  <2> QED BY <2>4, <2>6 DEF Effects
<1>5. ASSUME NEW r \in Runs, RunNext(r) PROVE Effects /\ QueuedOnce'
  <2> DEFINE w == r[1]
  <2>1. w \in Workers /\ RunTyped(r)
    BY <1>1, RunOfWorker DEF RunsTyped
  <2>2. ASSUME NEW from, NEW to, RunStep(r, from, to),
               from \notin {"execute", "report"},
               from \in {"drainLocal", "drainChan", "stopped"} =>
                  to \in {"drainLocal", "drainChan", "stopped"},
               UNCHANGED <<local, chan, current, future, started, unanswered>>
        PROVE  Effects /\ QueuedOnce'
    <3>1. /\ wpc[r] = from /\ wpc'[r] = to
          /\ \A q \in Runs \ {r} : wpc'[q] = wpc[q]
      BY <1>1, <2>2 DEF RunStep, RunsTyped
    <3>2. current[r] = None
      BY <2>1, <2>2, <3>1 DEF RunTyped
    <3>3. Ending => Ending'
      <4> SUFFICES ASSUME NEW q \in Runs, wpc[q] \in {"drainLocal", "drainChan", "stopped"}
                   PROVE  Ending'
        BY DEF Ending
      <4>1. wpc'[q] \in {"drainLocal", "drainChan", "stopped"}
        BY <2>2, <3>1
      <4> QED BY <4>1 DEF Ending
    <3>4. \A q \in Runs : wpc'[q] = wpc[q] \/ current[q] = None
      BY <3>1, <3>2
    <3> QED BY <1>1, <1>2, <2>2, <3>3, <3>4, RunIdles
  <2>3. CASE LoopTest(r) \/ SeeDone(r) \/ NoneReady(r) \/ FindNothing(r)
    <3>1. UNCHANGED <<local, chan, current, future, started, unanswered>>
      BY <2>3 DEF LoopTest, SeeDone, NoneReady, FindNothing, roomVars, resultVars
    <3> QED BY <2>2, <2>3, <3>1 DEF LoopTest, SeeDone, NoneReady, FindNothing
  <2>4. CASE ReceiveChan(r)
    <3> DEFINE c == Head(chan[w])
    <3>1. c \in Tasks /\ Gave(c) /\ QueuedOnce'
      BY <1>1, <1>2, <2>1, <2>4, QueueGives DEF ReceiveChan
    <3>2. Begin(r, "choose", c) /\ UNCHANGED <<future, unanswered>>
      BY <2>4 DEF ReceiveChan
    <3> HIDE DEF c
    <3> QED BY <1>1, <1>2, <3>1, <3>2, RunTakes
  <2>5. CASE DequeueLocal(r)
    <3> DEFINE c == Head(local[w])
    <3>1. c \in Tasks /\ Gave(c) /\ QueuedOnce'
      BY <1>1, <1>2, <2>1, <2>5, QueueGives DEF DequeueLocal
    <3>2. Begin(r, "pop", c) /\ UNCHANGED <<future, unanswered>>
      BY <2>5 DEF DequeueLocal
    <3> HIDE DEF c
    <3> QED BY <1>1, <1>2, <3>1, <3>2, RunTakes
  <2>6. CASE TaskReturns(r)
    <3>1. RunStep(r, "execute", "report")
          /\ UNCHANGED <<local, chan, current, future, started, unanswered>>
      BY <2>6 DEF TaskReturns, roomVars, resultVars
    <3>2. /\ wpc[r] = "execute" /\ wpc'[r] = "report"
          /\ \A q \in Runs \ {r} : wpc'[q] = wpc[q]
      BY <1>1, <3>1 DEF RunStep, RunsTyped
    <3>3. Still
      BY <1>1, <1>2, <3>1, HeldIs, HeldIsNext, OthersKeep DEF Still, Holders
    <3>4. OnlyRun(r)
      BY <1>2, <3>1, <3>2, EndingStays, StagesStay DEF OnlyRun
    <3>5. Returned(r)
      BY <3>1, <3>2, <3>3, <3>4 DEF Returned
    <3> QED BY <1>1, <1>2, <3>1, <3>5, QueuesKeepOnce DEF Effects
  <2>7. CASE ReportResult(r)
    <3>1. RunStep(r, "report", "loop") /\ SetResult(current[r], "result")
          /\ current' = [current EXCEPT ![r] = None]
          /\ UNCHANGED <<local, chan, started, unanswered>>
      BY <2>7 DEF ReportResult, roomVars
    <3>2. /\ wpc[r] = "report" /\ wpc'[r] = "loop"
          /\ \A q \in Runs \ {r} : wpc'[q] = wpc[q]
      BY <1>1, <3>1 DEF RunStep, RunsTyped
    <3>3. /\ current'[r] = None /\ current[r] # None
          /\ \A q \in Runs \ {r} : current'[q] = current[q]
      BY <1>1, <2>1, <3>1, <3>2 DEF RunsTyped, RunTyped
    <3>4. Freed(current[r]) /\ QueuedOnce'
      BY <1>1, <1>2, <3>1, <3>3, RunLetsGo
    <3>5. OnlyRun(r)
      BY <1>2, <3>2, <3>3, EndingStays, StagesStay DEF OnlyRun
    <3>6. Reported(r)
      BY <3>1, <3>2, <3>3, <3>4, <3>5 DEF Reported
    <3> QED BY <3>4, <3>6 DEF Effects
  <2>8. CASE Recover(r)
    <3>1. UNCHANGED <<local, chan, current, future, started, unanswered>>
      BY <2>8 DEF Recover, roomVars, resultVars
    <3> QED BY <2>2, <2>8, <3>1 DEF Recover
  <2>9. CASE Restart(r)
    <3>1. UNCHANGED <<local, chan, current, future, started, unanswered>>
      BY <2>9 DEF Restart, roomVars, resultVars
    <3>2. \A q \in Runs : wpc'[q] = wpc[q] \/ wpc[q] \in {"none", "backoff"}
      BY <1>1, <2>9, RestartTypes
    <3>3. \A q \in Runs : wpc'[q] = wpc[q] \/ current[q] = None
      BY <1>1, <3>2 DEF RunsTyped, RunTyped
    <3>4. Ending => Ending'
      <4> SUFFICES ASSUME NEW q \in Runs, wpc[q] \in {"drainLocal", "drainChan", "stopped"}
                   PROVE  Ending'
        BY DEF Ending
      <4>1. wpc'[q] \in {"drainLocal", "drainChan", "stopped"}
        BY <3>2
      <4> QED BY <4>1 DEF Ending
    <3> QED BY <1>1, <1>2, <3>1, <3>3, <3>4, RunIdles
  <2>10. CASE RunExits(r)
    <3>1. UNCHANGED <<local, chan, current, future, started, unanswered>>
      BY <2>10 DEF RunExits, roomVars, resultVars
    <3> QED BY <2>2, <2>10, <3>1 DEF RunExits
  <2>11. CASE DrainLocal(r)
    <3>1. UNCHANGED <<chan, current, started, unanswered>>
      BY <2>11 DEF DrainLocal
    <3>2. CASE local[w] = <<>>
      <4>1. RunStep(r, "drainLocal", "drainChan") /\ UNCHANGED <<local, future>>
        BY <2>11, <3>2 DEF DrainLocal
      <4> QED BY <2>2, <3>1, <4>1
    <3>3. CASE local[w] # <<>>
      <4> DEFINE c == Head(local[w])
      <4>1. TakeOldest(w) /\ SetResult(c, "closed") /\ UNCHANGED wpc /\ wpc[r] = "drainLocal"
        BY <2>11, <3>3 DEF DrainLocal, Discard
      <4>2. c \in Tasks /\ Gave(c) /\ QueuedOnce'
        BY <1>1, <1>2, <2>1, <3>1, <3>3, <4>1, QueueGives
      <4>3. Ending
        BY <4>1 DEF Ending
      <4> HIDE DEF c
      <4> QED BY <1>1, <1>2, <3>1, <4>1, <4>2, <4>3, RunDiscards
    <3> QED BY <3>2, <3>3
  <2>12. CASE DrainChan(r)
    <3>1. UNCHANGED <<local, current, started, unanswered>>
      BY <2>12 DEF DrainChan
    <3>2. CASE chan[w] = <<>>
      <4>1. RunStep(r, "drainChan", "stopped") /\ UNCHANGED <<chan, future>>
        BY <2>12, <3>2 DEF DrainChan
      <4> QED BY <2>2, <3>1, <4>1
    <3>3. CASE chan[w] # <<>>
      <4> DEFINE c == Head(chan[w])
      <4>1. /\ chan' = [chan EXCEPT ![w] = <<>>] /\ SetResult(c, "closed")
            /\ UNCHANGED wpc /\ wpc[r] = "drainChan"
        BY <2>12, <3>3 DEF DrainChan, Discard
      <4>2. c \in Tasks /\ Gave(c) /\ QueuedOnce'
        BY <1>1, <1>2, <2>1, <3>1, <3>3, <4>1, QueueGives
      <4>3. Ending
        BY <4>1 DEF Ending
      <4> HIDE DEF c
      <4> QED BY <1>1, <1>2, <3>1, <4>1, <4>2, <4>3, RunDiscards
    <3> QED BY <3>2, <3>3
  <2> QED BY <1>5, <2>3, <2>4, <2>5, <2>6, <2>7, <2>8, <2>9, <2>10, <2>11, <2>12 DEF RunNext
<1> QED BY <1>3, <1>4, <1>5 DEF WorkerNext

(* All steps.                                                              *)
LEMMA StepEffects ==
    ASSUME SchedInv, [Next]_vars
    PROVE  Effects /\ QueuedOnce'
<1>1. CASE WorkerNext /\ UNCHANGED schedulerVars
  BY <1>1, WorkerEffects
<1>2. ASSUME NEW t \in Tasks, Schedule(t) \/ CallerStep(t) PROVE Effects /\ QueuedOnce'
  BY <1>2, CallerEffects, SendEffects, Names DEF CallerStep
<1>3. ASSUME NEW s \in Loops, LoopStep(s) PROVE Effects /\ QueuedOnce'
  BY <1>3, LoopEffects, SendEffects, Names DEF LoopStep
<1>4. CASE Stop \/ StopReturned \/ StartAgain
  BY <1>4, LifeEffects
<1>5. CASE UNCHANGED vars
  <2>1. UNCHANGED <<queue, levelQueue, local, chan, current, inHand, pc, future, started,
                    unanswered, dropped, wpc>>
    BY <1>5 DEF vars, workerVars, roomVars, runVars, resultVars, queueVars, sendVars
  <2>2. TypeInv'
    BY <1>5, TypeSteps DEF SchedInv
  <2> QED BY <2>1, <2>2, RunIdles DEF Ending
<1> QED BY <1>1, <1>2, <1>3, <1>4, <1>5 DEF Next
-----------------------------------------------------------------------------
(* The invariant is kept by every effect.                                  *)

LEMMA ApartKept ==
    ASSUME Apart, NEW t, NEW b, Still \/ Freed(t) \/ Handed(t, b)
    PROVE  Apart'
<1> SUFFICES ASSUME NEW g \in Holders, NEW h \in Holders, g # h
             PROVE  held'[g] \cap held'[h] = {}
  BY DEF Apart
<1>1. held[g] \cap held[h] = {}
  BY DEF Apart
<1>2. CASE Still
  BY <1>1, <1>2 DEF Still
<1>3. CASE Freed(t)
  BY <1>1, <1>3 DEF Freed
<1>4. CASE Handed(t, b)
  <2>1. held'[g] = IF g = b THEN held[g] \cup {t} ELSE held[g] \ {t}
    BY <1>4 DEF Handed
  <2>2. held'[h] = IF h = b THEN held[h] \cup {t} ELSE held[h] \ {t}
    BY <1>4 DEF Handed
  <2>3. CASE g = b
    BY <1>1, <2>1, <2>2, <2>3
  <2>4. CASE g # b
    BY <1>1, <2>1, <2>2, <2>4
  <2> QED BY <2>3, <2>4
<1> QED BY <1>2, <1>3, <1>4

(* What anybody but its caller holds is accepted.                          *)
LEMMA HeldIsAccepted ==
    ASSUME SchedInv, NEW h \in Holders \ {Caller}, NEW t \in held[h]
    PROVE  t \in Tasks /\ pc[t] = "accepted" /\ Stage(t) = "accepted"
<1>1. t \in Tasks
  BY HeldIs DEF SchedInv, HeldByKind
<1> QED BY <1>1 DEF SchedInv, Ownership, CallerOwns, Stage

LEMMA StageIsAccepted ==
    \A t \in Tasks : Stage(t) = "accepted" <=> pc[t] = "accepted"
BY DEF Stage

LEMMA StageIsAcceptedNext ==
    \A t \in Tasks : Stage(t)' = "accepted" <=> pc'[t] = "accepted"
BY DEF Stage

(* A task that may be handed to others is not started, dropped or          *)
(* unanswered.                                                             *)
LEMMA MovableIsFresh ==
    ASSUME SchedInv, NEW t \in Tasks,
           Stage(t) # "accepted" \/ \E a \in Queues \cup Movers : t \in held[a]
    PROVE  t \notin started \cup dropped \cup unanswered
<1>1. CASE Stage(t) # "accepted"
  BY <1>1, StageIsAccepted DEF SchedInv, Ownership, CallerOwns, LostIsGone
<1>2. ASSUME NEW a \in Queues \cup Movers, t \in held[a]
      PROVE  t \notin started \cup dropped \cup unanswered
  <2>1. a \in Holders /\ a \notin Hands
    BY HoldersDiffer DEF HolderKinds, Holders
  <2> QED BY <1>2, <2>1 DEF SchedInv, Ownership, StartedIsHeldByRun, LostIsGone
<1> QED BY <1>1, <1>2

(* The effects in which no run takes or ends a task.                       *)
LEMMA QuietOwnership ==
    ASSUME SchedInv, RunsKept, NEW t \in Tasks, NEW b \in Holders,
           \A u \in Tasks : Stage(u) = "accepted" => Stage(u)' = "accepted",
           \/ dropped' = dropped
           \/ /\ dropped' = dropped \cup {t} /\ Freed(t)
              /\ Stage(t)' = "accepted" /\ t \notin started,
           \/ Still \/ Freed(t)
           \/ /\ Handed(t, b) /\ t \notin started \cup dropped \cup unanswered
              /\ b = Caller \/ Stage(t)' = "accepted"
    PROVE  Ownership'
<1>1. /\ Apart /\ CallerOwns /\ StartedIsHeldByRun /\ RunsAreStarted /\ LostIsGone
      /\ UNCHANGED <<current, started, unanswered, future>>
  BY DEF SchedInv, Ownership, RunsKept
<1>2. Apart'
  BY <1>1, ApartKept
<1>3. CallerOwns'
  <2> SUFFICES ASSUME NEW u \in Tasks, pc'[u] # "accepted"
               PROVE  /\ u \notin started' \cup dropped' /\ future'[u] = "pending"
                      /\ \A h \in Holders : u \in held'[h] => h = Caller
    BY DEF CallerOwns
  <2>1. Stage(u)' # "accepted" /\ pc[u] # "accepted"
    BY StageIsAccepted, StageIsAcceptedNext
  <2> HIDE DEF Stage
  <2>2. u \notin started' \cup dropped' /\ future'[u] = "pending"
    BY <1>1, <2>1 DEF CallerOwns
  <2>3. \A h \in Holders : u \in held'[h] => h = Caller
    BY <1>1, <2>1 DEF CallerOwns, Still, Freed, Handed
  <2> QED BY <2>2, <2>3
<1>4. StartedIsHeldByRun'
  BY <1>1 DEF StartedIsHeldByRun, Still, Freed, Handed
<1>5. RunsAreStarted'
  BY <1>1 DEF RunsAreStarted
<1>6. LostIsGone'
  <2>1. unanswered' \subseteq started' /\ started' \cap dropped' = {}
    BY <1>1 DEF LostIsGone
  <2>2. ASSUME NEW h \in Holders PROVE held'[h] \cap (dropped' \cup unanswered') = {}
    <3>1. held[h] \cap (dropped \cup unanswered) = {}
      BY <1>1 DEF LostIsGone
    <3> QED BY <1>1, <3>1 DEF Still, Freed, Handed
  <2> QED BY <2>1, <2>2 DEF LostIsGone
<1> QED BY <1>2, <1>3, <1>4, <1>5, <1>6 DEF Ownership

(* The task of a run.                                                      *)
LEMMA TaskOfRun ==
    ASSUME SchedInv, NEW r \in Runs, current[r] # None
    PROVE  /\ current[r] \in Tasks /\ current[r] \in held[Hand(r)]
           /\ pc[current[r]] = "accepted" /\ Stage(current[r]) = "accepted"
           /\ current[r] \in started
           /\ \A q \in Runs \ {r} : current[q] # current[r]
<1>1. HolderKinds /\ HeldByKind /\ Apart /\ RunsAreStarted
  BY HoldersDiffer, HeldIs DEF SchedInv, Ownership
<1>2. \A q \in Runs : held[Hand(q)] = {current[q]} \ {None}
  BY <1>1 DEF HeldByKind
<1>3. current[r] \in held[Hand(r)] /\ Hand(r) \in Holders \ {Caller}
  BY <1>1, <1>2 DEF HolderKinds
<1>4. ASSUME NEW q \in Runs \ {r}, current[q] = current[r] PROVE FALSE
  <2>1. current[r] \in held[Hand(q)] /\ Hand(q) \in Holders /\ Hand(q) # Hand(r)
    BY <1>1, <1>2, <1>4 DEF HolderKinds
  <2> QED BY <1>1, <1>3, <2>1 DEF Apart
<1>5. current[r] \in started
  BY <1>1 DEF RunsAreStarted
<1> QED BY <1>3, <1>4, <1>5, HeldIsAccepted

(* A run has taken a task.                                                 *)
LEMMA BegunOwnership ==
    ASSUME SchedInv, NEW t \in Tasks, NEW r \in Runs, Begun(t, r)
    PROVE  Ownership'
<1>1. /\ Apart /\ CallerOwns /\ StartedIsHeldByRun /\ RunsAreStarted /\ LostIsGone
      /\ Hand(r) \in Hands /\ Hand(r) \in Holders
  BY HoldersDiffer DEF SchedInv, Ownership, HolderKinds
<1>2. /\ Handed(t, Hand(r)) /\ started' = started \cup {t}
      /\ UNCHANGED <<unanswered, future, dropped>> /\ StagesKept
      /\ current'[r] = t /\ \A q \in Runs \ {r} : current'[q] = current[q]
  BY DEF Begun, OnlyRun
<1>3. t \notin started \cup dropped \cup unanswered
  BY MovableIsFresh DEF Begun
<1>4. Stage(t) = "accepted"
  <2>1. \A a \in Queues : a \in Holders \ {Caller}
    BY HoldersDiffer DEF HolderKinds
  <2> QED BY <2>1, HeldIsAccepted DEF Begun
<1>5. Apart'
  BY <1>1, <1>2, ApartKept
<1>6. CallerOwns'
  <2> SUFFICES ASSUME NEW u \in Tasks, pc'[u] # "accepted"
               PROVE  /\ u \notin started' \cup dropped' /\ future'[u] = "pending"
                      /\ \A h \in Holders : u \in held'[h] => h = Caller
    BY DEF CallerOwns
  <2>1. u # t /\ pc[u] # "accepted"
    BY <1>2, <1>4, StageIsAccepted, StageIsAcceptedNext DEF StagesKept
  <2> HIDE DEF Stage
  <2>2. u \notin started' \cup dropped' /\ future'[u] = "pending"
    BY <1>1, <1>2, <2>1 DEF CallerOwns
  <2>3. ASSUME NEW h \in Holders, u \in held'[h] PROVE h = Caller
    <3>1. u \in held[h]
      BY <1>2, <2>1, <2>3 DEF Handed
    <3> QED BY <1>1, <2>1, <3>1 DEF CallerOwns
  <2> QED BY <2>2, <2>3
<1>7. StartedIsHeldByRun'
  BY <1>1, <1>2 DEF StartedIsHeldByRun, Handed
<1>8. RunsAreStarted'
  BY <1>1, <1>2 DEF RunsAreStarted
<1>9. LostIsGone'
  <2>1. unanswered' \subseteq started' /\ started' \cap dropped' = {}
    BY <1>1, <1>2, <1>3 DEF LostIsGone
  <2>2. ASSUME NEW h \in Holders PROVE held'[h] \cap (dropped' \cup unanswered') = {}
    <3>1. held[h] \cap (dropped \cup unanswered) = {}
      BY <1>1 DEF LostIsGone
    <3> QED BY <1>2, <1>3, <3>1 DEF Handed
  <2> QED BY <2>1, <2>2 DEF LostIsGone
<1> QED BY <1>5, <1>6, <1>7, <1>8, <1>9 DEF Ownership

(* A run has let go of its task, or thrown one away.                       *)
LEMMA FreedOwnership ==
    ASSUME SchedInv, NEW t \in Tasks, Freed(t), Stage(t) = "accepted", StagesKept,
           UNCHANGED <<started, dropped>>,
           unanswered' = unanswered \/ (unanswered' = unanswered \cup {t} /\ t \in started),
           \A u \in Tasks \ {t} : future'[u] = future[u],
           \A q \in Runs : current'[q] \in {current[q], None}
    PROVE  Ownership'
<1>1. /\ Apart /\ CallerOwns /\ StartedIsHeldByRun /\ RunsAreStarted /\ LostIsGone
  BY DEF SchedInv, Ownership
<1>2. Apart'
  BY <1>1, ApartKept
<1>3. CallerOwns'
  <2> SUFFICES ASSUME NEW u \in Tasks, pc'[u] # "accepted"
               PROVE  /\ u \notin started' \cup dropped' /\ future'[u] = "pending"
                      /\ \A h \in Holders : u \in held'[h] => h = Caller
    BY DEF CallerOwns
  <2>1. u # t /\ pc[u] # "accepted"
    BY StageIsAccepted, StageIsAcceptedNext DEF StagesKept
  <2> QED BY <1>1, <2>1 DEF CallerOwns, Freed
<1>4. StartedIsHeldByRun'
  BY <1>1 DEF StartedIsHeldByRun, Freed
<1>5. RunsAreStarted'
  BY <1>1 DEF RunsAreStarted
<1>6. LostIsGone'
  <2>1. unanswered' \subseteq started' /\ started' \cap dropped' = {}
    BY <1>1 DEF LostIsGone
  <2>2. ASSUME NEW h \in Holders PROVE held'[h] \cap (dropped' \cup unanswered') = {}
    <3>1. held[h] \cap (dropped \cup unanswered) = {} /\ held'[h] = held[h] \ {t}
      BY <1>1 DEF LostIsGone, Freed
    <3> QED BY <3>1
  <2> QED BY <2>1, <2>2 DEF LostIsGone
<1> QED BY <1>2, <1>3, <1>4, <1>5, <1>6 DEF Ownership

LEMMA OwnershipKept ==
    ASSUME SchedInv, TypeInv', Effects
    PROVE  Ownership'
<1>1. /\ TypeInv /\ HolderKinds /\ ResultsTyped /\ RunsTyped
      /\ Queues \cup Movers \subseteq Holders \ {Caller} /\ Caller \in Holders
  BY HoldersDiffer DEF SchedInv, TypeInv, HolderKinds, Holders
<1>2. ASSUME Idle PROVE Ownership'
  <2>1. CASE Tasks # {}
    <3>1. PICK t \in Tasks : TRUE
      BY <2>1
    <3> QED BY <1>1, <1>2, <3>1, QuietOwnership DEF Idle, StagesKept
  <2>2. CASE Tasks = {}
    BY <1>2, <2>2, ApartKept
       DEF SchedInv, Ownership, Idle, RunsKept, CallerOwns, StartedIsHeldByRun,
           RunsAreStarted, LostIsGone, ResultsTyped, TypeInv, Still
  <2> QED BY <2>1, <2>2
<1>3. ASSUME NEW t \in Tasks, Offered(t) \/ Refused(t) \/ GivenUp(t) PROVE Ownership'
  <2>1. /\ RunsKept /\ UNCHANGED dropped /\ Stage(t) # "accepted"
        /\ \A u \in Tasks : Stage(u) = "accepted" => Stage(u)' = "accepted"
    BY <1>3 DEF Offered, Refused, GivenUp, Quiet, StageGoes, StagesKept
  <2>2. Still \/ Freed(t) \/ Handed(t, Caller)
    BY <1>3 DEF Offered, Refused, GivenUp
  <2>3. t \notin started \cup dropped \cup unanswered
    BY <2>1, MovableIsFresh
  <2> QED BY <1>1, <2>1, <2>2, <2>3, QuietOwnership
<1>4. ASSUME NEW t \in Tasks, NEW b \in Queues, Accepted(t, b) PROVE Ownership'
  <2>1. /\ RunsKept /\ UNCHANGED dropped /\ Stage(t) # "accepted" /\ Stage(t)' = "accepted"
        /\ Handed(t, b) /\ b \in Holders
        /\ \A u \in Tasks : Stage(u) = "accepted" => Stage(u)' = "accepted"
    BY <1>1, <1>4 DEF Accepted, Quiet, StageGoes
  <2>2. t \notin started \cup dropped \cup unanswered
    BY <2>1, MovableIsFresh
  <2> QED BY <2>1, <2>2, QuietOwnership
<1>5. ASSUME NEW t \in Tasks, NEW b \in Queues \cup Movers, Moved(t, b) PROVE Ownership'
  <2>1. /\ RunsKept /\ UNCHANGED dropped /\ Handed(t, b) /\ StagesKept /\ b \in Holders
        /\ \E a \in Queues \cup Movers : t \in held[a]
    BY <1>1, <1>5 DEF Moved, Quiet
  <2>2. t \notin started \cup dropped \cup unanswered
    BY <2>1, MovableIsFresh
  <2>3. Stage(t)' = "accepted"
    BY <1>1, <2>1, HeldIsAccepted DEF StagesKept
  <2>4. \A u \in Tasks : Stage(u) = "accepted" => Stage(u)' = "accepted"
    BY <2>1 DEF StagesKept
  <2> QED BY <2>1, <2>2, <2>3, <2>4, QuietOwnership
<1>6. ASSUME NEW t \in Tasks, Lost(t) PROVE Ownership'
  <2>1. /\ RunsKept /\ dropped' = dropped \cup {t} /\ Freed(t) /\ StagesKept
        /\ \E a \in Queues \cup Movers : t \in held[a]
    BY <1>6 DEF Lost, Quiet
  <2>2. t \notin started \cup dropped \cup unanswered
    BY <2>1, MovableIsFresh
  <2>3. Stage(t)' = "accepted"
    BY <1>1, <2>1, HeldIsAccepted DEF StagesKept
  <2>4. \A u \in Tasks : Stage(u) = "accepted" => Stage(u)' = "accepted"
    BY <2>1 DEF StagesKept
  <2> QED BY <1>1, <2>1, <2>2, <2>3, <2>4, QuietOwnership
<1>7. ASSUME NEW t \in Tasks, Discarded(t) PROVE Ownership'
  <2>1. /\ Freed(t) /\ StagesKept /\ UNCHANGED <<current, started, unanswered, dropped>>
        /\ Stage(t) = "accepted"
    BY <1>1, <1>7, HeldIsAccepted DEF Discarded
  <2>2. \A u \in Tasks \ {t} : future'[u] = future[u]
    BY <1>1, <1>7, ResultTypes DEF Discarded
  <2> QED BY <2>1, <2>2, FreedOwnership
<1>8. ASSUME NEW r \in Runs, Returned(r) PROVE Ownership'
  <2>1. /\ Still /\ StagesKept /\ UNCHANGED <<current, started, unanswered, future, dropped>>
    BY <1>8 DEF Returned, OnlyRun
  <2>2. \A u \in Tasks : pc'[u] = "accepted" <=> pc[u] = "accepted"
    BY <2>1, StageIsAccepted, StageIsAcceptedNext DEF StagesKept
  <2>3. Apart'
    BY <2>1, ApartKept DEF SchedInv, Ownership
  <2>4. CallerOwns' /\ StartedIsHeldByRun' /\ RunsAreStarted' /\ LostIsGone'
    BY <2>1, <2>2 DEF SchedInv, Ownership, CallerOwns, StartedIsHeldByRun, RunsAreStarted,
                      LostIsGone, Still
  <2> QED BY <2>3, <2>4 DEF Ownership
<1>9. ASSUME NEW r \in Runs, Reported(r) \/ CutShort(r) PROVE Ownership'
  <2>1. current[r] # None
    BY <1>1, <1>9 DEF Reported, CutShort, RunsTyped, RunTyped
  <2>2. PICK t \in Tasks : t = current[r] /\ Stage(t) = "accepted" /\ t \in started
    BY <2>1, TaskOfRun
  <2>3. /\ Freed(t) /\ StagesKept /\ UNCHANGED <<started, dropped>>
        /\ unanswered' = unanswered \/ (unanswered' = unanswered \cup {t} /\ t \in started)
        /\ \A q \in Runs : current'[q] \in {current[q], None}
    BY <1>9, <2>2 DEF Reported, CutShort, OnlyRun
  <2>4. \A u \in Tasks \ {t} : future'[u] = future[u]
    BY <1>1, <1>9, <2>2, ResultTypes DEF Reported, CutShort
  <2> QED BY <2>2, <2>3, <2>4, FreedOwnership
<1> QED BY <1>2, <1>3, <1>4, <1>5, <1>6, <1>7, <1>8, <1>9, BegunOwnership DEF Effects
-----------------------------------------------------------------------------
(* The invariant holds from the start and is kept.                         *)

LEMMA SchedInitially == Init => SchedInv
<1> SUFFICES ASSUME Init PROVE SchedInv
  OBVIOUS
<1>1. TypeInv /\ HeldByKind /\ HolderKinds
  BY TypeInitially, HeldIs, HoldersDiffer
<1>2. PICK s \in Scenarios :
         /\ WorkerInit(s.local, s.chan, s.count, s.up)
         /\ queue = s.queue
         /\ pc = [x \in Senders |-> IF x \in Loops THEN "wait"
                                    ELSE IF x \in s.callers THEN "new"
                                    ELSE IF x \in Held(s) THEN "accepted"
                                    ELSE "absent"]
  BY DEF Init
<1>3. /\ local = s.local /\ chan = s.chan
      /\ levelQueue = [l \in Levels |-> <<>>] /\ inHand = [x \in Loops |-> None]
      /\ current = [r \in Runs |-> None] /\ future = [t \in Tasks |-> "pending"]
      /\ started = {} /\ unanswered = {} /\ dropped = {}
  BY <1>2 DEF Init, WorkerInit
<1> DEFINE Keeper(x) == IF x[2] = "local" THEN Local(x[1])
                        ELSE IF x[2] = "chan" THEN Chan(x[1]) ELSE Global
<1>4. /\ \A w \in Workers : /\ <<w, "local">> \in Rooms /\ <<w, "chan">> \in Rooms
                            /\ Filled(s, <<w, "local">>) = local[w]
                            /\ Filled(s, <<w, "chan">>) = chan[w]
                            /\ Keeper(<<w, "local">>) = Local(w)
                            /\ Keeper(<<w, "chan">>) = Chan(w)
      /\ <<0, "queue">> \in Rooms /\ Filled(s, <<0, "queue">>) = queue
      /\ Keeper(<<0, "queue">>) = Global
      /\ \A x \in Rooms : \/ x = <<0, "queue">>
                          \/ \E w \in Workers : x \in {<<w, "local">>, <<w, "chan">>}
  BY <1>2, <1>3 DEF Rooms, Filled
<1> HIDE DEF Keeper
<1>5. \A x \in Rooms : Filled(s, x) \in Seq(Tasks)
  BY <1>1, <1>4 DEF TypeInv, RoomsTyped
<1>6. ASSUME NEW x \in Rooms, NEW y \in Rooms,
             NEW i \in 1 .. Len(Filled(s, x)), NEW j \in 1 .. Len(Filled(s, y)),
             Filled(s, x)[i] = Filled(s, y)[j]
      PROVE  x = y /\ i = j
  <2>1. i \in DOMAIN Filled(s, x) /\ j \in DOMAIN Filled(s, y)
    BY <1>5
  <2> QED BY <1>6, <2>1, ScenarioAssumption
<1>7. \A x \in Rooms : NoRepeats(Filled(s, x))
  BY <1>6 DEF NoRepeats
<1>8. QueuedOnce
  <2>1. NoRepeats(<<>>)
    BY DEF NoRepeats
  <2> QED BY <1>3, <1>4, <1>7, <2>1 DEF QueuedOnce
<1>9. ASSUME NEW h \in Holders, NEW t \in held[h]
      PROVE  \E x \in Rooms : h = Keeper(x) /\ t \in Elements(Filled(s, x))
  <2>1. CASE h = Global
    BY <1>1, <1>4, <1>9, <2>1 DEF HeldByKind
  <2>2. ASSUME NEW w \in Workers, h = Local(w) \/ h = Chan(w)
        PROVE  \E x \in Rooms : h = Keeper(x) /\ t \in Elements(Filled(s, x))
    <3>1. CASE h = Local(w)
      <4>1. t \in Elements(local[w])
        BY <1>1, <1>9, <3>1 DEF HeldByKind
      <4> QED BY <1>4, <3>1, <4>1
    <3>2. CASE h = Chan(w)
      <4>1. t \in Elements(chan[w])
        BY <1>1, <1>9, <3>2 DEF HeldByKind
      <4> QED BY <1>4, <3>2, <4>1
    <3> QED BY <2>2, <3>1, <3>2
  <2>3. ASSUME NEW l \in Levels, h = Level(l) PROVE FALSE
    <3>1. t \in Elements(levelQueue[l]) /\ levelQueue[l] = <<>>
      BY <1>1, <1>3, <1>9, <2>3 DEF HeldByKind
    <3> QED BY <3>1 DEF Elements
  <2>4. CASE h = Caller
    <3>1. t \in Tasks /\ pc[t] \in Sending
      BY <1>1, <1>9, <2>4 DEF HeldByKind
    <3> QED BY <1>2, <3>1, Names DEF Sending
  <2>5. ASSUME NEW r \in Runs, h = Hand(r) PROVE FALSE
    BY <1>1, <1>3, <1>9, <2>5 DEF HeldByKind
  <2>6. ASSUME NEW q \in Loops, h = Mover(q) PROVE FALSE
    BY <1>1, <1>3, <1>9, <2>6 DEF HeldByKind
  <2> QED BY <1>1, <2>1, <2>2, <2>3, <2>4, <2>5, <2>6 DEF HolderKinds
<1>10. ASSUME NEW g \in Holders, NEW h \in Holders, NEW t \in held[g], t \in held[h]
       PROVE  g = h
  <2>1. PICK x \in Rooms : g = Keeper(x) /\ t \in Elements(Filled(s, x))
    BY <1>9
  <2>2. PICK y \in Rooms : h = Keeper(y) /\ t \in Elements(Filled(s, y))
    BY <1>9, <1>10
  <2>3. x = y
    BY <1>6, <2>1, <2>2 DEF Elements
  <2> QED BY <2>1, <2>2, <2>3
<1>11. ASSUME NEW h \in Holders, NEW t \in held[h] PROVE pc[t] = "accepted"
  <2>1. PICK x \in Rooms : t \in Elements(Filled(s, x))
    BY <1>9
  <2>2. PICK i \in 1 .. Len(Filled(s, x)) : t = Filled(s, x)[i]
    BY <2>1 DEF Elements
  <2>3. i \in DOMAIN Filled(s, x)
    BY <1>5
  <2>4. t \in Held(s)
    <3>1. Filled(s, x) \in {s.local[w] : w \in Workers} \cup {s.chan[w] : w \in Workers}
                           \cup {s.queue}
      BY <1>2, <1>3, <1>4
    <3> QED BY <2>2, <2>3, <3>1 DEF Held
  <2>5. t \in Tasks /\ t \notin s.callers
    BY <1>1, <2>4, ScenarioAssumption DEF HeldByKind
  <2> QED BY <1>2, <2>4, <2>5, Names
<1>12. Apart
  BY <1>10 DEF Apart
<1>13. CallerOwns
  BY <1>3, <1>11 DEF CallerOwns
<1>14. StartedIsHeldByRun /\ RunsAreStarted /\ LostIsGone
  BY <1>3 DEF StartedIsHeldByRun, RunsAreStarted, LostIsGone
<1> QED BY <1>1, <1>8, <1>12, <1>13, <1>14 DEF SchedInv, Ownership

(* The invariant the other theorems rest on: no queue has a task twice, no *)
(* two holders have the same task, until Schedule has returned nil only    *)
(* its caller has it (scheduler.go:129-176), and a task whose Execute was  *)
(* called is only with the run that called it (worker.go:251-400).         *)
THEOREM SchedulerCorrect == Spec => []SchedInv
<1>1. SchedInv /\ [Next]_vars => SchedInv'
  <2> SUFFICES ASSUME SchedInv, [Next]_vars PROVE SchedInv'
    OBVIOUS
  <2>1. TypeInv'
    BY TypeSteps DEF SchedInv
  <2>2. Effects /\ QueuedOnce'
    BY StepEffects
  <2>3. Ownership'
    BY <2>1, <2>2, OwnershipKept
  <2> QED BY <2>1, <2>2, <2>3 DEF SchedInv
<1> QED BY <1>1, SchedInitially, PTL DEF Spec
-----------------------------------------------------------------------------
(* OneHolder: the places of a task, as Places counts them, are one for     *)
(* each holder that has it.                                                *)

(* A place of the task in a queue.                                         *)
InRow(q, t, k, x, p) == \E i \in Positions(q, t) : p = <<k, x, i>>

PlaceAt(h, t, p) ==
    \/ h = Global /\ InRow(queue, t, "global", 0, p)
    \/ h = Caller /\ pc[t] \in Sending /\ p = <<"caller", 0, 0>>
    \/ \E l \in Levels :
          h = Level(l) /\ InRow(levelQueue[l], t, "level", l, p)
    \/ \E w \in Workers :
          \/ h = Local(w) /\ InRow(local[w], t, "local", w, p)
          \/ h = Chan(w) /\ InRow(chan[w], t, "chan", w, p)
    \/ \E r \in Runs : h = Hand(r) /\ current[r] = t /\ p = <<"run", r, 0>>
    \/ \E s \in Loops : h = Mover(s) /\ inHand[s] = t /\ p = <<"loop", s, 0>>

(* What that says of each kind of holder.                                  *)
PlaceByKind(t) ==
    \A p :
       /\ PlaceAt(Global, t, p) <=> InRow(queue, t, "global", 0, p)
       /\ PlaceAt(Caller, t, p) <=> pc[t] \in Sending /\ p = <<"caller", 0, 0>>
       /\ \A l \in Levels : PlaceAt(Level(l), t, p) <=> InRow(levelQueue[l], t, "level", l, p)
       /\ \A w \in Workers : PlaceAt(Local(w), t, p) <=>
             InRow(local[w], t, "local", w, p)
       /\ \A w \in Workers : PlaceAt(Chan(w), t, p) <=>
             InRow(chan[w], t, "chan", w, p)
       /\ \A r \in Runs : PlaceAt(Hand(r), t, p) <=> current[r] = t /\ p = <<"run", r, 0>>
       /\ \A s \in Loops : PlaceAt(Mover(s), t, p) <=> inHand[s] = t /\ p = <<"loop", s, 0>>

LEMMA PlacesByKind == ASSUME NEW t PROVE PlaceByKind(t)
<1>1. HolderKinds
  BY HoldersDiffer
<1> SUFFICES ASSUME NEW p
             PROVE
       /\ PlaceAt(Global, t, p) <=> InRow(queue, t, "global", 0, p)
       /\ PlaceAt(Caller, t, p) <=> pc[t] \in Sending /\ p = <<"caller", 0, 0>>
       /\ \A l \in Levels : PlaceAt(Level(l), t, p) <=> InRow(levelQueue[l], t, "level", l, p)
       /\ \A w \in Workers : PlaceAt(Local(w), t, p) <=>
             InRow(local[w], t, "local", w, p)
       /\ \A w \in Workers : PlaceAt(Chan(w), t, p) <=>
             InRow(chan[w], t, "chan", w, p)
       /\ \A r \in Runs : PlaceAt(Hand(r), t, p) <=> current[r] = t /\ p = <<"run", r, 0>>
       /\ \A s \in Loops : PlaceAt(Mover(s), t, p) <=> inHand[s] = t /\ p = <<"loop", s, 0>>
  BY DEF PlaceByKind
<1>2. PlaceAt(Global, t, p) <=> InRow(queue, t, "global", 0, p)
  BY <1>1 DEF PlaceAt, HolderKinds
<1>3. PlaceAt(Caller, t, p) <=> pc[t] \in Sending /\ p = <<"caller", 0, 0>>
  BY <1>1 DEF PlaceAt, HolderKinds
<1>4. ASSUME NEW l \in Levels
      PROVE  PlaceAt(Level(l), t, p) <=> InRow(levelQueue[l], t, "level", l, p)
  BY <1>1 DEF PlaceAt, HolderKinds
<1>5. ASSUME NEW w \in Workers
      PROVE  PlaceAt(Local(w), t, p) <=>
                InRow(local[w], t, "local", w, p)
  BY <1>1 DEF PlaceAt, HolderKinds
<1>6. ASSUME NEW w \in Workers
      PROVE  PlaceAt(Chan(w), t, p) <=>
                InRow(chan[w], t, "chan", w, p)
  BY <1>1 DEF PlaceAt, HolderKinds
<1>7. ASSUME NEW r \in Runs
      PROVE  PlaceAt(Hand(r), t, p) <=> current[r] = t /\ p = <<"run", r, 0>>
  BY <1>1 DEF PlaceAt, HolderKinds
<1>8. ASSUME NEW s \in Loops
      PROVE  PlaceAt(Mover(s), t, p) <=> inHand[s] = t /\ p = <<"loop", s, 0>>
  BY <1>1 DEF PlaceAt, HolderKinds
<1> QED BY <1>2, <1>3, <1>4, <1>5, <1>6, <1>7, <1>8

(* The places that Places counts are those of the holders.                 *)
LEMMA PlacesAreHolders ==
    ASSUME NEW t \in Tasks
    PROVE  \A p : p \in Places(t) <=> \E h \in Holders : PlaceAt(h, t, p)
<1> TAKE p
<1> DEFINE
      InQueue  == {<<"global", 0, i>> : i \in Positions(queue, t)}
      InLevel  == UNION {{<<"level", l, i>> : i \in Positions(levelQueue[l], t)} : l \in Levels}
      InLocal  == UNION {{<<"local", w, i>> : i \in Positions(local[w], t)} : w \in Workers}
      InChan   == UNION {{<<"chan", w, i>> : i \in Positions(chan[w], t)} : w \in Workers}
      InRun    == {<<"run", r, 0>> : r \in {x \in Runs : current[x] = t}}
      InLoop   == {<<"loop", s, 0>> : s \in {x \in Loops : inHand[x] = t}}
      AtCaller == IF pc[t] \in {"select", "local", "chan", "level", "global"}
                  THEN {<<"caller", 0, 0>>} ELSE {}
<1>1. HolderKinds /\ PlaceByKind(t)
  BY HoldersDiffer, PlacesByKind
<1>2. Places(t) = InQueue \cup InLevel \cup InLocal \cup InChan \cup InRun \cup InLoop
                  \cup AtCaller
  BY Zenon DEF Places
<1>3. p \in InQueue <=> PlaceAt(Global, t, p)
  BY <1>1 DEF PlaceByKind, InRow
<1>4. p \in InLevel <=> \E l \in Levels : PlaceAt(Level(l), t, p)
  BY <1>1 DEF PlaceByKind, InRow
<1>5. p \in AtCaller <=> PlaceAt(Caller, t, p)
  BY <1>1 DEF PlaceByKind, Sending
<1>6. p \in InLocal <=> \E w \in Workers : PlaceAt(Local(w), t, p)
  BY <1>1 DEF PlaceByKind, InRow
<1>7. p \in InChan <=> \E w \in Workers : PlaceAt(Chan(w), t, p)
  BY <1>1 DEF PlaceByKind, InRow
<1>8. p \in InRun <=> \E r \in Runs : PlaceAt(Hand(r), t, p)
  BY <1>1 DEF PlaceByKind
<1>9. p \in InLoop <=> \E s \in Loops : PlaceAt(Mover(s), t, p)
  BY <1>1 DEF PlaceByKind
<1> HIDE DEF InQueue, InLevel, InLocal, InChan, InRun, InLoop, AtCaller
<1>10. (\E h \in Holders : PlaceAt(h, t, p)) <=>
        \/ PlaceAt(Global, t, p) \/ PlaceAt(Caller, t, p)
        \/ \E l \in Levels : PlaceAt(Level(l), t, p)
        \/ \E w \in Workers : PlaceAt(Local(w), t, p)
        \/ \E w \in Workers : PlaceAt(Chan(w), t, p)
        \/ \E r \in Runs : PlaceAt(Hand(r), t, p)
        \/ \E s \in Loops : PlaceAt(Mover(s), t, p)
  BY <1>1 DEF HolderKinds
<1> QED BY <1>2, <1>3, <1>4, <1>5, <1>6, <1>7, <1>8, <1>9, <1>10

(* A queue that has a task has one place for it.                           *)
LEMMA OneRowPlace ==
    ASSUME NEW q \in Seq(Tasks), NoRepeats(q), NEW t, NEW k, NEW x
    PROVE  /\ t \in Elements(q) <=> \E p : InRow(q, t, k, x, p)
           /\ \A o, p : InRow(q, t, k, x, o) /\ InRow(q, t, k, x, p) => o = p
<1>1. DOMAIN q = 1 .. Len(q)
  OBVIOUS
<1>2. t \in Elements(q) <=> \E i : i \in Positions(q, t)
  BY <1>1 DEF Elements, Positions
<1>3. \A i, j \in Positions(q, t) : i = j
  BY <1>1 DEF Positions, NoRepeats
<1>4. (\E p : InRow(q, t, k, x, p)) <=> \E i : i \in Positions(q, t)
  BY Zenon DEF InRow
<1>5. ASSUME NEW o, NEW p, InRow(q, t, k, x, o), InRow(q, t, k, x, p) PROVE o = p
  BY <1>3, <1>5 DEF InRow
<1> QED BY <1>2, <1>4, <1>5, Zenon

(* A holder has the task exactly if there is a place for it there, and     *)
(* then there is one only.                                                 *)
LEMMA HolderHasPlace ==
    ASSUME SchedInv, NEW t \in Tasks, NEW h \in Holders
    PROVE  /\ t \in held[h] <=> \E p : PlaceAt(h, t, p)
           /\ \A p, q : PlaceAt(h, t, p) /\ PlaceAt(h, t, q) => p = q
<1>1. HolderKinds /\ HeldByKind /\ PlaceByKind(t) /\ t # None
  BY HoldersDiffer, HeldIs, PlacesByKind, Names DEF SchedInv
<1>2. CASE h = Global
  <2>1. queue \in Seq(Tasks) /\ NoRepeats(queue)
    BY DEF SchedInv, TypeInv, RoomsTyped, QueuedOnce
  <2>2. /\ held[h] = Elements(queue)
        /\ \A p : PlaceAt(h, t, p) <=> InRow(queue, t, "global", 0, p)
    BY <1>1, <1>2 DEF HeldByKind, PlaceByKind
  <2>3. /\ t \in Elements(queue) <=> \E p : InRow(queue, t, "global", 0, p)
        /\ \A o, p : InRow(queue, t, "global", 0, o) /\ InRow(queue, t, "global", 0, p) => o = p
    BY <2>1, OneRowPlace
  <2> QED BY <2>2, <2>3, Zenon
<1>3. ASSUME NEW l \in Levels, h = Level(l)
      PROVE  /\ t \in held[h] <=> \E p : PlaceAt(h, t, p)
             /\ \A p, q : PlaceAt(h, t, p) /\ PlaceAt(h, t, q) => p = q
  <2>1. levelQueue[l] \in Seq(Tasks) /\ NoRepeats(levelQueue[l])
    BY DEF SchedInv, TypeInv, RoomsTyped, QueuedOnce
  <2>2. /\ held[h] = Elements(levelQueue[l])
        /\ \A p : PlaceAt(h, t, p) <=> InRow(levelQueue[l], t, "level", l, p)
    BY <1>1, <1>3 DEF HeldByKind, PlaceByKind
  <2>3. /\ t \in Elements(levelQueue[l]) <=> \E p : InRow(levelQueue[l], t, "level", l, p)
        /\ \A o, p : /\ InRow(levelQueue[l], t, "level", l, o)
                      /\ InRow(levelQueue[l], t, "level", l, p)
                      => o = p
    BY <2>1, OneRowPlace
  <2> QED BY <2>2, <2>3, Zenon
<1>4. ASSUME NEW w \in Workers, h = Local(w)
      PROVE  /\ t \in held[h] <=> \E p : PlaceAt(h, t, p)
             /\ \A p, q : PlaceAt(h, t, p) /\ PlaceAt(h, t, q) => p = q
  <2>1. local[w] \in Seq(Tasks) /\ NoRepeats(local[w])
    BY DEF SchedInv, TypeInv, RoomsTyped, QueuedOnce
  <2>2. /\ held[h] = Elements(local[w])
        /\ \A p : PlaceAt(h, t, p) <=> InRow(local[w], t, "local", w, p)
    BY <1>1, <1>4 DEF HeldByKind, PlaceByKind
  <2>3. /\ t \in Elements(local[w]) <=> \E p : InRow(local[w], t, "local", w, p)
        /\ \A o, p : /\ InRow(local[w], t, "local", w, o)
                      /\ InRow(local[w], t, "local", w, p)
                      => o = p
    BY <2>1, OneRowPlace
  <2> QED BY <2>2, <2>3, Zenon
<1>5. ASSUME NEW w \in Workers, h = Chan(w)
      PROVE  /\ t \in held[h] <=> \E p : PlaceAt(h, t, p)
             /\ \A p, q : PlaceAt(h, t, p) /\ PlaceAt(h, t, q) => p = q
  <2>1. chan[w] \in Seq(Tasks) /\ NoRepeats(chan[w])
    BY DEF SchedInv, TypeInv, RoomsTyped, QueuedOnce
  <2>2. /\ held[h] = Elements(chan[w])
        /\ \A p : PlaceAt(h, t, p) <=> InRow(chan[w], t, "chan", w, p)
    BY <1>1, <1>5 DEF HeldByKind, PlaceByKind
  <2>3. /\ t \in Elements(chan[w]) <=> \E p : InRow(chan[w], t, "chan", w, p)
        /\ \A o, p : /\ InRow(chan[w], t, "chan", w, o)
                      /\ InRow(chan[w], t, "chan", w, p)
                      => o = p
    BY <2>1, OneRowPlace
  <2> QED BY <2>2, <2>3, Zenon
<1>6. CASE h = Caller
  <2>1. /\ t \in held[h] <=> pc[t] \in Sending
        /\ \A p : PlaceAt(h, t, p) <=> pc[t] \in Sending /\ p = <<"caller", 0, 0>>
    BY <1>1, <1>6 DEF HeldByKind, PlaceByKind
  <2>2. pc[t] \in Sending => PlaceAt(h, t, <<"caller", 0, 0>>)
    BY <2>1
  <2>3. \A p, q : PlaceAt(h, t, p) /\ PlaceAt(h, t, q) => p = q
    BY ONLY <2>1
  <2>4. (\E p : PlaceAt(h, t, p)) => pc[t] \in Sending
    BY <2>1
  <2> QED BY <2>1, <2>2, <2>3, <2>4, Zenon
<1>7. ASSUME NEW r \in Runs, h = Hand(r)
      PROVE  /\ t \in held[h] <=> \E p : PlaceAt(h, t, p)
             /\ \A p, q : PlaceAt(h, t, p) /\ PlaceAt(h, t, q) => p = q
  <2>1. /\ held[h] = {current[r]} \ {None}
        /\ \A p : PlaceAt(h, t, p) <=> current[r] = t /\ p = <<"run", r, 0>>
    BY <1>1, <1>7 DEF HeldByKind, PlaceByKind
  <2>2. current[r] = t => PlaceAt(h, t, <<"run", r, 0>>)
    BY <2>1
  <2>3. \A p, q : PlaceAt(h, t, p) /\ PlaceAt(h, t, q) => p = q
    BY ONLY <2>1
  <2>4. (\E p : PlaceAt(h, t, p)) => current[r] = t
    BY <2>1
  <2>5. t \in held[h] <=> current[r] = t
    BY <1>1, <2>1
  <2> QED BY <2>2, <2>3, <2>4, <2>5, Zenon
<1>8. ASSUME NEW s \in Loops, h = Mover(s)
      PROVE  /\ t \in held[h] <=> \E p : PlaceAt(h, t, p)
             /\ \A p, q : PlaceAt(h, t, p) /\ PlaceAt(h, t, q) => p = q
  <2>1. /\ held[h] = {inHand[s]} \ {None}
        /\ \A p : PlaceAt(h, t, p) <=> inHand[s] = t /\ p = <<"loop", s, 0>>
    BY <1>1, <1>8 DEF HeldByKind, PlaceByKind
  <2>2. inHand[s] = t => PlaceAt(h, t, <<"loop", s, 0>>)
    BY <2>1
  <2>3. \A p, q : PlaceAt(h, t, p) /\ PlaceAt(h, t, q) => p = q
    BY ONLY <2>1
  <2>4. (\E p : PlaceAt(h, t, p)) => inHand[s] = t
    BY <2>1
  <2>5. t \in held[h] <=> inHand[s] = t
    BY <1>1, <2>1
  <2> QED BY <2>2, <2>3, <2>4, <2>5, Zenon
<1> QED BY <1>1, <1>2, <1>3, <1>4, <1>5, <1>6, <1>7, <1>8 DEF HolderKinds

(* A wrapper is never in two places (worker.go:498-510).                   *)
THEOREM WrappersHaveOneHolder == Spec => []OneHolder
<1>1. SchedInv => OneHolder
  <2> SUFFICES ASSUME SchedInv, NEW t \in Tasks PROVE Cardinality(Places(t)) <= 1
    BY DEF OneHolder
  <2>1. ASSUME NEW p \in Places(t), NEW q \in Places(t) PROVE p = q
    <3>1. PICK g \in Holders : PlaceAt(g, t, p)
      BY PlacesAreHolders
    <3>2. PICK h \in Holders : PlaceAt(h, t, q)
      BY PlacesAreHolders
    <3>3. t \in held[g] /\ t \in held[h]
      BY <3>1, <3>2, HolderHasPlace
    <3>4. g = h
      BY <3>3 DEF SchedInv, Ownership, Apart
    <3> QED BY <3>1, <3>2, <3>4, HolderHasPlace
  <2>2. CASE Places(t) = {}
    BY <2>2, FS_EmptySet
  <2>3. CASE Places(t) # {}
    <3>1. PICK p : p \in Places(t)
      BY <2>3
    <3>2. Places(t) = {p}
      BY <2>1, <3>1
    <3>3. Cardinality({p}) = 1
      BY FS_Singleton
    <3> QED BY <3>2, <3>3
  <2> QED BY <2>2, <2>3
<1> QED BY <1>1, SchedulerCorrect, PTL
-----------------------------------------------------------------------------
(* Refinement: scheduler and workers implement TaskLedger.                 *)

(* Someone still has the task, or a loop has lost it.                      *)
InHands(t) == (\E h \in Holders : t \in held[h]) \/ t \in dropped

(* A run that is at label l has the task.                                  *)
At(t, l) == \E r \in Runs : current[r] = t /\ wpc[r] = l

(* What Status is of an accepted task.                                     *)
AcceptedStatus(t) ==
    IF At(t, "execute") THEN "running"
    ELSE IF At(t, "report") \/ t \in unanswered THEN "ran"
    ELSE IF t \in started THEN "reported"
    ELSE IF InHands(t) THEN "accepted" ELSE "discarded"

(* Status, read off the holders.                                           *)
StatusByStage ==
    \A t \in Tasks :
       Status(t) = IF Stage(t) = "accepted" THEN AcceptedStatus(t) ELSE Stage(t)

(* A task that a run has is started, and not lost.                         *)
LEMMA TaskAt ==
    ASSUME SchedInv, NEW t \in Tasks, NEW l, At(t, l)
    PROVE  /\ l \in {"execute", "report"} /\ t \in started /\ t \notin unanswered
           /\ \A k : At(t, k) => k = l
<1>1. PICK r \in Runs : current[r] = t /\ wpc[r] = l
  BY DEF At
<1>2. t # None
  BY Names
<1>3. t \in held[Hand(r)] /\ t \in started /\ \A q \in Runs \ {r} : current[q] # t
  BY <1>1, <1>2, TaskOfRun
<1>4. l \in {"execute", "report"}
  BY <1>1, <1>2 DEF SchedInv, TypeInv, RunsTyped, RunTyped
<1>5. t \notin unanswered
  <2>1. Hand(r) \in Holders
    BY HoldersDiffer DEF HolderKinds
  <2> QED BY <1>3, <2>1 DEF SchedInv, Ownership, LostIsGone
<1>6. \A k : At(t, k) => k = l
  BY <1>1, <1>3 DEF At
<1> QED BY <1>3, <1>4, <1>5, <1>6

(* What Status says of a task, from who holds it.                          *)
LEMMA StatusIs == SchedInv => StatusByStage
<1> SUFFICES ASSUME SchedInv, NEW t \in Tasks
             PROVE  Status(t) = IF Stage(t) = "accepted" THEN AcceptedStatus(t)
                                                         ELSE Stage(t)
  BY DEF StatusByStage
<1> DEFINE doing == {wpc[r] : r \in {x \in Runs : current[x] = t}}
<1>1. CASE pc[t] # "accepted"
  BY <1>1 DEF Status, Stage
<1>2. ASSUME pc[t] = "accepted" PROVE Status(t) = AcceptedStatus(t)
  <2>1. Status(t) =
          CASE "execute" \in doing -> "running"
            [] "report" \in doing \/ t \in unanswered -> "ran"
            [] doing = {} /\ t \in started \ unanswered -> "reported"
            [] t \notin started /\ (Places(t) # {} \/ t \in dropped) -> "accepted"
            [] OTHER -> "discarded"
    BY <1>2 DEF Status
  <2>2. \A l : l \in doing <=> At(t, l)
    BY DEF At
  <2>3. Places(t) # {} \/ t \in dropped <=> InHands(t)
    <3>1. Places(t) # {} <=> \E p : \E h \in Holders : PlaceAt(h, t, p)
      BY PlacesAreHolders, Zenon
    <3>2. \A h \in Holders : t \in held[h] <=> \E p : PlaceAt(h, t, p)
      BY HolderHasPlace
    <3>3. Places(t) # {} <=> \E h \in Holders : t \in held[h]
      BY <3>1, <3>2, Zenon
    <3> QED BY <3>3 DEF InHands
  <2>4. \A l : At(t, l) => /\ l \in {"execute", "report"} /\ t \in started
                           /\ t \notin unanswered /\ \A k : At(t, k) => k = l
    BY TaskAt
  <2>5. t \in unanswered => t \in started
    BY DEF SchedInv, Ownership, LostIsGone
  <2> HIDE DEF doing
  <2>6. CASE At(t, "execute")
    <3>1. /\ "execute" \in doing /\ ~("report" \in doing) /\ doing # {}
          /\ t \in started /\ t \notin unanswered
      BY <2>2, <2>4, <2>6
    <3>2. AcceptedStatus(t) = "running"
      BY <2>6 DEF AcceptedStatus
    <3> QED BY <2>1, <3>1, <3>2
  <2>7. CASE ~At(t, "execute") /\ (At(t, "report") \/ t \in unanswered)
    <3>1. /\ ~("execute" \in doing) /\ ("report" \in doing \/ t \in unanswered)
          /\ ~(doing = {} /\ t \in started \ unanswered) /\ t \in started
      BY <2>2, <2>4, <2>5, <2>7
    <3>2. AcceptedStatus(t) = "ran"
      BY <2>7 DEF AcceptedStatus
    <3> QED BY <2>1, <3>1, <3>2
  <2>8. CASE ~At(t, "execute") /\ ~At(t, "report") /\ t \notin unanswered
    <3>1. doing = {} /\ ~("execute" \in doing) /\ ~("report" \in doing)
      BY <2>2, <2>4, <2>8
    <3>2. AcceptedStatus(t) = IF t \in started THEN "reported"
                              ELSE IF InHands(t) THEN "accepted" ELSE "discarded"
      BY <2>8 DEF AcceptedStatus
    <3>3. CASE t \in started
      BY <2>1, <2>8, <3>1, <3>2, <3>3
    <3>4. CASE t \notin started /\ InHands(t)
      BY <2>1, <2>3, <2>8, <3>1, <3>2, <3>4
    <3>5. CASE t \notin started /\ ~InHands(t)
      BY <2>1, <2>3, <2>8, <3>1, <3>2, <3>5
    <3> QED BY <3>3, <3>4, <3>5
  <2> QED BY <2>6, <2>7, <2>8
<1> QED BY <1>1, <1>2, StageIsAccepted

(* After a step the same holds of the new state.                           *)
LEMMA StatusIsNext == SchedInv' => StatusByStage'
BY StatusIs, PTL
-----------------------------------------------------------------------------
(* What the status of an accepted task depends on has not changed.         *)
Settled(t) ==
    /\ \A l \in {"execute", "report"} : At(t, l)' <=> At(t, l)
    /\ t \in unanswered' <=> t \in unanswered
    /\ t \in started' <=> t \in started
    /\ t \in started \/ (InHands(t)' <=> InHands(t))

LEMMA StatusKept ==
    ASSUME SchedInv, SchedInv', NEW t \in Tasks, Stage(t)' = Stage(t),
           Stage(t) # "accepted" \/ Settled(t)
    PROVE  Status(t)' = Status(t)
<1>1. /\ Status(t) = IF Stage(t) = "accepted" THEN AcceptedStatus(t) ELSE Stage(t)
      /\ Status(t)' = IF Stage(t)' = "accepted" THEN AcceptedStatus(t)' ELSE Stage(t)'
  BY StatusIs, StatusIsNext DEF StatusByStage
<1>2. Settled(t) => AcceptedStatus(t)' = AcceptedStatus(t)
  <2> HIDE DEF At, InHands
  <2> QED BY DEF AcceptedStatus, Settled
<1> HIDE DEF Stage, Status, AcceptedStatus, Settled
<1> QED BY <1>1, <1>2

(* Runs that are left alone leave every task's status alone, and so does   *)
(* what happens to another task.                                           *)
LEMMA RunsKeptAt ==
    ASSUME RunsKept, NEW t \in Tasks, NEW l
    PROVE  At(t, l)' <=> At(t, l)
<1>1. t # None
  BY Names
<1> QED BY <1>1 DEF RunsKept, At

LEMMA OthersInHands ==
    ASSUME NEW t, NEW b, NEW u, u # t, Still \/ Handed(t, b) \/ Freed(t),
           u \in dropped' <=> u \in dropped
    PROVE  InHands(u)' <=> InHands(u)
<1>1. \A h \in Holders : u \in held'[h] <=> u \in held[h]
  BY DEF Still, Handed, Freed
<1> QED BY <1>1 DEF InHands

LEMMA StillInHands ==
    ASSUME Still, UNCHANGED dropped, NEW u PROVE InHands(u)' <=> InHands(u)
BY DEF Still, InHands

LEMMA OthersKeepStatus ==
    ASSUME SchedInv, SchedInv', RunsKept, NEW t, NEW b, NEW u \in Tasks \ {t},
           Stage(u)' = Stage(u), Still \/ Handed(t, b) \/ Freed(t),
           u \in dropped' <=> u \in dropped
    PROVE  Status(u)' = Status(u)
<1>1. InHands(u)' <=> InHands(u)
  BY OthersInHands
<1>2. \A l : At(u, l)' <=> At(u, l)
  BY RunsKeptAt
<1>3. UNCHANGED <<unanswered, started>>
  BY DEF RunsKept
<1> HIDE DEF At, InHands, Stage, Status
<1>4. Settled(u)
  BY <1>1, <1>2, <1>3 DEF Settled
<1> QED BY <1>4, StatusKept

(* What the ledger sees of the runs and of the Futures.                    *)
LEMMA LedgerKeepsPool ==
    ASSUME Ending' <=> Ending
    PROVE  UNCHANGED (IF \E r \in Runs : wpc[r] \in {"drainLocal", "drainChan", "stopped"}
                      THEN "shutdown" ELSE "running")
BY DEF Ending

LEMMA LedgerKeepsFuture ==
    ASSUME UNCHANGED future, \A t \in Tasks : Stage(t) = "refused" <=> Stage(t)' = "refused"
    PROVE  UNCHANGED [t \in Tasks |-> IF pc[t] = "refused" THEN "refused" ELSE future[t]]
<1>1. \A t \in Tasks : pc[t] = "refused" <=> pc'[t] = "refused"
  BY DEF Stage
<1> QED BY <1>1

LEMMA LedgerStutters ==
    ASSUME Ending' <=> Ending, StagesKept, UNCHANGED future,
           \A t \in Tasks : Status(t)' = Status(t)
    PROVE  UNCHANGED Ledger!ledgerVars
<1>1. \A t \in Tasks : Stage(t) = "refused" <=> Stage(t)' = "refused"
  BY DEF StagesKept
<1> HIDE DEF Status
<1> QED BY <1>1, LedgerKeepsPool, LedgerKeepsFuture DEF Ledger!ledgerVars

(* A step that changes the status of one task.                             *)
LEMMA LedgerMoves ==
    ASSUME NEW t \in Tasks, NEW a, NEW b, Status(t) = a, Status(t)' = b,
           \A u \in Tasks \ {t} : Status(u)' = Status(u)
    PROVE  Ledger!Becomes(t, a, b)
<1> HIDE DEF Status
<1> QED BY DEF Ledger!Becomes

(* A step that sets the Future of a task that was accepted.                *)
LEMMA LedgerSettles ==
    ASSUME ResultsTyped, NEW t \in Tasks, NEW o, StagesKept, Stage(t) = "accepted",
           SetResult(t, o)
    PROVE  Ledger!Settle(t, o)
<1> DEFINE Shown(u) == IF pc[u] = "refused" THEN "refused" ELSE future[u]
           shown == [u \in Tasks |-> Shown(u)]
<1>1. pc[t] # "refused" /\ pc'[t] # "refused"
      /\ \A u \in Tasks : pc[u] = "refused" <=> pc'[u] = "refused"
  BY DEF Stage, StagesKept
<1>2. Shown(t) = future[t]
  BY <1>1
<1>3. CASE future[t] = "pending"
  <2>1. future'[t] = o /\ \A u \in Tasks \ {t} : future'[u] = future[u]
    BY <1>3 DEF SetResult, ResultsTyped
  <2>2. Shown(t)' = o /\ \A u \in Tasks \ {t} : Shown(u)' = Shown(u)
    BY <1>1, <2>1
  <2> HIDE DEF Shown
  <2>3. shown' = [shown EXCEPT ![t] = o] /\ shown[t] = "pending"
    BY <1>2, <1>3, <2>2
  <2> QED BY <2>3 DEF Ledger!Settle, Shown
<1>4. CASE future[t] # "pending"
  <2>1. \A u \in Tasks : Shown(u)' = Shown(u)
    BY <1>1, <1>4 DEF SetResult
  <2> HIDE DEF Shown
  <2>2. shown' = shown /\ shown[t] # "pending"
    BY <1>2, <1>4, <2>1
  <2> QED BY <2>2 DEF Ledger!Settle, Shown
<1> QED BY <1>3, <1>4
-----------------------------------------------------------------------------
(* The effects of callers and loops are the ledger's steps.                *)

LEMMA IdleRefines ==
    ASSUME SchedInv, SchedInv', Idle
    PROVE  [Ledger!Next]_Ledger!ledgerVars
<1>1. /\ RunsKept /\ StagesKept /\ Still /\ UNCHANGED dropped /\ UNCHANGED future
      /\ Ending => Ending'
  BY DEF Idle, RunsKept
<1>2. ASSUME NEW u \in Tasks PROVE Status(u)' = Status(u)
  <2>1. InHands(u)' <=> InHands(u)
    BY <1>1, StillInHands
  <2>2. \A l : At(u, l)' <=> At(u, l)
    BY <1>1, RunsKeptAt
  <2>3. UNCHANGED <<unanswered, started>> /\ Stage(u)' = Stage(u)
    BY <1>1 DEF RunsKept, StagesKept
  <2> HIDE DEF At, InHands, Stage, Status
  <2>4. Settled(u)
    BY <2>1, <2>2, <2>3 DEF Settled
  <2> QED BY <2>3, <2>4, StatusKept
<1>3. CASE Ending' <=> Ending
  BY <1>1, <1>2, <1>3, LedgerStutters
<1>4. CASE ~Ending /\ Ending'
  <2>1. \A t \in Tasks : Stage(t) = "refused" <=> Stage(t)' = "refused"
    BY <1>1 DEF StagesKept
  <2>2. UNCHANGED [t \in Tasks |-> IF pc[t] = "refused" THEN "refused" ELSE future[t]]
    BY <1>1, <2>1, LedgerKeepsFuture
  <2>3. UNCHANGED [t \in Tasks |-> Status(t)]
    <3> HIDE DEF Status
    <3> QED BY <1>2
  <2> HIDE DEF Status
  <2>4. Ledger!Shutdown
    BY <1>4, <2>2, <2>3 DEF Ledger!Shutdown, Ending
  <2> QED BY <2>4 DEF Ledger!Next
<1> QED BY <1>1, <1>3, <1>4

LEMMA SendingRefines ==
    ASSUME SchedInv, SchedInv', NEW t \in Tasks,
           \/ Offered(t) \/ Refused(t)
           \/ \E b \in Queues : Accepted(t, b)
    PROVE  Ledger!Next
<1>1. /\ RunsKept /\ (Ending' <=> Ending) /\ UNCHANGED dropped /\ UNCHANGED future
      /\ \A u \in Tasks \ {t} : Stage(u)' = Stage(u)
      /\ Still \/ \E b \in Holders : Handed(t, b)
  <2>1. Queues \subseteq Holders /\ Caller \in Holders
    BY HoldersDiffer DEF HolderKinds
  <2> QED BY <2>1 DEF Offered, Refused, Accepted, Quiet, RunsKept, StageGoes
<1>2. \A u \in Tasks \ {t} : Status(u)' = Status(u)
  BY <1>1, OthersKeepStatus
<1>3. /\ Status(t) = IF Stage(t) = "accepted" THEN AcceptedStatus(t) ELSE Stage(t)
      /\ Status(t)' = IF Stage(t)' = "accepted" THEN AcceptedStatus(t)' ELSE Stage(t)'
  BY StatusIs, StatusIsNext DEF StatusByStage
<1> HIDE DEF Status, AcceptedStatus, Stage
<1>4. CASE Offered(t)
  <2>1. Stage(t) = "new" /\ Stage(t)' = "offered"
    BY <1>4 DEF Offered, StageGoes
  <2>2. Ledger!Becomes(t, "new", "offered")
    BY <1>2, <1>3, <2>1, LedgerMoves
  <2>3. \A u \in Tasks : Stage(u) = "refused" <=> Stage(u)' = "refused"
    BY <1>1, <2>1
  <2>4. Ledger!Offer(t)
    BY <1>1, <2>2, <2>3, LedgerKeepsPool, LedgerKeepsFuture DEF Ledger!Offer
  <2> QED BY <2>4 DEF Ledger!Next
<1>5. CASE Refused(t)
  <2>1. Stage(t) = "offered" /\ Stage(t)' = "refused"
    BY <1>5 DEF Refused, StageGoes
  <2>2. Ledger!Becomes(t, "offered", "refused")
    BY <1>2, <1>3, <2>1, LedgerMoves
  <2>3. /\ pc[t] # "refused" /\ pc'[t] = "refused" /\ future[t] = "pending"
        /\ \A u \in Tasks \ {t} : pc[u] = "refused" <=> pc'[u] = "refused"
    <3>1. \A u \in Tasks \ {t} : pc[u] = "refused" <=> pc'[u] = "refused"
      BY <1>1 DEF Stage
    <3>2. pc[t] # "refused" /\ pc[t] # "accepted" /\ pc'[t] = "refused"
      BY <2>1 DEF Stage
    <3> QED BY <3>1, <3>2 DEF SchedInv, Ownership, CallerOwns
  <2>4. Ledger!Settle(t, "refused")
    BY <1>1, <2>3 DEF Ledger!Settle
  <2>5. Ledger!Refuse(t)
    BY <1>1, <2>2, <2>4, LedgerKeepsPool DEF Ledger!Refuse
  <2> QED BY <2>5 DEF Ledger!Next
<1>6. ASSUME NEW b \in Queues, Accepted(t, b) PROVE Ledger!Next
  <2>1. Stage(t) = "offered" /\ Stage(t)' = "accepted" /\ Handed(t, b)
    BY <1>6 DEF Accepted, StageGoes
  <2>2. InHands(t)'
    <3>1. b \in Holders
      BY HoldersDiffer DEF HolderKinds
    <3>2. t \in held'[b]
      BY <2>1, <3>1 DEF Handed
    <3> QED BY <3>1, <3>2 DEF InHands
  <2>3. t \notin started \cup dropped \cup unanswered
    BY <2>1, MovableIsFresh
  <2>4. UNCHANGED <<started, unanswered>>
    BY <1>1 DEF RunsKept
  <2>5. ~At(t, "execute")' /\ ~At(t, "report")'
    BY <1>1, <2>3, RunsKeptAt, TaskAt
  <2>6. Status(t)' = "accepted"
    <3> HIDE DEF At, InHands
    <3>1. AcceptedStatus(t)' = "accepted"
      BY <2>2, <2>3, <2>4, <2>5 DEF AcceptedStatus
    <3> QED BY <1>3, <2>1, <3>1
  <2>7. Ledger!Becomes(t, "offered", "accepted")
    BY <1>2, <1>3, <2>1, <2>6, LedgerMoves
  <2>8. \A u \in Tasks : Stage(u) = "refused" <=> Stage(u)' = "refused"
    BY <1>1, <2>1
  <2>9. Ledger!Accept(t)
    BY <1>1, <2>7, <2>8, LedgerKeepsPool, LedgerKeepsFuture DEF Ledger!Accept
  <2> QED BY <2>9 DEF Ledger!Next
<1> QED BY <1>4, <1>5, <1>6

LEMMA MovingRefines ==
    ASSUME SchedInv, SchedInv', NEW t \in Tasks,
           \/ GivenUp(t) \/ Lost(t)
           \/ \E b \in Queues \cup Movers : Moved(t, b)
    PROVE  UNCHANGED Ledger!ledgerVars
<1>1. /\ RunsKept /\ (Ending' <=> Ending) /\ StagesKept /\ UNCHANGED future
      /\ Freed(t) \/ \E b \in Holders : Handed(t, b)
      /\ \A u \in Tasks \ {t} : u \in dropped' <=> u \in dropped
  <2>1. Queues \subseteq Holders /\ Movers \subseteq Holders
    BY HoldersDiffer DEF HolderKinds, Movers
  <2> QED BY <2>1 DEF GivenUp, Lost, Moved, Quiet, RunsKept
<1>2. \A u \in Tasks \ {t} : Status(u)' = Status(u)
  BY <1>1, OthersKeepStatus DEF StagesKept
<1>3. Stage(t) = "offered" \/ (InHands(t) /\ InHands(t)')
  <2>1. CASE GivenUp(t)
    BY <2>1 DEF GivenUp
  <2>2. Queues \subseteq Holders /\ Movers \subseteq Holders
    BY HoldersDiffer DEF HolderKinds, Movers
  <2>3. CASE Lost(t)
    BY <2>2, <2>3 DEF Lost, InHands
  <2>4. ASSUME NEW b \in Queues \cup Movers, Moved(t, b)
        PROVE  InHands(t) /\ InHands(t)'
    <3>1. t \in held'[b] /\ b \in Holders
      BY <2>2, <2>4 DEF Moved, Handed
    <3>2. \E a \in Holders : t \in held[a]
      BY <2>2, <2>4 DEF Moved
    <3> QED BY <3>1, <3>2 DEF InHands
  <2> QED BY <2>1, <2>3, <2>4
<1>4. \A l : At(t, l)' <=> At(t, l)
  BY <1>1, RunsKeptAt
<1>5. UNCHANGED <<unanswered, started>> /\ Stage(t)' = Stage(t)
  BY <1>1 DEF RunsKept, StagesKept
<1>6. Status(t)' = Status(t)
  <2> HIDE DEF At, InHands, Stage, Status
  <2>1. Stage(t) # "accepted" \/ Settled(t)
    BY <1>3, <1>4, <1>5 DEF Settled
  <2> QED BY <1>5, <2>1, StatusKept
<1> QED BY <1>1, <1>2, <1>6, LedgerStutters
-----------------------------------------------------------------------------
(* The effects of runs are the ledger's steps.                             *)

LEMMA OtherRunsAt ==
    ASSUME NEW r \in Runs, OnlyRun(r), NEW u, u # current[r], u # current'[r], NEW l
    PROVE  At(u, l)' <=> At(u, l)
BY DEF OnlyRun, At

(* What a run does with its task leaves the status of the others alone.    *)
LEMMA RunKeepsStatus ==
    ASSUME SchedInv, SchedInv', NEW r \in Runs, OnlyRun(r), NEW t \in Tasks, NEW b,
           {current[r], current'[r]} \subseteq {t, None},
           Still \/ Handed(t, b) \/ Freed(t),
           NEW u \in Tasks \ {t},
           u \in started' <=> u \in started, u \in unanswered' <=> u \in unanswered
    PROVE  Status(u)' = Status(u)
<1>1. u # None
  BY Names
<1>2. \A l : At(u, l)' <=> At(u, l)
  BY <1>1, OtherRunsAt
<1>3. UNCHANGED dropped /\ Stage(u)' = Stage(u)
  BY DEF OnlyRun, StagesKept
<1>4. InHands(u)' <=> InHands(u)
  BY <1>3, OthersInHands
<1> HIDE DEF At, InHands, Stage, Status
<1>5. Settled(u)
  BY <1>2, <1>4 DEF Settled
<1> QED BY <1>3, <1>5, StatusKept

LEMMA BegunRefines ==
    ASSUME SchedInv, SchedInv', NEW t \in Tasks, NEW r \in Runs, Begun(t, r)
    PROVE  Ledger!Next
<1>1. /\ OnlyRun(r) /\ Handed(t, Hand(r)) /\ current[r] = None /\ current'[r] = t
      /\ wpc'[r] = "execute" /\ started' = started \cup {t}
      /\ UNCHANGED <<unanswered, future>> /\ (Ending' <=> Ending) /\ StagesKept
  BY DEF Begun, OnlyRun
<1>2. PICK a \in Queues : t \in held[a]
  BY DEF Begun
<1>3. a \in Holders \ {Caller}
  BY HoldersDiffer DEF HolderKinds
<1>4. Stage(t) = "accepted" /\ Stage(t)' = "accepted"
  BY <1>1, <1>2, <1>3, HeldIsAccepted DEF StagesKept
<1>5. t \notin started \cup unanswered
  BY <1>2, MovableIsFresh
<1>6. InHands(t) /\ ~At(t, "execute") /\ ~At(t, "report")
  BY <1>2, <1>3, <1>5, TaskAt DEF InHands
<1>7. At(t, "execute")'
  BY <1>1 DEF At
<1>8. \A u \in Tasks \ {t} : Status(u)' = Status(u)
  BY <1>1, RunKeepsStatus
<1>9. Status(t) = "accepted" /\ Status(t)' = "running"
  <2>1. /\ Status(t) = IF Stage(t) = "accepted" THEN AcceptedStatus(t) ELSE Stage(t)
        /\ Status(t)' = IF Stage(t)' = "accepted" THEN AcceptedStatus(t)' ELSE Stage(t)'
    BY StatusIs, StatusIsNext DEF StatusByStage
  <2> HIDE DEF Status, Stage, At, InHands
  <2>2. AcceptedStatus(t) = "accepted" /\ AcceptedStatus(t)' = "running"
    BY <1>5, <1>6, <1>7 DEF AcceptedStatus
  <2> QED BY <1>4, <2>1, <2>2
<1>10. \A u \in Tasks : Stage(u) = "refused" <=> Stage(u)' = "refused"
  BY <1>1 DEF StagesKept
<1>11. Ledger!Becomes(t, "accepted", "running")
  BY <1>8, <1>9, LedgerMoves
<1>12. Ledger!Start(t)
  BY <1>1, <1>10, <1>11, LedgerKeepsPool, LedgerKeepsFuture DEF Ledger!Start
<1> QED BY <1>12 DEF Ledger!Next

(* The task of a run that executes or reports it.                          *)
LEMMA WorkedOn ==
    ASSUME SchedInv, NEW r \in Runs, wpc[r] \in {"execute", "report"}
    PROVE  /\ current[r] \in Tasks /\ Stage(current[r]) = "accepted"
           /\ current[r] \in started /\ current[r] \notin unanswered
           /\ Status(current[r]) = IF wpc[r] = "execute" THEN "running" ELSE "ran"
           /\ \A q \in Runs \ {r} : current[q] # current[r]
<1>1. current[r] # None
  BY DEF SchedInv, TypeInv, RunsTyped, RunTyped
<1>2. PICK t \in Tasks : t = current[r]
  BY <1>1, TaskOfRun
<1>3. /\ Stage(t) = "accepted" /\ t \in started
      /\ \A q \in Runs \ {r} : current[q] # t
  BY <1>1, <1>2, TaskOfRun
<1>4. At(t, wpc[r])
  BY <1>2 DEF At
<1>5. t \notin unanswered /\ \A k : At(t, k) => k = wpc[r]
  BY <1>4, TaskAt
<1>6. Status(t) = IF wpc[r] = "execute" THEN "running" ELSE "ran"
  <2>1. Status(t) = IF Stage(t) = "accepted" THEN AcceptedStatus(t) ELSE Stage(t)
    BY StatusIs DEF StatusByStage
  <2> HIDE DEF Status, Stage, At
  <2>2. AcceptedStatus(t) = IF wpc[r] = "execute" THEN "running" ELSE "ran"
    BY <1>4, <1>5 DEF AcceptedStatus
  <2> QED BY <1>3, <2>1, <2>2
<1> QED BY <1>2, <1>3, <1>5, <1>6

LEMMA ReturnedRefines ==
    ASSUME SchedInv, SchedInv', NEW r \in Runs, Returned(r)
    PROVE  Ledger!Next
<1>1. /\ OnlyRun(r) /\ Still /\ wpc[r] = "execute" /\ wpc'[r] = "report"
      /\ UNCHANGED <<current, started, unanswered, future>>
      /\ (Ending' <=> Ending) /\ StagesKept
  BY DEF Returned, OnlyRun
<1>2. PICK t \in Tasks : t = current[r]
  BY <1>1, WorkedOn
<1>3. Status(t) = "running"
  BY <1>1, <1>2, WorkedOn
<1>4. Status(t)' = "ran"
  <2>1. At(t, "report")' /\ ~At(t, "execute")'
    BY <1>1, <1>2, WorkedOn DEF At
  <2>2. Stage(t)' = "accepted"
    BY <1>1, <1>2, WorkedOn DEF StagesKept
  <2>3. Status(t)' = IF Stage(t)' = "accepted" THEN AcceptedStatus(t)' ELSE Stage(t)'
    BY StatusIsNext DEF StatusByStage
  <2> HIDE DEF Status, Stage, At
  <2>4. AcceptedStatus(t)' = "ran"
    BY <2>1 DEF AcceptedStatus
  <2> QED BY <2>2, <2>3, <2>4
<1>5. \A u \in Tasks \ {t} : Status(u)' = Status(u)
  BY <1>1, <1>2, RunKeepsStatus
<1>6. \A u \in Tasks : Stage(u) = "refused" <=> Stage(u)' = "refused"
  BY <1>1 DEF StagesKept
<1>7. Ledger!Becomes(t, "running", "ran")
  BY <1>3, <1>4, <1>5, LedgerMoves
<1>8. Ledger!Finish(t)
  BY <1>1, <1>6, <1>7, LedgerKeepsPool, LedgerKeepsFuture DEF Ledger!Finish
<1> QED BY <1>8 DEF Ledger!Next

(* A run that let go of its task leaves it with no run.                    *)
LEMMA LeftByRun ==
    ASSUME SchedInv, NEW r \in Runs, OnlyRun(r), NEW t \in Tasks, t = current[r],
           wpc[r] \in {"execute", "report"}, current'[r] = None
    PROVE  ~At(t, "execute")' /\ ~At(t, "report")'
<1>1. t # None /\ \A q \in Runs \ {r} : current[q] # t
  BY Names, WorkedOn
<1> QED BY <1>1 DEF At, OnlyRun

LEMMA ReportedRefines ==
    ASSUME SchedInv, SchedInv', NEW r \in Runs, Reported(r)
    PROVE  Ledger!Next
<1>1. /\ OnlyRun(r) /\ Freed(current[r]) /\ wpc[r] = "report" /\ current'[r] = None
      /\ SetResult(current[r], "result") /\ UNCHANGED <<started, unanswered>>
      /\ (Ending' <=> Ending) /\ StagesKept /\ ResultsTyped
  BY DEF Reported, OnlyRun, SchedInv, TypeInv
<1>2. PICK t \in Tasks : t = current[r]
  BY <1>1, WorkedOn
<1>3. /\ Status(t) = "ran" /\ Stage(t) = "accepted" /\ t \in started
      /\ t \notin unanswered
  BY <1>1, <1>2, WorkedOn
<1>4. Status(t)' = "reported"
  <2>1. ~At(t, "report")' /\ ~At(t, "execute")'
    BY <1>1, <1>2, LeftByRun
  <2>2. Stage(t)' = "accepted"
    BY <1>1, <1>3 DEF StagesKept
  <2>3. Status(t)' = IF Stage(t)' = "accepted" THEN AcceptedStatus(t)' ELSE Stage(t)'
    BY StatusIsNext DEF StatusByStage
  <2> HIDE DEF Status, Stage, At
  <2>4. AcceptedStatus(t)' = "reported"
    BY <1>1, <1>3, <2>1 DEF AcceptedStatus
  <2> QED BY <2>2, <2>3, <2>4
<1>5. \A u \in Tasks \ {t} : Status(u)' = Status(u)
  <2>1. Freed(t) /\ {current[r], current'[r]} \subseteq {t, None}
    BY <1>1, <1>2
  <2> QED BY <1>1, <2>1, RunKeepsStatus
<1>6. Ledger!Becomes(t, "ran", "reported")
  BY <1>3, <1>4, <1>5, LedgerMoves
<1>7. Ledger!Settle(t, "result")
  BY <1>1, <1>2, <1>3, LedgerSettles
<1>8. Ledger!Report(t)
  BY <1>1, <1>6, <1>7, LedgerKeepsPool DEF Ledger!Report
<1> QED BY <1>8 DEF Ledger!Next

(* A panic ends the execution, or the report that was to follow it.        *)
LEMMA CutShortRefines ==
    ASSUME SchedInv, SchedInv', NEW r \in Runs, CutShort(r)
    PROVE  [Ledger!Next]_Ledger!ledgerVars
<1>1. /\ OnlyRun(r) /\ Freed(current[r]) /\ wpc[r] \in {"execute", "report"}
      /\ current'[r] = None /\ unanswered' = unanswered \cup {current[r]}
      /\ UNCHANGED <<started, future>>
      /\ (Ending' <=> Ending) /\ StagesKept
  BY DEF CutShort, OnlyRun
<1>2. PICK t \in Tasks : t = current[r]
  BY <1>1, WorkedOn
<1>3. /\ Status(t) = IF wpc[r] = "execute" THEN "running" ELSE "ran"
      /\ Stage(t) = "accepted"
  BY <1>1, <1>2, WorkedOn
<1>4. Status(t)' = "ran"
  <2>1. ~At(t, "report")' /\ ~At(t, "execute")'
    BY <1>1, <1>2, LeftByRun
  <2>2. Stage(t)' = "accepted"
    BY <1>1, <1>3 DEF StagesKept
  <2>3. Status(t)' = IF Stage(t)' = "accepted" THEN AcceptedStatus(t)' ELSE Stage(t)'
    BY StatusIsNext DEF StatusByStage
  <2> HIDE DEF Status, Stage, At
  <2>4. AcceptedStatus(t)' = "ran"
    BY <1>1, <1>2, <2>1 DEF AcceptedStatus
  <2> QED BY <2>2, <2>3, <2>4
<1>5. \A u \in Tasks \ {t} : Status(u)' = Status(u)
  <2>1. Freed(t) /\ {current[r], current'[r]} \subseteq {t, None}
    BY <1>1, <1>2
  <2>2. \A u \in Tasks \ {t} : u \in unanswered' <=> u \in unanswered
    BY <1>1, <1>2
  <2> QED BY <1>1, <2>1, <2>2, RunKeepsStatus
<1>6. \A u \in Tasks : Stage(u) = "refused" <=> Stage(u)' = "refused"
  BY <1>1 DEF StagesKept
<1> HIDE DEF Status
<1>7. CASE wpc[r] = "execute"
  <2>1. Ledger!Becomes(t, "running", "ran")
    BY <1>3, <1>4, <1>5, <1>7, LedgerMoves
  <2>2. Ledger!Finish(t)
    BY <1>1, <1>6, <2>1, LedgerKeepsPool, LedgerKeepsFuture DEF Ledger!Finish
  <2> QED BY <2>2 DEF Ledger!Next
<1>8. CASE wpc[r] = "report"
  <2>1. Status(t)' = Status(t)
    BY <1>3, <1>4, <1>8
  <2>2. \A u \in Tasks : Status(u)' = Status(u)
    BY <1>5, <2>1
  <2> QED BY <1>1, <2>2, LedgerStutters
<1> QED BY <1>1, <1>7, <1>8

(* A worker that ends throws a task away.                                  *)
LEMMA DiscardedRefines ==
    ASSUME SchedInv, SchedInv', NEW t \in Tasks, Discarded(t)
    PROVE  Ledger!Next
<1>1. /\ Ending /\ UNCHANGED <<wpc, current, started, unanswered, dropped>> /\ StagesKept
      /\ Freed(t) /\ SetResult(t, "closed") /\ ResultsTyped
  BY DEF Discarded, SchedInv, TypeInv
<1>2. PICK a \in Queues : t \in held[a]
  BY DEF Discarded
<1>3. a \in Holders \ {Caller}
  BY HoldersDiffer DEF HolderKinds
<1>4. Stage(t) = "accepted" /\ Stage(t)' = "accepted"
  BY <1>1, <1>2, <1>3, HeldIsAccepted DEF StagesKept
<1>5. t \notin started \cup unanswered \cup dropped
  BY <1>2, MovableIsFresh
<1>6. InHands(t) /\ ~InHands(t)'
  BY <1>1, <1>2, <1>3, <1>5 DEF InHands, Freed
<1>7. \A u, l : At(u, l)' <=> At(u, l)
  BY <1>1 DEF At
<1>8. ~At(t, "execute") /\ ~At(t, "report")
  BY <1>5, TaskAt
<1>9. Status(t) = "accepted" /\ Status(t)' = "discarded"
  <2>1. /\ Status(t) = IF Stage(t) = "accepted" THEN AcceptedStatus(t) ELSE Stage(t)
        /\ Status(t)' = IF Stage(t)' = "accepted" THEN AcceptedStatus(t)' ELSE Stage(t)'
    BY StatusIs, StatusIsNext DEF StatusByStage
  <2> HIDE DEF Status, Stage, At, InHands
  <2>2. AcceptedStatus(t) = "accepted" /\ AcceptedStatus(t)' = "discarded"
    BY <1>1, <1>5, <1>6, <1>7, <1>8 DEF AcceptedStatus
  <2> QED BY <1>4, <2>1, <2>2
<1>10. ASSUME NEW u \in Tasks \ {t} PROVE Status(u)' = Status(u)
  <2>1. (InHands(u)' <=> InHands(u)) /\ Stage(u)' = Stage(u)
    BY <1>1, OthersInHands DEF StagesKept
  <2> HIDE DEF Status, Stage, At, InHands
  <2>2. Settled(u)
    BY <1>1, <1>7, <2>1 DEF Settled
  <2> QED BY <2>1, <2>2, StatusKept
<1>11. Ledger!Becomes(t, "accepted", "discarded")
  BY <1>9, <1>10, LedgerMoves
<1>12. Ledger!Settle(t, "closed")
  BY <1>1, <1>4, LedgerSettles
<1>13. Ending' <=> Ending
  BY <1>1 DEF Ending
<1>14. Ledger!Discard(t)
  BY <1>1, <1>11, <1>12, <1>13, LedgerKeepsPool DEF Ledger!Discard, Ending
<1> QED BY <1>14 DEF Ledger!Next

(* Scheduler and workers implement TaskLedger, for every number of tasks   *)
(* and workers, every limit of the queues, every scenario and every        *)
(* interleaving: stolen, put back or handled by a restarted worker, a task *)
(* is executed at most once or thrown away by a worker that ends, and its  *)
(* Future is set once (scheduler.go:129-374, worker.go:235-545).           *)
THEOREM SchedulerKeepsTheLedger == Spec => KeepsTheLedger
<1>1. SchedInv /\ SchedInv' /\ [Next]_vars => [Ledger!Next]_Ledger!ledgerVars
  <2> SUFFICES ASSUME SchedInv, SchedInv', [Next]_vars
               PROVE  [Ledger!Next]_Ledger!ledgerVars
    OBVIOUS
  <2>1. Effects
    BY StepEffects
  <2>2. CASE Idle
    BY <2>2, IdleRefines
  <2>3. ASSUME NEW t \in Tasks,
               \/ Offered(t) \/ Refused(t) \/ \E b \in Queues : Accepted(t, b)
        PROVE  Ledger!Next
    BY <2>3, SendingRefines
  <2>4. ASSUME NEW t \in Tasks,
               \/ GivenUp(t) \/ Lost(t) \/ \E b \in Queues \cup Movers : Moved(t, b)
        PROVE  UNCHANGED Ledger!ledgerVars
    BY <2>4, MovingRefines
  <2>5. ASSUME NEW t \in Tasks, Discarded(t) \/ \E r \in Runs : Begun(t, r)
        PROVE  Ledger!Next
    BY <2>5, DiscardedRefines, BegunRefines
  <2>6. ASSUME NEW r \in Runs, Returned(r) \/ Reported(r) \/ CutShort(r)
        PROVE  [Ledger!Next]_Ledger!ledgerVars
    BY <2>6, ReturnedRefines, ReportedRefines, CutShortRefines
  <2> QED BY <2>1, <2>2, <2>3, <2>4, <2>5, <2>6 DEF Effects
<1> QED BY <1>1, SchedulerCorrect, PTL DEF Spec, KeepsTheLedger
=============================================================================
