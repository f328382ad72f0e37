------------------------ MODULE LockFreeQueueProofs ------------------------
(***************************************************************************)
(* Proofs about LockFreeQueue for every number of producers, every set of  *)
(* items and every capacity: its type invariant, and, with one consumer,   *)
(* that Dequeue delivers the accepted items in order, that nothing is      *)
(* overwritten or erased, and that the ring implements BoundedFIFO.        *)
(***************************************************************************)
EXTENDS LockFreeQueue, TLAPS
-----------------------------------------------------------------------------
(* Arithmetic of the ring.                                                 *)

LEMMA Division ==
    ASSUME NEW a \in Nat, NEW n \in Nat \ {0}
    PROVE  /\ a = n * (a \div n) + (a % n)
           /\ a % n \in 0 .. n - 1
           /\ a \div n \in Int
  OBVIOUS

LEMMA RemainderUnique ==
    ASSUME NEW n \in Nat \ {0}, NEW q \in Int, NEW t \in Int,
           NEW r \in 0 .. n - 1, NEW s \in 0 .. n - 1,
           n * q + r = n * t + s
    PROVE  r = s
<1>1. n * (q - t) = s - r
  OBVIOUS
<1>2. CASE q - t >= 1
  BY <1>1, <1>2
<1>3. CASE q - t <= -1
  BY <1>1, <1>3
<1>4. CASE q = t
  BY <1>4
<1> QED BY <1>2, <1>3, <1>4

LEMMA RemainderLap ==
    ASSUME NEW i \in Nat, NEW n \in Nat \ {0}
    PROVE  (i + n) % n = i % n
<1>1. i + n \in Nat
  OBVIOUS
<1>2. PICK q \in Int : i = n * q + (i % n) /\ i % n \in 0 .. n - 1
  BY Division
<1>3. PICK t \in Int :
        i + n = n * t + ((i + n) % n) /\ (i + n) % n \in 0 .. n - 1
  BY <1>1, Division
<1>4. n * (q + 1) + (i % n) = n * t + ((i + n) % n)
  <2>1. n * (q + 1) = n * q + n
    OBVIOUS
  <2> QED BY <1>2, <1>3, <2>1
<1>5. /\ q + 1 \in Int
      /\ i % n \in 0 .. n - 1
      /\ (i + n) % n \in 0 .. n - 1
  BY <1>2, <1>3
<1> QED BY <1>4, <1>5, RemainderUnique

LEMMA RemainderDistinct ==
    ASSUME NEW i \in Nat, NEW j \in Nat, NEW n \in Nat \ {0},
           i < j, j < i + n
    PROVE  i % n # j % n
<1> SUFFICES ASSUME i % n = j % n PROVE FALSE
  OBVIOUS
<1>1. PICK q \in Int : i = n * q + (i % n) /\ i % n \in 0 .. n - 1
  BY Division
<1>2. PICK t \in Int : j = n * t + (j % n) /\ j % n \in 0 .. n - 1
  BY Division
<1>3. j - i = n * (t - q)
  BY <1>1, <1>2
<1>4. CASE t - q >= 1
  BY <1>3, <1>4
<1>5. CASE t - q <= 0
  BY <1>3, <1>5
<1> QED BY <1>4, <1>5

(* An index is inside the buffer.                                          *)
LEMMA CellInBuffer ==
    ASSUME NEW i \in Nat
    PROVE  Cell(i) \in 0 .. Capacity - 1
BY QueueAssumption, Division DEF Cell

(* A lap later the same cell is used again.                                *)
LEMMA CellLap ==
    ASSUME NEW i \in Nat
    PROVE  Cell(i + Capacity) = Cell(i)
BY QueueAssumption, RemainderLap DEF Cell

(* Positions less than a lap apart use different cells.                    *)
LEMMA CellDistinct ==
    ASSUME NEW i \in Nat, NEW j \in Nat, i < j, j < i + Capacity
    PROVE  Cell(i) # Cell(j)
BY QueueAssumption, RemainderDistinct DEF Cell
-----------------------------------------------------------------------------
(* The variables of LockFreeQueue keep their types.                        *)
THEOREM TypeCorrect == Spec => []TypeOK
<1> USE QueueAssumption DEF Procs, EnqueueLabels, DequeueLabels
<1>1. Init => TypeOK
  BY DEF Init, TypeOK
<1>2. TypeOK /\ [Next]_vars => TypeOK'
  <2> SUFFICES ASSUME TypeOK, [Next]_vars PROVE TypeOK'
    OBVIOUS
  <2> USE DEF TypeOK, Goto, shared, history
  <2>1. ASSUME NEW p \in Producers, NEW x \in Items, CallEnqueue(p, x)
        PROVE  TypeOK'
    BY <2>1 DEF CallEnqueue
  <2>2. ASSUME NEW p \in Producers, LoadTail(p) PROVE TypeOK'
    BY <2>2 DEF LoadTail
  <2>3. ASSUME NEW p \in Producers, LoadHead(p) PROVE TypeOK'
    BY <2>3 DEF LoadHead
  <2>4. ASSUME NEW p \in Producers, CasTail(p) PROVE TypeOK'
    <3>1. CASE seen[p] = tail
      <4>1. enqueued' \in Seq(Items)
        <5>1. hand[p] \in Items
          BY <2>4 DEF CasTail
        <5>2. enqueued' = Append(enqueued, hand[p]) /\ enqueued \in Seq(Items)
          BY <2>4, <3>1 DEF CasTail
        <5> HIDE DEF TypeOK
        <5> QED BY <5>1, <5>2
      <4>2. sawFull' \subseteq Producers /\ overtaken' \subseteq Producers
        BY <2>4, <3>1 DEF CasTail, Open
      <4>3. /\ tail' = tail + 1
            /\ pc' = [pc EXCEPT ![p] = "store"]
            /\ UNCHANGED <<buffer, head, seen, hand, outside, dequeued>>
        BY <2>4, <3>1 DEF CasTail
      <4>4. pc[p] = "casTail"
        BY <2>4 DEF CasTail
      <4> QED BY <4>1, <4>2, <4>3, <4>4
    <3>2. CASE seen[p] # tail
      <4>1. /\ pc' = [pc EXCEPT ![p] = "loadTail"]
            /\ UNCHANGED <<buffer, head, tail, seen, hand, outside,
                           enqueued, dequeued, sawFull, overtaken>>
        BY <2>4, <3>2 DEF CasTail
      <4>2. pc[p] = "casTail"
        BY <2>4 DEF CasTail
      <4> QED BY <4>1, <4>2
    <3> QED BY <3>1, <3>2
  <2>5. ASSUME NEW p \in Producers, Store(p) PROVE TypeOK'
    <3>1. buffer' \in [0 .. Capacity - 1 -> Items \cup {NoItem}]
      BY <2>5, CellInBuffer DEF Store
    <3> QED BY <2>5, <3>1 DEF Store, LeaveEnqueue
  <2>6. ASSUME NEW p \in Producers, ReturnFalse(p) PROVE TypeOK'
    BY <2>6 DEF ReturnFalse, LeaveEnqueue
  <2>7. ASSUME NEW c \in Consumers, CallDequeue(c) PROVE TypeOK'
    BY <2>7 DEF CallDequeue
  <2>8. ASSUME NEW c \in Consumers, DLoadHead(c) PROVE TypeOK'
    BY <2>8 DEF DLoadHead
  <2>9. ASSUME NEW c \in Consumers, DLoadTail(c) PROVE TypeOK'
    BY <2>9 DEF DLoadTail
  <2>10. ASSUME NEW c \in Consumers, DLoadCell(c) PROVE TypeOK'
    BY <2>10, CellInBuffer DEF DLoadCell
  <2>11. ASSUME NEW c \in Consumers, DReloadHead(c) PROVE TypeOK'
    BY <2>11 DEF DReloadHead
  <2>12. ASSUME NEW c \in Consumers, DReloadTail(c) PROVE TypeOK'
    BY <2>12 DEF DReloadTail
  <2>13. ASSUME NEW c \in Consumers, DCasHead(c) PROVE TypeOK'
    <3>1. CASE seen[c] = head
      <4>1. hand[c] \in Items \cup {NoItem}
        OBVIOUS
      <4>2. dequeued' = Append(dequeued, hand[c])
        BY <2>13, <3>1 DEF DCasHead
      <4>3. dequeued' \in Seq(Items \cup {NoItem})
        <5> HIDE DEF Procs
        <5> QED BY <4>1, <4>2
      <4>4. /\ UNCHANGED <<buffer, tail, seen, hand, outside, enqueued,
                        sawFull, overtaken>>
            /\ head' = head + 1
            /\ pc' = [pc EXCEPT ![c] = "dClear"]
        BY <2>13, <3>1 DEF DCasHead
      <4> QED BY <4>3, <4>4
    <3>2. CASE seen[c] # head
      BY <2>13, <3>2 DEF DCasHead
    <3> QED BY <3>1, <3>2
  <2>14. ASSUME NEW c \in Consumers, DClear(c) PROVE TypeOK'
    BY <2>14, CellInBuffer DEF DClear
  <2>15. ASSUME NEW c \in Consumers, ReturnDequeue(c) PROVE TypeOK'
    BY <2>15 DEF ReturnDequeue
  <2>16. CASE UNCHANGED vars
    BY <2>16 DEF vars
  <2> QED BY <2>1, <2>2, <2>3, <2>4, <2>5, <2>6, <2>7, <2>8, <2>9, <2>10,
             <2>11, <2>12, <2>13, <2>14, <2>15, <2>16
          DEF Next, EnqueueStep, DequeueStep
<1> QED BY <1>1, <1>2, PTL DEF Spec
-----------------------------------------------------------------------------
(* RingInv is inductive when one process consumes the queue.  Every action *)
(* that only moves a process on, or only reads, is handled together with   *)
(* the ones like it; the four that write a counter or a cell come last.    *)

LEMMA RingInit ==
    ASSUME Init
    PROVE  RingInv
BY QueueAssumption
   DEF Init, RingInv, Window, ProducersSound, ConsumersSound, CellsSound,
       Procs, Cell

(* The two positions a lap apart share their cell; all others do not.      *)
LEMMA CellsInWindow ==
    ASSUME NEW b \in Nat, NEW i \in Nat, NEW j \in Nat, i # j,
           b <= i, i < b + Capacity, b <= j, j < b + Capacity
    PROVE  Cell(i) # Cell(j)
<1>1. CASE i < j
  BY <1>1, CellDistinct, QueueAssumption
<1>2. CASE j < i
  BY <1>2, CellDistinct, QueueAssumption
<1> QED BY <1>1, <1>2

LEMMA ProducerMoves ==
    ASSUME TypeOK, RingInv, NEW p \in Producers,
           \/ \E x \in Items : CallEnqueue(p, x)
           \/ LoadTail(p) \/ ReturnFalse(p)
    PROVE  RingInv'
<1> USE QueueAssumption DEF TypeOK, Goto, LeaveEnqueue, Procs, shared, history
<1>1. /\ UNCHANGED <<buffer, head, tail, enqueued, dequeued>>
      /\ pc[p] \in {"idle", "loadTail", "refused"}
      /\ pc' = [pc EXCEPT ![p] = pc'[p]]
      /\ pc'[p] \in {"idle", "loadTail", "loadHead"}
      /\ pc'[p] = "loadHead" => seen'[p] = tail
      /\ \A q \in Procs \ {p} :
            seen'[q] = seen[q] /\ hand'[q] = hand[q] /\ pc'[q] = pc[q]
  BY DEF CallEnqueue, LoadTail, ReturnFalse
<1>2. \A q \in Producers :
         /\ pc'[q] \in {"casTail", "store"} =>
               pc'[q] = pc[q] /\ seen'[q] = seen[q] /\ hand'[q] = hand[q]
         /\ pc'[q] = "loadHead" =>
               seen'[q] = tail \/ (pc[q] = "loadHead" /\ seen'[q] = seen[q])
         /\ pc[q] = "store" => pc'[q] = "store" /\ seen'[q] = seen[q]
  BY <1>1
<1>3. \A c \in Consumers :
         pc'[c] = pc[c] /\ seen'[c] = seen[c] /\ hand'[c] = hand[c]
  BY <1>1
<1>4. Window'
  BY <1>1 DEF RingInv, Window
<1>5. ProducersSound'
  <2> HIDE DEF TypeOK
  <2> QED BY <1>1, <1>2 DEF RingInv, ProducersSound, TypeOK
<1>6. ConsumersSound'
  BY <1>1 DEF RingInv, ConsumersSound
<1>7. CellsSound'
  <2>1. UNCHANGED <<buffer, head, tail, enqueued>>
    BY <1>1
  <2> HIDE DEF TypeOK, LeaveEnqueue, Goto
  <2> QED BY <2>1, <1>2, <1>3 DEF RingInv, CellsSound
<1> QED BY <1>4, <1>5, <1>6, <1>7 DEF RingInv

(* The full check of queue.go:51 only lets through a producer that, if its *)
(* tail is still current, has seen a free position.                        *)
LEMMA LoadHeadPreserves ==
    ASSUME TypeOK, RingInv, NEW p \in Producers, LoadHead(p)
    PROVE  RingInv'
<1> USE QueueAssumption DEF TypeOK, Goto, Procs, shared, history, LoadHead
<1>1. Window'
  BY DEF RingInv, Window
<1>2. ASSUME ~LooksFull(seen[p], head), seen[p] = tail
      PROVE  tail - head < Capacity - 1
  <2>1. Cell(tail + 1) # Cell(head)
    BY <1>2 DEF LooksFull
  <2>2. Cell(head + Capacity) = Cell(head)
    BY CellLap
  <2>3. tail + 1 # head + Capacity
    BY <2>1, <2>2
  <2> QED BY <2>3 DEF RingInv, Window
<1>3. ProducersSound'
  BY <1>2 DEF RingInv, ProducersSound
<1>4. ConsumersSound'
  BY DEF RingInv, ConsumersSound
<1>5. CellsSound'
  BY DEF RingInv, CellsSound
<1> QED BY <1>1, <1>3, <1>4, <1>5 DEF RingInv

(* The producer whose CAS succeeds reserves a position whose cell is empty. *)
LEMMA CasTailPreserves ==
    ASSUME TypeOK, RingInv, NEW p \in Producers, CasTail(p)
    PROVE  RingInv'
<1> USE QueueAssumption DEF Procs
<1>1. /\ pc[p] = "casTail"
      /\ hand[p] \in Items
      /\ UNCHANGED <<buffer, head, seen, hand, dequeued>>
      /\ seen[p] <= tail
  BY DEF CasTail, TypeOK, RingInv, ProducersSound
<1>2. CASE seen[p] # tail
  <2>1. /\ pc' = [pc EXCEPT ![p] = "loadTail"]
        /\ UNCHANGED <<tail, enqueued>>
    BY <1>2 DEF CasTail, Goto
  <2>2. Window'
    BY <1>1, <2>1 DEF RingInv, Window
  <2>3. ProducersSound'
    BY <1>1, <2>1 DEF RingInv, ProducersSound, TypeOK
  <2>4. ConsumersSound'
    BY <1>1, <2>1 DEF RingInv, ConsumersSound, TypeOK
  <2>5. CellsSound'
    BY <1>1, <2>1 DEF RingInv, CellsSound, TypeOK
  <2> QED BY <2>2, <2>3, <2>4, <2>5 DEF RingInv
<1>3. CASE seen[p] = tail
  <2>1. /\ pc' = [pc EXCEPT ![p] = "store"]
        /\ tail' = tail + 1
        /\ enqueued' = Append(enqueued, hand[p])
    BY <1>3 DEF CasTail, Goto
  <2>2. tail - head < Capacity - 1
    BY <1>1, <1>3 DEF RingInv, ProducersSound
  <2>3. /\ head \in Nat /\ tail \in Nat /\ head <= tail
        /\ enqueued \in Seq(Items) /\ Len(enqueued) = tail
        /\ pc \in [Procs -> {"idle"} \cup EnqueueLabels \cup DequeueLabels]
        /\ seen \in [Procs -> Nat]
    BY DEF TypeOK, RingInv, Window
  <2>4. /\ Len(enqueued') = tail + 1
        /\ enqueued'[tail + 1] = hand[p]
        /\ \A i \in 1 .. tail : enqueued'[i] = enqueued[i]
    BY <1>1, <2>1, <2>3
  <2>5. buffer[Cell(tail)] = NoItem
    BY <2>2, <2>3 DEF RingInv, CellsSound
  <2>6. Window'
    BY <1>1, <2>1, <2>2, <2>3, <2>4 DEF RingInv, Window
  <2>7. ProducersSound'
    <3>1. \A q \in Producers \ {p} : pc'[q] = pc[q]
      BY <2>1, <2>3
    <3>2. pc'[p] = "store"
      BY <2>1, <2>3
    <3>3. \A q \in Producers : pc[q] = "store" =>
              /\ seen[q] < tail
              /\ enqueued'[seen[q] + 1] = hand[q]
      BY <2>3, <2>4 DEF RingInv, ProducersSound
    <3> QED BY <1>1, <1>3, <2>1, <2>3, <2>4, <2>5, <3>1, <3>2, <3>3
            DEF RingInv, ProducersSound
  <2>8. ConsumersSound'
    <3>1. \A c \in Consumers : pc'[c] = pc[c]
      BY <2>1, <2>3
    <3> QED BY <1>1, <2>1, <2>3, <2>4, <3>1 DEF RingInv, ConsumersSound
  <2>9. CellsSound'
    <3>1. \A q \in Procs \ {p} : pc'[q] = pc[q]
      BY <2>1, <2>3
    <3>2. pc'[p] = "store" /\ seen'[p] = tail
      BY <1>1, <1>3, <2>1, <2>3
    <3>3. ASSUME NEW j \in head .. tail
          PROVE  \/ buffer[Cell(j)] = enqueued'[j + 1]
                 \/ \E q \in Producers : pc'[q] = "store" /\ seen'[q] = j
      <4>1. CASE j = tail
        BY <3>2, <4>1
      <4>2. CASE j < tail
        <5>1. \/ buffer[Cell(j)] = enqueued[j + 1]
              \/ \E q \in Producers : pc[q] = "store" /\ seen[q] = j
          BY <2>3, <4>2 DEF RingInv, CellsSound
        <5>2. CASE buffer[Cell(j)] = enqueued[j + 1]
          BY <2>3, <2>4, <4>2, <5>2
        <5>3. ASSUME NEW q \in Producers, pc[q] = "store", seen[q] = j
              PROVE  pc'[q] = "store" /\ seen'[q] = j
          BY <1>1, <3>1, <5>3
        <5> QED BY <5>1, <5>2, <5>3
      <4> QED BY <2>3, <4>1, <4>2
    <3>4. ASSUME NEW j \in tail + 1 .. head + Capacity - 1
          PROVE  \/ buffer[Cell(j)] = NoItem
                 \/ j = head + Capacity - 1 /\ \E c \in Consumers : pc'[c] = "dClear"
      <4>1. \A c \in Consumers : pc'[c] = pc[c]
        BY <3>1
      <4> QED BY <2>3, <4>1 DEF RingInv, CellsSound
    <3> QED BY <1>1, <2>1, <2>3, <3>3, <3>4 DEF CellsSound
  <2> QED BY <2>6, <2>7, <2>8, <2>9 DEF RingInv
<1> QED BY <1>2, <1>3

(* The producer fills the cell it reserved and no other.                   *)
LEMMA StorePreserves ==
    ASSUME TypeOK, RingInv, NEW p \in Producers, Store(p)
    PROVE  RingInv'
<1> USE QueueAssumption DEF Procs
<1> DEFINE s == seen[p]
<1>1. /\ pc[p] = "store"
      /\ pc' = [pc EXCEPT ![p] = "idle"]
      /\ seen' = [seen EXCEPT ![p] = 0]
      /\ hand' = [hand EXCEPT ![p] = NoItem]
      /\ buffer' = [buffer EXCEPT ![Cell(s)] = hand[p]]
      /\ UNCHANGED <<head, tail, enqueued, dequeued>>
  BY DEF Store, LeaveEnqueue, Goto
<1>2. /\ pc \in [Procs -> {"idle"} \cup EnqueueLabels \cup DequeueLabels]
      /\ seen \in [Procs -> Nat]
      /\ hand \in [Procs -> Items \cup {NoItem}]
      /\ head \in Nat /\ tail \in Nat
      /\ buffer \in [0 .. Capacity - 1 -> Items \cup {NoItem}]
  BY DEF TypeOK
<1>3. /\ s \in Nat /\ head <= s /\ s < tail /\ tail < head + Capacity
      /\ enqueued[s + 1] = hand[p]
  BY <1>1, <1>2 DEF RingInv, ProducersSound, Window
<1>4. \A q \in Procs \ {p} :
         pc'[q] = pc[q] /\ seen'[q] = seen[q] /\ hand'[q] = hand[q]
  BY <1>1, <1>2
<1>5. pc'[p] = "idle"
  BY <1>1, <1>2
<1> HIDE DEF s
<1>6. \A j \in head .. head + Capacity - 1 :
         j # s => buffer'[Cell(j)] = buffer[Cell(j)]
  <2> SUFFICES ASSUME NEW j \in head .. head + Capacity - 1, j # s
               PROVE  buffer'[Cell(j)] = buffer[Cell(j)]
    OBVIOUS
  <2>1. Cell(j) # Cell(s)
    <3>1. /\ j \in Nat /\ head <= j /\ j < head + Capacity
          /\ s < head + Capacity
      BY <1>2, <1>3
    <3> QED BY <1>2, <1>3, <3>1, CellsInWindow
  <2>2. Cell(j) \in 0 .. Capacity - 1
    BY <1>2, CellInBuffer
  <2> QED BY <1>1, <1>2, <2>1, <2>2
<1>7. buffer'[Cell(s)] = hand[p]
  BY <1>1, <1>2, <1>3, CellInBuffer
<1>8. Window'
  BY <1>1 DEF RingInv, Window
<1>9. ProducersSound'
  BY <1>1, <1>2, <1>3, <1>4, <1>5, <1>6 DEF RingInv, ProducersSound, s
<1>10. ConsumersSound'
  BY <1>1, <1>2, <1>3, <1>4, <1>5, <1>6, <1>7 DEF RingInv, ConsumersSound, s
<1>11. CellsSound'
  <2>1. ASSUME NEW j \in head .. tail - 1
        PROVE  \/ buffer'[Cell(j)] = enqueued[j + 1]
               \/ \E q \in Producers : pc'[q] = "store" /\ seen'[q] = j
    <3>1. CASE j = s
      BY <1>3, <1>7, <3>1
    <3>2. CASE j # s
      <4>1. buffer'[Cell(j)] = buffer[Cell(j)]
        BY <1>2, <1>3, <1>6, <3>2
      <4>2. ASSUME NEW q \in Producers, pc[q] = "store", seen[q] = j
            PROVE  pc'[q] = "store" /\ seen'[q] = j
        BY <1>4, <3>2, <4>2 DEF s
      <4> QED BY <4>1, <4>2 DEF RingInv, CellsSound
    <3> QED BY <3>1, <3>2
  <2>2. ASSUME NEW j \in tail .. head + Capacity - 1
        PROVE  \/ buffer'[Cell(j)] = NoItem
               \/ /\ j = head + Capacity - 1
                  /\ \E c \in Consumers : pc'[c] = "dClear"
    <3>1. buffer'[Cell(j)] = buffer[Cell(j)]
      BY <1>2, <1>3, <1>6
    <3>2. \A c \in Consumers : pc'[c] = pc[c]
      BY <1>4
    <3> QED BY <3>1, <3>2 DEF RingInv, CellsSound
  <2> QED BY <1>1, <2>1, <2>2 DEF CellsSound
<1> QED BY <1>8, <1>9, <1>10, <1>11 DEF RingInv

(* The steps of a Dequeue that only read: with a single consumer head does *)
(* not move between them.                                                  *)
LEMMA DequeueReads ==
    ASSUME TypeOK, RingInv, SingleConsumer, NEW c \in Consumers,
           \/ CallDequeue(c) \/ DLoadHead(c) \/ DLoadTail(c) \/ DLoadCell(c)
           \/ DReloadHead(c) \/ DReloadTail(c) \/ ReturnDequeue(c)
    PROVE  RingInv'
<1> USE QueueAssumption DEF Procs
<1>1. /\ UNCHANGED <<buffer, head, tail, enqueued, dequeued>>
      /\ pc' = [pc EXCEPT ![c] = pc'[c]]
      /\ pc[c] # "dClear" /\ pc'[c] # "dClear"
      /\ \A q \in Procs \ {c} :
            seen'[q] = seen[q] /\ hand'[q] = hand[q] /\ pc'[q] = pc[q]
  BY DEF CallDequeue, DLoadHead, DLoadTail, DLoadCell, DReloadHead,
         DReloadTail, ReturnDequeue, shared, history, Goto, TypeOK
<1>2. \A p \in Producers :
         seen'[p] = seen[p] /\ hand'[p] = hand[p] /\ pc'[p] = pc[p]
  BY <1>1
<1>3. Window'
  BY <1>1 DEF RingInv, Window
<1>4. ProducersSound'
  BY <1>1, <1>2 DEF RingInv, ProducersSound
<1>5. CellsSound'
  <2>1. \A d \in Consumers : d = c
    BY DEF SingleConsumer
  <2>2. \A d \in Consumers : pc[d] = "dClear" <=> pc'[d] = "dClear"
    BY <1>1, <2>1
  <2> QED BY <1>1, <1>2, <2>2 DEF RingInv, CellsSound
<1>6. /\ pc'[c] \in {"dLoadTail", "dLoadCell", "dReloadHead",
                     "dReloadTail", "dCasHead"} => seen'[c] = head
      /\ pc'[c] \in {"dLoadCell", "dReloadHead", "dReloadTail", "dCasHead"} =>
            head < tail
      /\ pc'[c] = "dCasHead" =>
            hand'[c] = enqueued[head + 1] /\ buffer[Cell(head)] = hand'[c]
  <2>1. CASE CallDequeue(c) \/ DLoadHead(c) \/ DReloadHead(c)
             \/ DReloadTail(c) \/ ReturnDequeue(c)
    BY <2>1 DEF CallDequeue, DLoadHead, DReloadHead, DReloadTail,
                ReturnDequeue, Goto, TypeOK, RingInv, ConsumersSound, shared
  <2>2. CASE DLoadTail(c)
    BY <2>2 DEF DLoadTail, Goto, TypeOK, RingInv, ConsumersSound, Window
  <2>3. CASE DLoadCell(c)
    <3>1. /\ seen[c] = head /\ head < tail
          /\ pc[c] = "dLoadCell" /\ UNCHANGED seen
          /\ hand'[c] = buffer[Cell(head)]
          /\ pc'[c] = IF buffer[Cell(head)] = NoItem THEN "dReloadHead"
                                                     ELSE "dCasHead"
      BY <2>3 DEF DLoadCell, Goto, TypeOK, RingInv, ConsumersSound
    <3>2. \/ buffer[Cell(head)] = enqueued[head + 1]
          \/ buffer[Cell(head)] = NoItem
      <4>1. head \in head .. tail - 1
        BY <3>1 DEF TypeOK
      <4>2. CASE buffer[Cell(head)] = enqueued[head + 1]
        BY <4>2
      <4>3. ASSUME NEW p \in Producers, pc[p] = "store", seen[p] = head
            PROVE  buffer[Cell(head)] = NoItem
        BY <4>3 DEF RingInv, ProducersSound
      <4> QED BY <4>1, <4>2, <4>3 DEF RingInv, CellsSound
    <3> QED BY <3>1, <3>2
  <2> QED BY <2>1, <2>2, <2>3
<1>7. ConsumersSound'
  <2>1. \A d \in Consumers : d = c
    BY DEF SingleConsumer
  <2> QED BY <1>1, <1>6, <2>1 DEF ConsumersSound
<1> QED BY <1>3, <1>4, <1>5, <1>7 DEF RingInv

(* The consumer's CAS frees the position it read; the cell stays occupied  *)
(* until DClear, and no producer can reserve it before that.               *)
LEMMA DCasHeadPreserves ==
    ASSUME TypeOK, RingInv, SingleConsumer, NEW c \in Consumers, DCasHead(c)
    PROVE  RingInv'
<1> USE QueueAssumption DEF Procs
<1>1. /\ pc[c] = "dCasHead" /\ seen[c] = head /\ head < tail
      /\ hand[c] = enqueued[head + 1]
      /\ buffer[Cell(head)] = hand[c]
      /\ head \in Nat /\ tail \in Nat /\ tail < head + Capacity
      /\ enqueued \in Seq(Items) /\ Len(enqueued) = tail
      /\ dequeued \in Seq(Items \cup {NoItem}) /\ Len(dequeued) = head
      /\ pc \in [Procs -> {"idle"} \cup EnqueueLabels \cup DequeueLabels]
  BY DEF DCasHead, TypeOK, RingInv, ConsumersSound, Window
<1>2. /\ pc' = [pc EXCEPT ![c] = "dClear"]
      /\ head' = head + 1
      /\ dequeued' = Append(dequeued, hand[c])
      /\ UNCHANGED <<buffer, tail, seen, hand, enqueued>>
  BY <1>1 DEF DCasHead, Goto
<1>3. hand[c] \in Items /\ hand[c] # NoItem
  BY <1>1
<1>4. \A p \in Producers : pc'[p] = pc[p]
  BY <1>1, <1>2
<1>5. pc'[c] = "dClear" /\ \A d \in Consumers : d = c
  BY <1>1, <1>2 DEF SingleConsumer
<1>6. Window'
  <2>1. /\ Len(dequeued') = head + 1
        /\ dequeued'[head + 1] = hand[c]
        /\ \A i \in 1 .. head : dequeued'[i] = dequeued[i]
    <3>1. hand[c] \in Items \cup {NoItem}
      BY <1>3
    <3> QED BY <1>1, <1>2, <3>1
  <2> QED BY <1>1, <1>2, <2>1 DEF RingInv, Window
<1>7. \A p \in Producers : pc[p] = "store" => seen[p] # head
  BY <1>1, <1>3 DEF RingInv, ProducersSound
<1>8. ProducersSound'
  <2> SUFFICES ASSUME NEW p \in Producers
      PROVE  /\ pc[p] \in {"loadHead", "casTail"} => seen[p] <= tail
             /\ pc[p] = "casTail" /\ seen[p] = tail =>
                   tail - (head + 1) < Capacity - 1
             /\ pc[p] = "store" =>
                   /\ head + 1 <= seen[p]
                   /\ seen[p] < tail
                   /\ enqueued[seen[p] + 1] = hand[p]
                   /\ buffer[Cell(seen[p])] = NoItem
    BY <1>2, <1>4 DEF RingInv, ProducersSound
  <2>1. seen[p] \in Nat
    BY DEF TypeOK
  <2> QED BY <1>1, <1>7, <2>1 DEF RingInv, ProducersSound
<1>9. ConsumersSound'
  BY <1>1, <1>2, <1>5 DEF ConsumersSound
<1>10. CellsSound'
  <2>1. ASSUME NEW j \in head + 1 .. tail - 1
        PROVE  \/ buffer[Cell(j)] = enqueued[j + 1]
               \/ \E p \in Producers : pc'[p] = "store" /\ seen[p] = j
    BY <1>1, <1>4 DEF RingInv, CellsSound
  <2>2. ASSUME NEW j \in tail .. head + Capacity
        PROVE  \/ buffer[Cell(j)] = NoItem
               \/ j = head + Capacity /\ \E d \in Consumers : pc'[d] = "dClear"
    <3>1. CASE j = head + Capacity
      BY <1>5, <3>1
    <3>2. CASE j < head + Capacity
      <4>1. \A d \in Consumers : pc[d] # "dClear"
        BY <1>1, <1>5
      <4> QED BY <1>1, <3>2, <4>1 DEF RingInv, CellsSound
    <3> QED BY <1>1, <3>1, <3>2
  <2> QED BY <1>1, <1>2, <2>1, <2>2 DEF CellsSound
<1> QED BY <1>6, <1>8, <1>9, <1>10 DEF RingInv

(* The clearing store empties the cell of the position just freed.         *)
LEMMA DClearPreserves ==
    ASSUME TypeOK, RingInv, SingleConsumer, NEW c \in Consumers, DClear(c)
    PROVE  RingInv'
<1> USE QueueAssumption DEF Procs
<1> DEFINE last == head + Capacity - 1
<1>1. /\ pc[c] = "dClear" /\ seen[c] + 1 = head
      /\ head \in Nat /\ tail \in Nat /\ seen[c] \in Nat
      /\ head <= tail /\ tail < head + Capacity
      /\ buffer \in [0 .. Capacity - 1 -> Items \cup {NoItem}]
      /\ pc \in [Procs -> {"idle"} \cup EnqueueLabels \cup DequeueLabels]
  BY DEF DClear, TypeOK, RingInv, ConsumersSound, Window
<1>2. /\ pc' = [pc EXCEPT ![c] = "dDone"]
      /\ buffer' = [buffer EXCEPT ![Cell(seen[c])] = NoItem]
      /\ UNCHANGED <<head, tail, seen, hand, enqueued, dequeued>>
  BY DEF DClear, Goto, history
<1>3. \A p \in Producers : pc'[p] = pc[p]
  BY <1>1, <1>2
<1>4. pc'[c] = "dDone" /\ \A d \in Consumers : d = c
  BY <1>1, <1>2 DEF SingleConsumer
<1>5. last \in Nat /\ Cell(last) = Cell(seen[c])
  <2>1. last \in Nat /\ last = seen[c] + Capacity
    BY <1>1
  <2> HIDE DEF last
  <2> QED BY <1>1, <2>1, CellLap
<1>6. \A j \in head .. last - 1 : buffer'[Cell(j)] = buffer[Cell(j)]
  <2> SUFFICES ASSUME NEW j \in head .. last - 1
               PROVE  buffer'[Cell(j)] = buffer[Cell(j)]
    OBVIOUS
  <2>1. j \in Nat /\ j < last /\ last < j + Capacity
    BY <1>1
  <2>2. Cell(j) # Cell(last)
    <3> HIDE DEF last
    <3> QED BY <1>5, <2>1, CellDistinct
  <2>3. Cell(j) \in 0 .. Capacity - 1
    BY <2>1, CellInBuffer
  <2> QED BY <1>1, <1>2, <1>5, <2>2, <2>3
<1>7. buffer'[Cell(last)] = NoItem
  BY <1>1, <1>2, <1>5, CellInBuffer
<1>8. Window'
  BY <1>2 DEF RingInv, Window
<1>9. ProducersSound'
  <2> SUFFICES ASSUME NEW p \in Producers, pc[p] = "store"
               PROVE  buffer'[Cell(seen[p])] = NoItem
    BY <1>2, <1>3 DEF RingInv, ProducersSound
  <2>1. /\ seen[p] \in Nat /\ head <= seen[p] /\ seen[p] < tail
        /\ buffer[Cell(seen[p])] = NoItem
    BY DEF RingInv, ProducersSound, TypeOK
  <2> QED BY <1>1, <1>6, <2>1
<1>10. ConsumersSound'
  BY <1>2, <1>4 DEF ConsumersSound
<1>11. CellsSound'
  <2>1. ASSUME NEW j \in head .. tail - 1
        PROVE  \/ buffer'[Cell(j)] = enqueued[j + 1]
               \/ \E p \in Producers : pc'[p] = "store" /\ seen[p] = j
    <3>1. buffer'[Cell(j)] = buffer[Cell(j)]
      BY <1>1, <1>6
    <3> QED BY <1>3, <3>1 DEF RingInv, CellsSound
  <2>2. ASSUME NEW j \in tail .. last
        PROVE  buffer'[Cell(j)] = NoItem
    <3>1. CASE j = last
      BY <1>7, <3>1
    <3>2. CASE j < last
      <4>1. buffer'[Cell(j)] = buffer[Cell(j)]
        BY <1>1, <1>6, <3>2
      <4> QED BY <3>2, <4>1, <1>1 DEF RingInv, CellsSound
    <3> QED BY <1>1, <3>1, <3>2
  <2> QED BY <1>2, <2>1, <2>2 DEF CellsSound
<1> QED BY <1>8, <1>9, <1>10, <1>11 DEF RingInv

(* The invariant behind everything the queue promises: with one consumer,  *)
(* occupied positions span less than a lap, their cells hold (or are about *)
(* to be given) the accepted items, and all the other cells are empty.     *)
THEOREM RingCorrect == SingleConsumer => (Spec => []RingInv)
<1> SUFFICES ASSUME SingleConsumer PROVE Spec => []RingInv
  OBVIOUS
<1>1. Init => RingInv
  BY RingInit
<1>2. TypeOK /\ RingInv /\ [Next]_vars => RingInv'
  <2> SUFFICES ASSUME TypeOK, RingInv, [Next]_vars PROVE RingInv'
    OBVIOUS
  <2>1. ASSUME NEW p \in Producers,
               (\E x \in Items : CallEnqueue(p, x)) \/ EnqueueStep(p)
        PROVE  RingInv'
    BY <2>1, ProducerMoves, LoadHeadPreserves, CasTailPreserves,
       StorePreserves DEF EnqueueStep
  <2>2. ASSUME NEW c \in Consumers, DequeueStep(c)
        PROVE  RingInv'
    BY <2>2, DequeueReads, DCasHeadPreserves, DClearPreserves
       DEF DequeueStep
  <2>3. CASE UNCHANGED vars
    BY <2>3 DEF vars, shared, history, RingInv, Window, ProducersSound,
                ConsumersSound, CellsSound
  <2> QED BY <2>1, <2>2, <2>3 DEF Next
<1> QED BY <1>1, <1>2, TypeCorrect, PTL DEF Spec

(* With one consumer, what Dequeue delivers is a prefix of what tail       *)
(* admitted (queue.go:94-97): no skip, no duplicate, no reordering.        *)
THEOREM QueueDeliversInOrder == SingleConsumer => (Spec => []DeliveredInOrder)
<1> SUFFICES ASSUME SingleConsumer PROVE Spec => []DeliveredInOrder
  OBVIOUS
<1>1. TypeOK /\ RingInv => DeliveredInOrder
  <2> SUFFICES ASSUME TypeOK, RingInv PROVE DeliveredInOrder
    OBVIOUS
  <2>1. /\ dequeued \in Seq(Items \cup {NoItem}) /\ enqueued \in Seq(Items)
        /\ Len(dequeued) = head /\ Len(enqueued) = tail /\ head <= tail
        /\ head \in Nat /\ tail \in Nat
        /\ \A i \in 1 .. head : dequeued[i] = enqueued[i]
    BY DEF TypeOK, RingInv, Window
  <2> QED BY <2>1 DEF DeliveredInOrder, IsPrefix
<1> QED BY <1>1, RingCorrect, TypeCorrect, PTL

(* With one consumer, Enqueue never stores over a pointer (queue.go:59).   *)
THEOREM QueueNeverOverwrites ==
    SingleConsumer => (Spec => StoresIntoClearedCell)
<1> SUFFICES ASSUME SingleConsumer PROVE Spec => StoresIntoClearedCell
  OBVIOUS
<1>1. RingInv /\ [Next]_vars =>
         [\A p \in Producers :
             Store(p) => buffer[Cell(seen[p])] = NoItem]_vars
  BY DEF RingInv, ProducersSound, Store
<1> QED BY <1>1, RingCorrect, PTL DEF Spec, StoresIntoClearedCell

(* With one consumer, an accepted item is in a cell, or in the hands of    *)
(* the producer that reserved one, until it is dequeued (queue.go:56-60).  *)
THEOREM QueueLosesNothing == SingleConsumer => (Spec => []NothingLost)
<1> SUFFICES ASSUME SingleConsumer PROVE Spec => []NothingLost
  OBVIOUS
<1>1. TypeOK /\ RingInv => NothingLost
  <2> SUFFICES ASSUME TypeOK, RingInv, NEW i \in DOMAIN enqueued
               PROVE  enqueued[i] \in ToSet(dequeued) \cup ToSet(buffer)
                        \cup {hand[p] : p \in {q \in Producers : pc[q] = "store"}}
    BY DEF NothingLost
  <2>1. /\ head \in Nat /\ tail \in Nat /\ i \in 1 .. tail
        /\ dequeued \in Seq(Items \cup {NoItem}) /\ Len(dequeued) = head
        /\ buffer \in [0 .. Capacity - 1 -> Items \cup {NoItem}]
    BY DEF TypeOK, RingInv, Window
  <2>2. CASE i <= head
    BY <2>1, <2>2 DEF RingInv, Window, ToSet
  <2>3. CASE i > head
    <3>1. i - 1 \in head .. tail - 1 /\ i - 1 \in Nat /\ (i - 1) + 1 = i
      BY <2>1, <2>3
    <3>2. CASE buffer[Cell(i - 1)] = enqueued[i]
      BY <2>1, <3>1, <3>2, CellInBuffer DEF ToSet
    <3>3. ASSUME NEW p \in Producers, pc[p] = "store", seen[p] = i - 1
          PROVE  enqueued[i] = hand[p]
      BY <3>1, <3>3 DEF RingInv, ProducersSound
    <3> QED BY <3>1, <3>2, <3>3 DEF RingInv, CellsSound
  <2> QED BY <2>1, <2>2, <2>3
<1> QED BY <1>1, RingCorrect, TypeCorrect, PTL
-----------------------------------------------------------------------------
(* Refinement: with one consumer, the ring implements BoundedFIFO.         *)

(* A refusal has its reason: a call that is open while the ring is full    *)
(* has witnessed that, and one whose copy of tail is stale was overtaken.  *)
CallsWitnessed ==
    \A p \in Producers :
       /\ p \in Open /\ tail - head = Capacity - 1 => p \in sawFull
       /\ pc[p] \in {"loadHead", "casTail"} /\ seen[p] # tail => p \in overtaken

(* The consumer has no item before it has read one from a cell.            *)
ConsumerHands ==
    \A c \in Consumers :
       pc[c] \notin {"dCasHead", "dClear", "dDone"} => hand[c] = NoItem

FifoInv == TypeOK /\ RingInv /\ CallsWitnessed /\ ConsumerHands

(* A step leaves the program counters and locals of other processes alone. *)
LEMMA OnlyOneMoves ==
    ASSUME TypeOK, NEW q \in Procs,
           \/ q \in Producers /\ ((\E x \in Items : CallEnqueue(q, x)) \/ EnqueueStep(q))
           \/ q \in Consumers /\ DequeueStep(q)
    PROVE  \A r \in Procs \ {q} :
              pc'[r] = pc[r] /\ seen'[r] = seen[r] /\ hand'[r] = hand[r]
<1>1. /\ \E l : pc' = [pc EXCEPT ![q] = l]
      /\ seen' = seen \/ \E n : seen' = [seen EXCEPT ![q] = n]
      /\ hand' = hand \/ \E x : hand' = [hand EXCEPT ![q] = x]
  BY DEF EnqueueStep, CallEnqueue, LoadTail, LoadHead, CasTail, Store, ReturnFalse,
         LeaveEnqueue, DequeueStep, CallDequeue, DLoadHead, DLoadTail, DLoadCell,
         DReloadHead, DReloadTail, DCasHead, DClear, ReturnDequeue, Goto
<1> QED BY <1>1 DEF TypeOK

(* A consumer's step frees a position, or leaves both counters alone.      *)
LEMMA ConsumerStepWitnessed ==
    ASSUME FifoInv, NEW c \in Consumers, DequeueStep(c)
    PROVE  CallsWitnessed'
<1>1. /\ UNCHANGED <<tail, sawFull, overtaken>>
      /\ head' = head \/ head' = head + 1
  BY DEF DequeueStep, CallDequeue, DLoadHead, DLoadTail, DLoadCell, DReloadHead,
         DReloadTail, DCasHead, DClear, ReturnDequeue, shared, history
<1>2. \A p \in Producers : pc'[p] = pc[p] /\ seen'[p] = seen[p]
  BY OnlyOneMoves, QueueAssumption DEF FifoInv, Procs
<1>3. /\ head \in Nat /\ tail \in Nat /\ Capacity \in Nat
      /\ tail - head < Capacity
  BY QueueAssumption DEF FifoInv, TypeOK, RingInv, Window
<1>4. tail - head' = Capacity - 1 => tail - head = Capacity - 1
  BY <1>1, <1>3
<1>5. Open' = Open
  BY <1>2 DEF Open
<1> QED BY <1>1, <1>2, <1>4, <1>5 DEF FifoInv, CallsWitnessed

(* Moving tail overtakes every other open call, and shows it a full ring.  *)
LEMMA ProducerStepWitnessed ==
    ASSUME FifoInv, NEW p \in Producers,
           (\E x \in Items : CallEnqueue(p, x)) \/ EnqueueStep(p)
    PROVE  CallsWitnessed'
<1>1. \A q \in Producers \ {p} : pc'[q] = pc[q] /\ seen'[q] = seen[q]
  BY OnlyOneMoves DEF FifoInv, Procs
<1>2. /\ head \in Nat /\ tail \in Nat /\ Capacity \in Nat /\ p \in Procs
      /\ pc \in [Procs -> {"idle"} \cup EnqueueLabels \cup DequeueLabels]
      /\ seen \in [Procs -> Nat]
  BY QueueAssumption DEF FifoInv, TypeOK, Procs
<1>3. CASE (\E x \in Items : CallEnqueue(p, x)) \/ LoadTail(p) \/ LoadHead(p)
  <2>1. /\ UNCHANGED <<head, tail, overtaken>> /\ sawFull \subseteq sawFull'
        /\ pc'[p] \in {"loadTail", "loadHead", "casTail", "refused"}
        /\ p \in Open' /\ tail - head = Capacity - 1 => p \in sawFull'
        /\ pc'[p] = "loadHead" => seen'[p] = tail
        /\ pc'[p] = "casTail" => pc[p] = "loadHead" /\ seen'[p] = seen[p]
    BY <1>2, <1>3
       DEF CallEnqueue, LoadTail, LoadHead, shared, history, Goto, FifoInv,
           CallsWitnessed, Open
  <2> QED BY <1>1, <2>1 DEF FifoInv, CallsWitnessed, Open
<1>4. CASE CasTail(p) /\ seen[p] # tail
  <2>1. /\ UNCHANGED <<head, tail, overtaken, sawFull>>
        /\ pc[p] = "casTail" /\ pc'[p] = "loadTail"
    BY <1>2, <1>4 DEF CasTail, Goto
  <2> QED BY <1>1, <2>1 DEF FifoInv, CallsWitnessed, Open
<1>5. CASE CasTail(p) /\ seen[p] = tail
  <2>1. /\ head' = head /\ tail' = tail + 1 /\ pc'[p] = "store"
        /\ sawFull' = IF tail' - head = Capacity - 1
                      THEN sawFull \cup (Open \ {p}) ELSE sawFull
        /\ overtaken' = overtaken \cup (Open \ {p})
    BY <1>2, <1>5 DEF CasTail, Goto
  <2>2. \A q \in Producers : pc'[q] \in {"loadTail", "loadHead", "casTail"} =>
           q \in Open \ {p}
    BY <1>1, <2>1 DEF Open
  <2> QED BY <2>1, <2>2 DEF CallsWitnessed, Open
<1>6. CASE Store(p) \/ ReturnFalse(p)
  <2>1. /\ UNCHANGED <<head, tail>> /\ pc'[p] = "idle"
        /\ sawFull' = sawFull \ {p} /\ overtaken' = overtaken \ {p}
    BY <1>2, <1>6 DEF Store, ReturnFalse, LeaveEnqueue, Goto
  <2> QED BY <1>1, <2>1 DEF FifoInv, CallsWitnessed, Open
<1> QED BY <1>3, <1>4, <1>5, <1>6 DEF EnqueueStep

(* A consumer that goes back to the beginning has dropped what it read.    *)
LEMMA HandsKept ==
    ASSUME FifoInv, NEW q \in Procs,
           \/ q \in Producers /\ ((\E x \in Items : CallEnqueue(q, x)) \/ EnqueueStep(q))
           \/ q \in Consumers /\ DequeueStep(q)
    PROVE  ConsumerHands'
<1>1. \A r \in Procs \ {q} : pc'[r] = pc[r] /\ hand'[r] = hand[r]
  BY OnlyOneMoves DEF FifoInv
<1>2. CASE q \in Producers
  BY <1>1, <1>2, QueueAssumption DEF FifoInv, ConsumerHands, Procs
<1>3. CASE q \in Consumers
  <2>1. q \notin Producers /\ DequeueStep(q)
    BY <1>3, QueueAssumption
  <2>2. pc'[q] \notin {"dCasHead", "dClear", "dDone"} => hand'[q] = NoItem
    <3>1. /\ pc \in [Procs -> {"idle"} \cup EnqueueLabels \cup DequeueLabels]
          /\ hand \in [Procs -> Items \cup {NoItem}]
          /\ pc[q] \notin {"dCasHead", "dClear", "dDone"} => hand[q] = NoItem
      BY <1>3 DEF FifoInv, TypeOK, ConsumerHands
    <3>2. CASE CallDequeue(q) \/ DLoadHead(q) \/ DLoadTail(q) \/ DReloadHead(q)
               \/ DReloadTail(q)
      BY <3>1, <3>2 DEF CallDequeue, DLoadHead, DLoadTail, DReloadHead, DReloadTail,
                        Goto
    <3>3. CASE DLoadCell(q) \/ DCasHead(q)
      BY <3>1, <3>3 DEF DLoadCell, DCasHead, Goto
    <3>4. CASE DClear(q) \/ ReturnDequeue(q)
      BY <3>1, <3>4 DEF DClear, ReturnDequeue, Goto
    <3> QED BY <2>1, <3>2, <3>3, <3>4 DEF DequeueStep
  <2> QED BY <1>1, <2>2 DEF FifoInv, ConsumerHands, Procs
<1> QED BY <1>2, <1>3 DEF Procs

(* The invariant the refinement rests on.                                  *)
THEOREM FifoCorrect == SingleConsumer => (Spec => []FifoInv)
<1> SUFFICES ASSUME SingleConsumer PROVE Spec => []FifoInv
  OBVIOUS
<1>1. Init => CallsWitnessed /\ ConsumerHands
  BY DEF Init, CallsWitnessed, ConsumerHands, Open, Procs
<1>2. FifoInv /\ [Next]_vars => CallsWitnessed' /\ ConsumerHands'
  <2> SUFFICES ASSUME FifoInv, [Next]_vars PROVE CallsWitnessed' /\ ConsumerHands'
    OBVIOUS
  <2>1. ASSUME NEW p \in Producers,
               (\E x \in Items : CallEnqueue(p, x)) \/ EnqueueStep(p)
        PROVE  CallsWitnessed' /\ ConsumerHands'
    <3>1. p \in Procs
      BY DEF Procs
    <3> QED BY <2>1, <3>1, ProducerStepWitnessed, HandsKept
  <2>2. ASSUME NEW c \in Consumers, DequeueStep(c)
        PROVE  CallsWitnessed' /\ ConsumerHands'
    <3>1. c \in Procs
      BY DEF Procs
    <3> QED BY <2>2, <3>1, ConsumerStepWitnessed, HandsKept
  <2>3. CASE UNCHANGED vars
    BY <2>3 DEF FifoInv, CallsWitnessed, ConsumerHands, Open, vars, shared, history
  <2> QED BY <2>1, <2>2, <2>3 DEF Next
<1> QED BY <1>1, <1>2, TypeCorrect, RingCorrect, PTL DEF Spec, FifoInv
-----------------------------------------------------------------------------
(* What the moves of tail and head do to the contents of the queue.        *)

(* The contents are the items between head and tail.                       *)
ContentsSound ==
    /\ Contents \in Seq(Items) /\ Len(Contents) = tail - head
    /\ \A i \in 1 .. tail - head : Contents[i] = enqueued[head + i]

(* The invariant says so.                                                  *)
LEMMA ContentsIs == FifoInv => ContentsSound
<1> SUFFICES ASSUME FifoInv PROVE ContentsSound
  OBVIOUS
<1>1. /\ enqueued \in Seq(Items) /\ Len(enqueued) = tail
      /\ head \in Nat /\ tail \in Nat /\ head <= tail
  BY DEF FifoInv, TypeOK, RingInv, Window
<1> QED BY <1>1 DEF ContentsSound, Contents

(* The same after a step.                                                  *)
LEMMA ContentsIsNext == FifoInv' => ContentsSound'
BY ContentsIs, PTL

(* Two sequences with the same elements are the same.                      *)
LEMMA SameSequence ==
    ASSUME NEW S, NEW s \in Seq(S), NEW t \in Seq(S), Len(s) = Len(t),
           \A i \in 1 .. Len(s) : s[i] = t[i]
    PROVE  s = t
OBVIOUS

(* The successful CAS of a producer appends its item.                      *)
LEMMA ContentsGrow ==
    ASSUME FifoInv, FifoInv', NEW x \in Items, tail' = tail + 1, head' = head,
           enqueued' = Append(enqueued, x)
    PROVE  Contents' = Append(Contents, x)
<1>1. /\ Contents \in Seq(Items) /\ Len(Contents) = tail - head
      /\ \A i \in 1 .. tail - head : Contents[i] = enqueued[head + i]
  BY ContentsIs DEF ContentsSound
<1>2. /\ Contents' \in Seq(Items) /\ Len(Contents') = tail' - head'
      /\ \A i \in 1 .. tail' - head' : Contents'[i] = enqueued'[head' + i]
  BY ContentsIsNext DEF ContentsSound
<1>3. /\ enqueued \in Seq(Items) /\ Len(enqueued) = tail
      /\ head \in Nat /\ tail \in Nat /\ head <= tail
  BY DEF FifoInv, TypeOK, RingInv, Window
<1>4. \A i \in 1 .. tail : enqueued'[i] = enqueued[i]
  BY <1>3
<1>5. enqueued'[tail + 1] = x
  BY <1>3
<1> DEFINE s == Append(Contents, x)
<1>6. /\ s \in Seq(Items) /\ Len(s) = tail - head + 1 /\ s[tail - head + 1] = x
      /\ \A i \in 1 .. tail - head : s[i] = Contents[i]
  <2> HIDE DEF Contents
  <2> QED BY <1>1, <1>3
<1>7. ASSUME NEW i \in 1 .. tail - head + 1 PROVE Contents'[i] = s[i]
  <2> HIDE DEF s, Contents
  <2>1. Contents'[i] = enqueued'[head + i]
    BY <1>2, <1>3
  <2>2. CASE i = tail - head + 1
    <3>1. head + i = tail + 1
      BY <1>3, <2>2
    <3> QED BY <1>5, <1>6, <2>1, <2>2, <3>1
  <2>3. CASE i \in 1 .. tail - head
    <3>1. head + i \in 1 .. tail
      BY <1>3, <2>3
    <3> QED BY <1>1, <1>4, <1>6, <2>1, <2>3, <3>1
  <2> QED BY <1>3, <2>2, <2>3
<1> HIDE DEF s, Contents
<1>8. Len(Contents') = tail - head + 1
  BY <1>2, <1>3
<1>9. Contents' = s
  BY <1>2, <1>6, <1>7, <1>8, SameSequence
<1> QED BY <1>9 DEF s

(* The successful CAS of the consumer removes the oldest item.             *)
LEMMA ContentsShrink ==
    ASSUME FifoInv, FifoInv', tail' = tail, head' = head + 1, enqueued' = enqueued
    PROVE  /\ Contents # <<>> /\ Head(Contents) = enqueued[head + 1]
           /\ Contents' = Tail(Contents)
<1>1. /\ Contents \in Seq(Items) /\ Len(Contents) = tail - head
      /\ \A i \in 1 .. tail - head : Contents[i] = enqueued[head + i]
  BY ContentsIs DEF ContentsSound
<1>2. /\ Contents' \in Seq(Items) /\ Len(Contents') = tail' - head'
      /\ \A i \in 1 .. tail' - head' : Contents'[i] = enqueued'[head' + i]
  BY ContentsIsNext DEF ContentsSound
<1>3. head \in Nat /\ tail \in Nat /\ head + 1 <= tail
  BY DEF FifoInv, TypeOK, RingInv, Window
<1> DEFINE s == Tail(Contents)
<1> HIDE DEF Contents
<1>4. /\ Contents # <<>> /\ Head(Contents) = Contents[1]
      /\ s \in Seq(Items) /\ Len(s) = tail - head - 1
      /\ \A i \in 1 .. tail - head - 1 : s[i] = Contents[i + 1]
  BY <1>1, <1>3
<1> HIDE DEF s
<1>5. ASSUME NEW i \in 1 .. tail - head - 1 PROVE Contents'[i] = s[i]
  <2>1. /\ i + 1 \in 1 .. tail - head /\ head + (i + 1) = (head + 1) + i
        /\ i \in 1 .. tail' - head'
    BY <1>3
  <2>2. Contents'[i] = enqueued[(head + 1) + i]
    BY <1>2, <2>1
  <2>3. s[i] = enqueued[head + (i + 1)]
    BY <1>1, <1>4, <2>1
  <2> QED BY <2>1, <2>2, <2>3
<1>6. Len(Contents') = tail - head - 1
  BY <1>2, <1>3
<1>7. Contents' = s
  BY <1>2, <1>4, <1>5, <1>6, SameSequence
<1>8. Contents[1] = enqueued[head + 1]
  BY <1>1, <1>3
<1> QED BY <1>4, <1>7, <1>8 DEF s
-----------------------------------------------------------------------------
(* Steps of the abstract queue.                                            *)

(* A process's label and hand decide what the abstract queue sees of it.   *)
LEMMA OthersUnseen ==
    ASSUME NEW r \in Procs, pc'[r] = pc[r], hand'[r] = hand[r]
    PROVE  Phase(r)' = Phase(r) /\ Carried(r)' = Carried(r)
BY DEF Phase, Carried

(* A step that shows nothing to the callers.                               *)
LEMMA FifoStutters ==
    ASSUME \A r \in Procs : Phase(r)' = Phase(r) /\ Carried(r)' = Carried(r),
           UNCHANGED <<head, tail, enqueued, outside, sawFull, overtaken>>
    PROVE  UNCHANGED FIFO!fifoVars
<1>1. Contents' = Contents
  BY DEF Contents
<1> HIDE DEF Phase, Carried, Contents
<1> QED BY <1>1 DEF FIFO!fifoVars

(* A step of one process.                                                  *)
LEMMA FifoMoves ==
    ASSUME NEW q \in Procs, NEW a, NEW b, NEW x, Phase(q) = a, Phase(q)' = b,
           Carried(q)' = x,
           \A r \in Procs \ {q} : Phase(r)' = Phase(r) /\ Carried(r)' = Carried(r)
    PROVE  LET phase == [r \in Procs |-> Phase(r)]
               carried == [r \in Procs |-> Carried(r)]
           IN  /\ phase[q] = a /\ phase' = [phase EXCEPT ![q] = b]
               /\ carried' = [carried EXCEPT ![q] = x]
               /\ x = Carried(q) => carried' = carried
<1> HIDE DEF Phase, Carried
<1> QED OBVIOUS

(* What a step of one process hides from the callers of the others.        *)
LEMMA OthersKept ==
    ASSUME FifoInv, NEW q \in Procs,
           \/ q \in Producers /\ ((\E x \in Items : CallEnqueue(q, x)) \/ EnqueueStep(q))
           \/ q \in Consumers /\ DequeueStep(q)
    PROVE  \A r \in Procs \ {q} : Phase(r)' = Phase(r) /\ Carried(r)' = Carried(r)
<1>1. \A r \in Procs \ {q} : pc'[r] = pc[r] /\ hand'[r] = hand[r]
  BY OnlyOneMoves DEF FifoInv
<1> QED BY <1>1, OthersUnseen

(* A refused call has seen a full queue or was overtaken.                  *)
LEMMA RefusalWitnessed ==
    ASSUME FifoInv, NEW p \in Producers, pc[p] = "loadHead", LooksFull(seen[p], head)
    PROVE  p \in sawFull \cup overtaken
<1>1. CASE seen[p] # tail
  BY <1>1 DEF FifoInv, CallsWitnessed
<1>2. CASE seen[p] = tail
  <2>1. /\ head \in Nat /\ tail \in Nat /\ Capacity \in Nat \ {0}
        /\ head <= tail /\ tail - head < Capacity
    BY QueueAssumption DEF FifoInv, TypeOK, RingInv, Window
  <2>2. Cell(tail + 1) = Cell(head)
    BY <1>2 DEF LooksFull
  <2>3. ~(tail + 1 < head + Capacity)
    <3> SUFFICES ASSUME tail + 1 < head + Capacity PROVE FALSE
      OBVIOUS
    <3>1. head < tail + 1 /\ tail + 1 \in Nat
      BY <2>1
    <3>2. Cell(head) # Cell(tail + 1)
      BY <2>1, <3>1, CellDistinct
    <3> QED BY <2>2, <3>2
  <2>4. tail - head = Capacity - 1
    BY <2>1, <2>3
  <2>5. p \in Open
    BY DEF Open
  <2> QED BY <2>4, <2>5 DEF FifoInv, CallsWitnessed
<1> QED BY <1>1, <1>2

(* The abstract queue's open calls are the open calls of Enqueue.          *)
LEMMA SameOpen == TypeOK => FIFO!Open = Open
<1> SUFFICES ASSUME TypeOK PROVE FIFO!Open = Open
  OBVIOUS
<1>1. \A p \in Producers : p \in Procs /\ pc[p] \in {"loadTail", "loadHead", "casTail"}
                           => Phase(p) = "open"
  BY DEF Phase, Procs
<1>2. ASSUME NEW p \in Producers, Phase(p) = "open"
      PROVE  pc[p] \in {"loadTail", "loadHead", "casTail"}
  BY <1>2 DEF Phase, TypeOK, EnqueueLabels
<1> QED BY <1>1, <1>2 DEF FIFO!Open, Open, Procs

(* A step of Enqueue is a step of the abstract queue, or shows nothing.    *)
LEMMA EnqueueRefines ==
    ASSUME FifoInv, FifoInv', NEW p \in Producers,
           (\E x \in Items : CallEnqueue(p, x)) \/ EnqueueStep(p)
    PROVE  [FIFO!Next]_FIFO!fifoVars
<1>1. /\ p \in Procs /\ p \notin Consumers
      /\ pc \in [Procs -> {"idle"} \cup EnqueueLabels \cup DequeueLabels]
      /\ hand \in [Procs -> Items \cup {NoItem}]
      /\ (pc[p] # "idle" => hand[p] \in Items) /\ NoItem \notin Items
  BY QueueAssumption DEF FifoInv, TypeOK, Procs
<1>2. \A r \in Procs \ {p} : Phase(r)' = Phase(r) /\ Carried(r)' = Carried(r)
  BY <1>1, OthersKept
<1>3. /\ head \in Nat /\ tail \in Nat /\ Capacity \in Nat \ {0}
      /\ Len(Contents) = tail - head /\ Len(Contents') = tail' - head'
  BY QueueAssumption, ContentsIs, ContentsIsNext
     DEF FifoInv, TypeOK, ContentsSound
<1> DEFINE phase == [r \in Procs |-> Phase(r)]
           carried == [r \in Procs |-> Carried(r)]
<1>4. ASSUME NEW x \in Items, CallEnqueue(p, x) PROVE FIFO!CallEnqueue(p, x)
  <2>1. /\ pc[p] = "idle" /\ pc'[p] = "loadTail" /\ hand'[p] = x
        /\ x \in outside /\ outside' = outside \ {x}
        /\ sawFull' = IF tail - head = Capacity - 1 THEN sawFull \cup {p} ELSE sawFull
        /\ UNCHANGED <<head, tail, enqueued, overtaken>>
    BY <1>1, <1>4 DEF CallEnqueue, Goto, shared
  <2>2. Phase(p) = "idle" /\ Phase(p)' = "open" /\ Carried(p)' = x
    BY <1>1, <2>1 DEF Phase, Carried
  <2>3. /\ phase[p] = "idle" /\ phase' = [phase EXCEPT ![p] = "open"]
        /\ carried' = [carried EXCEPT ![p] = x]
    BY <1>1, <1>2, <2>2, FifoMoves
  <2>4. Contents' = Contents
    BY <2>1 DEF Contents
  <2> HIDE DEF Phase, Carried, Contents
  <2> QED BY <1>3, <2>1, <2>3, <2>4 DEF FIFO!CallEnqueue
<1>5. CASE LoadTail(p) \/ (LoadHead(p) /\ ~LooksFull(seen[p], head))
           \/ (CasTail(p) /\ seen[p] # tail)
  <2>1. /\ pc[p] \in {"loadTail", "loadHead", "casTail"}
        /\ pc'[p] \in {"loadTail", "loadHead", "casTail"} /\ hand' = hand
        /\ UNCHANGED <<head, tail, enqueued, outside, sawFull, overtaken>>
    BY <1>1, <1>5 DEF LoadTail, LoadHead, CasTail, Goto, shared, history
  <2>2. Phase(p)' = Phase(p) /\ Carried(p)' = Carried(p)
    BY <1>1, <2>1 DEF Phase, Carried
  <2>3. \A r \in Procs : Phase(r)' = Phase(r) /\ Carried(r)' = Carried(r)
    BY <1>2, <2>2
  <2> QED BY <2>1, <2>3, FifoStutters
<1>6. CASE LoadHead(p) /\ LooksFull(seen[p], head)
  <2>1. /\ pc[p] = "loadHead" /\ pc'[p] = "refused" /\ hand' = hand
        /\ UNCHANGED <<head, tail, enqueued, outside, sawFull, overtaken>>
    BY <1>1, <1>6 DEF LoadHead, Goto, shared, history
  <2>2. /\ Phase(p) = "open" /\ Phase(p)' = "closing"
        /\ Carried(p)' = Carried(p)
    BY <1>1, <2>1 DEF Phase, Carried
  <2>3. /\ phase[p] = "open" /\ phase' = [phase EXCEPT ![p] = "closing"]
        /\ carried' = carried
    BY <1>1, <1>2, <2>2, FifoMoves
  <2>4. Contents' = Contents
    BY <2>1 DEF Contents
  <2>5. p \in sawFull \cup overtaken
    BY <1>6, <2>1, RefusalWitnessed
  <2>6. FIFO!Refuse(p)
    <3> HIDE DEF Phase, Carried, Contents
    <3> QED BY <2>1, <2>3, <2>4, <2>5 DEF FIFO!Refuse
  <2> QED BY <2>6 DEF FIFO!Next
<1>7. CASE CasTail(p) /\ seen[p] = tail
  <2>1. /\ pc[p] = "casTail" /\ pc'[p] = "store" /\ hand' = hand
        /\ tail' = tail + 1 /\ enqueued' = Append(enqueued, hand[p])
        /\ sawFull' = IF tail' - head = Capacity - 1
                      THEN sawFull \cup (Open \ {p}) ELSE sawFull
        /\ overtaken' = overtaken \cup (Open \ {p})
        /\ UNCHANGED <<head, outside>>
    BY <1>1, <1>7 DEF CasTail, Goto
  <2>2. /\ Phase(p) = "open" /\ Phase(p)' = "closing"
        /\ Carried(p) = hand[p] /\ Carried(p)' = NoItem
    BY <1>1, <2>1 DEF Phase, Carried
  <2>3. /\ phase[p] = "open" /\ phase' = [phase EXCEPT ![p] = "closing"]
        /\ carried' = [carried EXCEPT ![p] = NoItem]
    BY <1>1, <1>2, <2>2, FifoMoves
  <2>4. carried[p] = hand[p]
    <3> HIDE DEF Carried
    <3> QED BY <1>1, <2>2
  <2>5. Contents' = Append(Contents, hand[p])
    BY <1>1, <2>1, ContentsGrow
  <2>6. Len(Contents) < Capacity - 1
    BY <1>3, <1>7, <2>1 DEF FifoInv, RingInv, ProducersSound
  <2>7. FIFO!Open = Open
    BY SameOpen DEF FifoInv
  <2>8. Len(Contents') = tail' - head
    BY <1>3, <2>1
  <2>9. FIFO!Accept(p)
    <3> HIDE DEF Phase, Carried, Contents
    <3> QED BY <2>1, <2>3, <2>4, <2>5, <2>6, <2>7, <2>8 DEF FIFO!Accept
  <2> QED BY <2>9 DEF FIFO!Next
<1>8. CASE Store(p) \/ ReturnFalse(p)
  <2>1. /\ pc[p] \in {"store", "refused"} /\ pc'[p] = "idle" /\ hand'[p] = NoItem
        /\ sawFull' = sawFull \ {p} /\ overtaken' = overtaken \ {p}
        /\ outside' = outside \cup (IF pc[p] = "store" THEN {} ELSE {hand[p]})
        /\ UNCHANGED <<head, tail, enqueued>>
    BY <1>1, <1>8 DEF Store, ReturnFalse, LeaveEnqueue, Goto
  <2>2. /\ Phase(p) = "closing" /\ Phase(p)' = "idle" /\ Carried(p)' = NoItem
        /\ Carried(p) = IF pc[p] = "store" THEN NoItem ELSE hand[p]
    BY <1>1, <2>1 DEF Phase, Carried
  <2>3. /\ phase[p] = "closing" /\ phase' = [phase EXCEPT ![p] = "idle"]
        /\ carried' = [carried EXCEPT ![p] = NoItem]
    BY <1>1, <1>2, <2>2, FifoMoves
  <2>4. outside' = outside \cup ({carried[p]} \ {NoItem})
    <3>1. carried[p] = IF pc[p] = "store" THEN NoItem ELSE hand[p]
      <4> HIDE DEF Carried
      <4> QED BY <1>1, <2>2
    <3> HIDE DEF carried
    <3> QED BY <1>1, <2>1, <3>1
  <2>5. Contents' = Contents
    BY <2>1 DEF Contents
  <2>6. FIFO!ReturnEnqueue(p)
    <3> HIDE DEF Phase, Carried, Contents
    <3> QED BY <2>1, <2>3, <2>4, <2>5 DEF FIFO!ReturnEnqueue
  <2> QED BY <2>6 DEF FIFO!Next
<1>9. CASE \E x \in Items : CallEnqueue(p, x)
  BY <1>4, <1>9 DEF FIFO!Next
<1> HIDE DEF phase, carried
<1>10. CASE LoadHead(p)
  BY <1>5, <1>6, <1>10
<1>11. CASE CasTail(p)
  BY <1>5, <1>7, <1>11
<1> QED BY <1>5, <1>8, <1>9, <1>10, <1>11 DEF EnqueueStep

(* The consumer has found the queue empty.                                 *)
LEMMA EmptyWitnessed ==
    ASSUME FifoInv, NEW c \in Consumers, pc[c] = "dLoadTail", seen[c] = tail
    PROVE  Contents = <<>>
<1>1. head = tail
  BY DEF FifoInv, RingInv, ConsumersSound
<1>2. Contents \in Seq(Items) /\ Len(Contents) = tail - head /\ tail \in Nat
  BY ContentsIs DEF ContentsSound, FifoInv, TypeOK
<1> HIDE DEF Contents
<1>3. Len(Contents) = 0
  BY <1>1, <1>2
<1> QED BY <1>2, <1>3

(* A step of Dequeue is a step of the abstract queue, or shows nothing.    *)
LEMMA DequeueRefines ==
    ASSUME FifoInv, FifoInv', NEW c \in Consumers, DequeueStep(c)
    PROVE  [FIFO!Next]_FIFO!fifoVars
<1>1. /\ c \in Procs /\ c \notin Producers
      /\ pc \in [Procs -> {"idle"} \cup EnqueueLabels \cup DequeueLabels]
      /\ hand \in [Procs -> Items \cup {NoItem}]
      /\ pc[c] \in {"idle"} \cup DequeueLabels
      /\ pc[c] \notin {"dCasHead", "dClear", "dDone"} => hand[c] = NoItem
  BY QueueAssumption DEF FifoInv, TypeOK, Procs, ConsumerHands
<1>2. \A r \in Procs \ {c} : Phase(r)' = Phase(r) /\ Carried(r)' = Carried(r)
  BY <1>1, OthersKept
<1>3. /\ pc[c] \in {"dReloadTail", "dCasHead"} => head < tail
      /\ pc[c] \in {"dReloadTail", "dCasHead"} => seen[c] = head
      /\ pc[c] = "dCasHead" => hand[c] = enqueued[head + 1]
      /\ head \in Nat /\ tail \in Nat
  BY DEF FifoInv, TypeOK, RingInv, ConsumersSound
<1> DEFINE phase == [r \in Procs |-> Phase(r)]
           carried == [r \in Procs |-> Carried(r)]
<1>4. CASE CallDequeue(c)
  <2>1. /\ pc[c] = "idle" /\ pc'[c] = "dLoadHead" /\ hand' = hand
        /\ UNCHANGED <<head, tail, enqueued, outside, sawFull, overtaken>>
    BY <1>1, <1>4 DEF CallDequeue, Goto, shared, history
  <2>2. Phase(c) = "idle" /\ Phase(c)' = "open" /\ Carried(c)' = Carried(c)
    BY <1>1, <2>1 DEF Phase, Carried
  <2>3. /\ phase[c] = "idle" /\ phase' = [phase EXCEPT ![c] = "open"]
        /\ carried' = carried
    BY <1>1, <1>2, <2>2, FifoMoves
  <2>4. Contents' = Contents
    BY <2>1 DEF Contents
  <2>5. FIFO!CallDequeue(c)
    <3> HIDE DEF Phase, Carried, Contents
    <3> QED BY <2>1, <2>3, <2>4 DEF FIFO!CallDequeue
  <2> QED BY <2>5 DEF FIFO!Next
<1>5. CASE DLoadTail(c) /\ seen[c] = tail
  <2>1. /\ pc[c] = "dLoadTail" /\ pc'[c] = "dDone" /\ hand' = hand
        /\ UNCHANGED <<head, tail, enqueued, outside, sawFull, overtaken>>
    BY <1>1, <1>5 DEF DLoadTail, Goto, shared, history
  <2>2. Phase(c) = "open" /\ Phase(c)' = "closing" /\ Carried(c)' = Carried(c)
    BY <1>1, <2>1 DEF Phase, Carried
  <2>3. /\ phase[c] = "open" /\ phase' = [phase EXCEPT ![c] = "closing"]
        /\ carried' = carried
    BY <1>1, <1>2, <2>2, FifoMoves
  <2>4. Contents' = Contents
    BY <2>1 DEF Contents
  <2>5. Contents = <<>>
    BY <1>5, <2>1, EmptyWitnessed
  <2>6. FIFO!FindEmpty(c)
    <3> HIDE DEF Phase, Carried, Contents
    <3> QED BY <2>1, <2>3, <2>4, <2>5 DEF FIFO!FindEmpty
  <2> QED BY <2>6 DEF FIFO!Next
<1>6. CASE DLoadHead(c) \/ (DLoadTail(c) /\ seen[c] # tail) \/ DLoadCell(c)
           \/ DReloadHead(c) \/ DReloadTail(c)
  <2>1. /\ pc[c] \in DequeueLabels \ {"dClear", "dDone"}
        /\ pc'[c] \in DequeueLabels \ {"dClear", "dDone"}
        /\ UNCHANGED <<head, tail, enqueued, outside, sawFull, overtaken>>
    BY <1>1, <1>3, <1>6
       DEF DLoadHead, DLoadTail, DLoadCell, DReloadHead, DReloadTail, Goto, shared,
           history, DequeueLabels
  <2>2. Phase(c)' = Phase(c) /\ Carried(c)' = Carried(c)
    BY <1>1, <2>1 DEF Phase, Carried, DequeueLabels
  <2>3. \A r \in Procs : Phase(r)' = Phase(r) /\ Carried(r)' = Carried(r)
    BY <1>2, <2>2
  <2> QED BY <2>1, <2>3, FifoStutters
<1>7. CASE DCasHead(c)
  <2>1. /\ pc[c] = "dCasHead" /\ pc'[c] = "dClear" /\ hand' = hand
        /\ head' = head + 1 /\ hand[c] = enqueued[head + 1]
        /\ UNCHANGED <<tail, enqueued, outside, sawFull, overtaken>>
    BY <1>1, <1>3, <1>7 DEF DCasHead, Goto
  <2>2. Phase(c) = "open" /\ Phase(c)' = "closing" /\ Carried(c)' = hand[c]
    BY <1>1, <2>1 DEF Phase, Carried
  <2>3. /\ phase[c] = "open" /\ phase' = [phase EXCEPT ![c] = "closing"]
        /\ carried' = [carried EXCEPT ![c] = hand[c]]
    BY <1>1, <1>2, <2>2, FifoMoves
  <2>4. /\ Contents # <<>> /\ Head(Contents) = hand[c]
        /\ Contents' = Tail(Contents)
    BY <2>1, ContentsShrink
  <2>5. FIFO!Take(c)
    <3> HIDE DEF Phase, Carried, Contents
    <3> QED BY <2>1, <2>3, <2>4 DEF FIFO!Take
  <2> QED BY <2>5 DEF FIFO!Next
<1>8. CASE DClear(c)
  <2>1. /\ pc[c] = "dClear" /\ pc'[c] = "dDone" /\ hand' = hand
        /\ UNCHANGED <<head, tail, enqueued, outside, sawFull, overtaken>>
    BY <1>1, <1>8 DEF DClear, Goto, history
  <2>2. Phase(c)' = Phase(c) /\ Carried(c)' = Carried(c)
    BY <1>1, <2>1 DEF Phase, Carried
  <2>3. \A r \in Procs : Phase(r)' = Phase(r) /\ Carried(r)' = Carried(r)
    BY <1>2, <2>2
  <2> QED BY <2>1, <2>3, FifoStutters
<1>9. CASE ReturnDequeue(c)
  <2>1. /\ pc[c] = "dDone" /\ pc'[c] = "idle" /\ hand'[c] = NoItem
        /\ UNCHANGED <<head, tail, enqueued, outside, sawFull, overtaken>>
    BY <1>1, <1>9 DEF ReturnDequeue, Goto, shared, history
  <2>2. Phase(c) = "closing" /\ Phase(c)' = "idle" /\ Carried(c)' = NoItem
    BY <1>1, <2>1 DEF Phase, Carried
  <2>3. /\ phase[c] = "closing" /\ phase' = [phase EXCEPT ![c] = "idle"]
        /\ carried' = [carried EXCEPT ![c] = NoItem]
    BY <1>1, <1>2, <2>2, FifoMoves
  <2>4. Contents' = Contents
    BY <2>1 DEF Contents
  <2>5. FIFO!ReturnDequeue(c)
    <3> HIDE DEF Phase, Carried, Contents
    <3> QED BY <2>1, <2>3, <2>4 DEF FIFO!ReturnDequeue
  <2> QED BY <2>5 DEF FIFO!Next
<1> HIDE DEF phase, carried
<1>10. CASE DLoadTail(c)
  BY <1>5, <1>6, <1>10
<1> QED BY <1>4, <1>6, <1>7, <1>8, <1>9, <1>10 DEF DequeueStep

(* The ring implements BoundedFIFO for every number of producers, set of   *)
(* items and capacity: Enqueue and Dequeue take effect at one instant of   *)
(* the call (the CAS of queue.go:56 and queue.go:94, or the check that     *)
(* fails), in FIFO order, and a refusal has one of its two reasons.        *)
THEOREM QueueImplementsFIFO == SingleConsumer => (Spec => ImplementsFIFO)
<1> SUFFICES ASSUME SingleConsumer PROVE Spec => ImplementsFIFO
  OBVIOUS
<1>1. Init => FIFO!Init
  <2> SUFFICES ASSUME Init PROVE FIFO!Init
    OBVIOUS
  <2>1. Contents = <<>>
    BY DEF Init, Contents
  <2>2. \A r \in Procs : Phase(r) = "idle" /\ Carried(r) = NoItem
    BY DEF Init, Phase, Carried
  <2> HIDE DEF Phase, Carried, Contents
  <2> QED BY <2>1, <2>2 DEF Init, FIFO!Init, Procs, FIFO!Procs
<1>2. FifoInv /\ FifoInv' /\ [Next]_vars => [FIFO!Next]_FIFO!fifoVars
  <2> SUFFICES ASSUME FifoInv, FifoInv', [Next]_vars
               PROVE  [FIFO!Next]_FIFO!fifoVars
    OBVIOUS
  <2>1. ASSUME NEW p \in Producers,
               (\E x \in Items : CallEnqueue(p, x)) \/ EnqueueStep(p)
        PROVE  [FIFO!Next]_FIFO!fifoVars
    BY <2>1, EnqueueRefines
  <2>2. ASSUME NEW c \in Consumers, DequeueStep(c)
        PROVE  [FIFO!Next]_FIFO!fifoVars
    BY <2>2, DequeueRefines
  <2>3. CASE UNCHANGED vars
    <3>1. \A r \in Procs : Phase(r)' = Phase(r) /\ Carried(r)' = Carried(r)
      BY <2>3 DEF vars, Phase, Carried
    <3> QED BY <2>3, <3>1, FifoStutters DEF vars, shared, history
  <2> QED BY <2>1, <2>2, <2>3 DEF Next
<1>3. Spec => []FifoInv
  BY FifoCorrect
<1> QED BY <1>1, <1>2, <1>3, PTL DEF Spec, ImplementsFIFO, FIFO!Spec
=============================================================================
