--------------------------- MODULE LockFreeQueue ---------------------------
(***************************************************************************)
(* internal/queue/queue.go: the ring buffer behind the pool's global task  *)
(* queue and the scheduler's priority queues, one atomic load, store or    *)
(* compare-and-swap per step.  A producer first reserves a position by     *)
(* moving tail and only then stores its pointer; a consumer first moves    *)
(* head and only then clears the cell.                                     *)
(*                                                                         *)
(* head and tail are uint64 counters in the code.  The capacity is a power *)
(* of two, so "& mask" is "% Capacity" and wrapping at 2^64 changes no     *)
(* index; they are natural numbers here.                                   *)
(***************************************************************************)
EXTENDS Naturals, Sequences, SequencesExt

CONSTANTS Producers,   \* goroutines that call Enqueue
          Consumers,   \* goroutines that call Dequeue
          Items,       \* the pointers offered to the queue, each one once
          NoItem,      \* the nil pointer
          Capacity     \* len(buffer), a power of two

ASSUME QueueAssumption ==
    /\ Capacity \in Nat \ {0}
    /\ NoItem \notin Items
    /\ Producers \cap Consumers = {}

VARIABLES buffer,      \* the cells
          head, tail,  \* the two counters
          pc,          \* the next instruction of each process
          seen,        \* the local copy a process will give to its CAS
          hand,        \* the local variable item of each process
          outside,     \* items no call carries and the queue never accepted
          enqueued,    \* history: items in the order tail admitted them
          dequeued,    \* history: items in the order head released them
          sawFull,     \* history: open Enqueues during which it was full
          overtaken    \* history: open Enqueues another Enqueue overtook

shared  == <<buffer, head, tail>>
history == <<enqueued, dequeued, sawFull, overtaken>>
vars    == <<shared, pc, seen, hand, outside, history>>

Procs == Producers \cup Consumers

EnqueueLabels == {"loadTail", "loadHead", "casTail", "store", "refused"}
DequeueLabels == {"dLoadHead", "dLoadTail", "dLoadCell", "dReloadHead",
                  "dReloadTail", "dCasHead", "dClear", "dDone"}

Cell(position) == position % Capacity

(* The calls of Enqueue that have not taken effect yet.                    *)
Open == {p \in Producers : pc[p] \in {"loadTail", "loadHead", "casTail"}}

Goto(q, label) == pc' = [pc EXCEPT ![q] = label]

Init ==
    /\ buffer = [i \in 0 .. Capacity - 1 |-> NoItem]
    /\ head = 0
    /\ tail = 0
    /\ pc = [q \in Procs |-> "idle"]
    /\ seen = [q \in Procs |-> 0]
    /\ hand = [q \in Procs |-> NoItem]
    /\ outside = Items
    /\ enqueued = <<>>
    /\ dequeued = <<>>
    /\ sawFull = {}
    /\ overtaken = {}
-----------------------------------------------------------------------------
(* Enqueue.  A nil item is refused before anything is read (queue.go:40);  *)
(* items here are not nil, as those of every caller.                       *)

CallEnqueue(p, x) ==
    /\ pc[p] = "idle"
    /\ x \in outside
    /\ Goto(p, "loadTail")
    /\ hand' = [hand EXCEPT ![p] = x]
    /\ outside' = outside \ {x}
    /\ sawFull' = IF tail - head = Capacity - 1 THEN sawFull \cup {p}
                                                ELSE sawFull
    /\ UNCHANGED <<shared, seen, enqueued, dequeued, overtaken>>

LoadTail(p) ==
    /\ pc[p] = "loadTail"
    /\ seen' = [seen EXCEPT ![p] = tail]
    /\ Goto(p, "loadHead")
    /\ UNCHANGED <<shared, hand, outside, history>>

(* Variant: the check keeps no cell empty.                                 *)
LooksFullExactly(t, h) == t = h + Capacity

(* The check of queue.go:51: tail may be stale by the time head is read.   *)
LooksFull(t, h) == Cell(t + 1) = Cell(h)

LoadHead(p) ==
    /\ pc[p] = "loadHead"
    /\ IF LooksFull(seen[p], head) THEN Goto(p, "refused")
                                   ELSE Goto(p, "casTail")
    /\ UNCHANGED <<shared, seen, hand, outside, history>>

CasTail(p) ==
    /\ pc[p] = "casTail"
    /\ IF seen[p] = tail
       THEN /\ tail' = tail + 1
            /\ Goto(p, "store")
            /\ enqueued' = Append(enqueued, hand[p])
            /\ sawFull' = IF tail' - head = Capacity - 1
                          THEN sawFull \cup (Open \ {p}) ELSE sawFull
            /\ overtaken' = overtaken \cup (Open \ {p})
       ELSE /\ Goto(p, "loadTail")
            /\ UNCHANGED <<tail, enqueued, sawFull, overtaken>>
    /\ UNCHANGED <<buffer, head, seen, hand, outside, dequeued>>

(* Variant: a refused call tries again after it gave its item up.          *)
RetryEmptyHanded(p) ==
    /\ Goto(p, "loadTail")
    /\ seen' = [seen EXCEPT ![p] = 0]
    /\ hand' = [hand EXCEPT ![p] = NoItem]
    /\ UNCHANGED <<head, tail, history>>

(* Return from Enqueue: the locals die, a refused item is the caller's.    *)
LeaveEnqueue(p) ==
    /\ Goto(p, "idle")
    /\ seen' = [seen EXCEPT ![p] = 0]
    /\ hand' = [hand EXCEPT ![p] = NoItem]
    /\ sawFull' = sawFull \ {p}
    /\ overtaken' = overtaken \ {p}
    /\ UNCHANGED <<head, tail, enqueued, dequeued>>

(* Variant: the index is computed from the tail already moved.             *)
StoreNextCell(p) ==
    /\ pc[p] = "store"
    /\ buffer' = [buffer EXCEPT ![Cell(seen[p] + 1)] = hand[p]]
    /\ LeaveEnqueue(p)
    /\ UNCHANGED outside

Store(p) ==
    /\ pc[p] = "store"
    /\ buffer' = [buffer EXCEPT ![Cell(seen[p])] = hand[p]]
    /\ LeaveEnqueue(p)
    /\ UNCHANGED outside

ReturnFalse(p) ==
    /\ pc[p] = "refused"
    /\ outside' = outside \cup {hand[p]}
    /\ LeaveEnqueue(p)
    /\ UNCHANGED buffer
-----------------------------------------------------------------------------
(* Dequeue                                                                 *)

CallDequeue(c) ==
    /\ pc[c] = "idle"
    /\ Goto(c, "dLoadHead")
    /\ UNCHANGED <<shared, seen, hand, outside, history>>

DLoadHead(c) ==
    /\ pc[c] = "dLoadHead"
    /\ seen' = [seen EXCEPT ![c] = head]
    /\ Goto(c, "dLoadTail")
    /\ UNCHANGED <<shared, hand, outside, history>>

DLoadTail(c) ==
    /\ pc[c] = "dLoadTail"
    /\ IF seen[c] = tail THEN Goto(c, "dDone") ELSE Goto(c, "dLoadCell")
    /\ UNCHANGED <<shared, seen, hand, outside, history>>

(* Variant: the nil check is missing.                                      *)
DLoadCellUnchecked(c) ==
    /\ pc[c] = "dLoadCell"
    /\ hand' = [hand EXCEPT ![c] = buffer[Cell(seen[c])]]
    /\ Goto(c, "dCasHead")
    /\ UNCHANGED <<shared, seen, outside, history>>

DLoadCell(c) ==
    /\ pc[c] = "dLoadCell"
    /\ LET item == buffer[Cell(seen[c])] IN
         /\ hand' = [hand EXCEPT ![c] = item]
         /\ Goto(c, IF item = NoItem THEN "dReloadHead" ELSE "dCasHead")
    /\ UNCHANGED <<shared, seen, outside, history>>

(* Variant: an item that is not stored yet is taken for an empty queue.    *)
GiveUpOnReserved(c) ==
    /\ pc[c] = "dReloadTail"
    /\ Goto(c, "dDone")
    /\ UNCHANGED <<shared, seen, hand, outside, history>>

(* The cell is reserved but not stored yet: newHead, then newTail.         *)
DReloadHead(c) ==
    /\ pc[c] = "dReloadHead"
    /\ seen' = [seen EXCEPT ![c] = head]
    /\ Goto(c, "dReloadTail")
    /\ UNCHANGED <<shared, hand, outside, history>>

DReloadTail(c) ==
    /\ pc[c] = "dReloadTail"
    /\ IF seen[c] = tail THEN Goto(c, "dDone") ELSE Goto(c, "dLoadHead")
    /\ UNCHANGED <<shared, seen, hand, outside, history>>

DCasHead(c) ==
    /\ pc[c] = "dCasHead"
    /\ IF seen[c] = head
       THEN /\ head' = head + 1
            /\ dequeued' = Append(dequeued, hand[c])
            /\ Goto(c, "dClear")
            /\ UNCHANGED hand
       ELSE /\ Goto(c, "dLoadHead")
            /\ hand' = [hand EXCEPT ![c] = NoItem]
            /\ UNCHANGED <<head, dequeued>>
    /\ UNCHANGED <<buffer, tail, seen, outside, enqueued, sawFull, overtaken>>

(* Variant: the cell keeps its pointer.                                    *)
DClearNot(c) ==
    /\ pc[c] = "dClear"
    /\ Goto(c, "dDone")
    /\ UNCHANGED <<shared, seen, hand, outside, history>>

DClear(c) ==
    /\ pc[c] = "dClear"
    /\ buffer' = [buffer EXCEPT ![Cell(seen[c])] = NoItem]
    /\ Goto(c, "dDone")
    /\ UNCHANGED <<head, tail, seen, hand, outside, history>>

(* Return the item, or nil when hand is empty.                             *)
ReturnDequeue(c) ==
    /\ pc[c] = "dDone"
    /\ Goto(c, "idle")
    /\ seen' = [seen EXCEPT ![c] = 0]
    /\ hand' = [hand EXCEPT ![c] = NoItem]
    /\ UNCHANGED <<shared, outside, history>>
-----------------------------------------------------------------------------
EnqueueStep(p) ==
    LoadTail(p) \/ LoadHead(p) \/ CasTail(p) \/ Store(p) \/ ReturnFalse(p)

DequeueStep(c) ==
    \/ CallDequeue(c) \/ DLoadHead(c) \/ DLoadTail(c) \/ DLoadCell(c)
    \/ DReloadHead(c) \/ DReloadTail(c) \/ DCasHead(c) \/ DClear(c)
    \/ ReturnDequeue(c)

Next ==
    \/ \E p \in Producers :
          (\E x \in Items : CallEnqueue(p, x)) \/ EnqueueStep(p)
    \/ \E c \in Consumers : DequeueStep(c)

Spec == Init /\ [][Next]_vars

(* A goroutine inside a call keeps running, and the scheduling loop that   *)
(* consumes the queue calls Dequeue again at every tick (pool.go:1232,     *)
(* scheduler.go:207); nobody is obliged to call Enqueue.                   *)
Fairness ==
    /\ \A p \in Producers : WF_vars(EnqueueStep(p))
    /\ \A c \in Consumers : WF_vars(DequeueStep(c))
-----------------------------------------------------------------------------
(* Type invariant.                                                         *)
TypeOK ==
    /\ buffer \in [0 .. Capacity - 1 -> Items \cup {NoItem}]
    /\ head \in Nat
    /\ tail \in Nat
    /\ pc \in [Procs -> {"idle"} \cup EnqueueLabels \cup DequeueLabels]
    /\ \A p \in Producers : pc[p] \in {"idle"} \cup EnqueueLabels
    /\ \A c \in Consumers : pc[c] \in {"idle"} \cup DequeueLabels
    /\ seen \in [Procs -> Nat]
    /\ hand \in [Procs -> Items \cup {NoItem}]
    /\ \A p \in Producers : pc[p] # "idle" => hand[p] \in Items
    /\ outside \subseteq Items
    /\ enqueued \in Seq(Items)
    /\ dequeued \in Seq(Items \cup {NoItem})
    /\ sawFull \subseteq Producers
    /\ overtaken \subseteq Producers

(* What the pool relies on: one goroutine consumes each queue (the loop    *)
(* pool.go:1222, and after it has been waited for, clearPendingTasks).     *)
SingleConsumer == \A c, d \in Consumers : c = d

(* The items come out in the order tail admitted them: nothing is skipped, *)
(* invented, duplicated or reordered by Dequeue (queue.go:94-97).          *)
DeliveredInOrder == IsPrefix(dequeued, enqueued)

(* Enqueue never writes over a pointer (queue.go:59): the cell a producer  *)
(* reserved was cleared by the consumer that emptied it a lap earlier.     *)
StoresIntoClearedCell ==
    [][\A p \in Producers : Store(p) => buffer[Cell(seen[p])] = NoItem]_vars

(* An accepted item is not erased: until it is dequeued it is in a cell or *)
(* in the hands of the producer about to store it (queue.go:56-60, 96).    *)
NothingLost ==
    \A i \in DOMAIN enqueued :
        enqueued[i] \in ToSet(dequeued) \cup ToSet(buffer)
                        \cup {hand[p] : p \in {q \in Producers : pc[q] = "store"}}

(* Why one consumer is enough for all that.  The occupied positions are    *)
(* head .. tail-1, fewer than a lap.                                       *)
Window ==
    /\ head <= tail
    /\ tail - head < Capacity
    /\ Len(enqueued) = tail
    /\ Len(dequeued) = head
    /\ \A i \in 1 .. head : dequeued[i] = enqueued[i]

(* A producer that has reserved a position still owns its empty cell, and  *)
(* one whose CAS can succeed has seen a free position.                     *)
ProducersSound ==
    /\ \A p \in Producers :
          /\ pc[p] \in {"loadHead", "casTail"} => seen[p] <= tail
          /\ pc[p] = "casTail" /\ seen[p] = tail => tail - head < Capacity - 1
          /\ pc[p] = "store" =>
                /\ head <= seen[p]
                /\ seen[p] < tail
                /\ enqueued[seen[p] + 1] = hand[p]
                /\ buffer[Cell(seen[p])] = NoItem
    /\ \A p, q \in Producers :
          p # q /\ pc[p] = "store" /\ pc[q] = "store" => seen[p] # seen[q]

(* The consumer's copy of head is never stale, and what it read from the   *)
(* cell is the oldest accepted item.                                       *)
ConsumersSound ==
    \A c \in Consumers :
        /\ pc[c] \in {"dLoadTail", "dLoadCell", "dReloadHead",
                      "dReloadTail", "dCasHead"} => seen[c] = head
        /\ pc[c] \in {"dLoadCell", "dReloadHead", "dReloadTail", "dCasHead"} =>
              head < tail
        /\ pc[c] = "dCasHead" =>
              /\ hand[c] = enqueued[head + 1]
              /\ buffer[Cell(head)] = hand[c]
        /\ pc[c] = "dClear" => head = seen[c] + 1

(* The cells of the occupied positions hold their items or are about to;   *)
(* the others are empty but for the one the consumer is about to clear.    *)
CellsSound ==
    /\ \A j \in head .. tail - 1 :
          \/ buffer[Cell(j)] = enqueued[j + 1]
          \/ \E p \in Producers : pc[p] = "store" /\ seen[p] = j
    /\ \A j \in tail .. head + Capacity - 1 :
          \/ buffer[Cell(j)] = NoItem
          \/ j = head + Capacity - 1 /\ \E c \in Consumers : pc[c] = "dClear"

RingInv == Window /\ ProducersSound /\ ConsumersSound /\ CellsSound

(* The comment of Enqueue, "false: the queue is full" (queue.go:39): a     *)
(* call is refused only if the queue was full at some moment of the call.  *)
RefusedOnlyWhenFull ==
    \A p \in Producers : pc[p] = "refused" => p \in sawFull

(* Dequeue does not spin for ever on a cell that is reserved and not yet   *)
(* stored (queue.go:82-91).                                                *)
DequeueReturns ==
    \A c \in Consumers : pc[c] = "dLoadHead" ~> pc[c] = "dDone"

(* Every accepted item is handed to the consumer in the end.               *)
AcceptedIsDelivered ==
    \A x \in Items :
        x \in ToSet(enqueued) ~> x \in ToSet(dequeued)
-----------------------------------------------------------------------------
(* Refinement: an Enqueue takes effect when tail moves or when the check   *)
(* refuses it, a Dequeue when head moves or when it finds head = tail.     *)
Contents == SubSeq(enqueued, head + 1, tail)

Phase(q) ==
    CASE pc[q] = "idle" -> "idle"
      [] pc[q] \in {"store", "refused", "dClear", "dDone"} -> "closing"
      [] OTHER -> "open"

Carried(q) ==
    IF (q \in Consumers /\ Phase(q) = "open") \/ pc[q] = "store"
    THEN NoItem ELSE hand[q]

FIFO == INSTANCE BoundedFIFO WITH
            Limit <- Capacity - 1,
            contents <- Contents,
            phase <- [q \in Procs |-> Phase(q)],
            hand <- [q \in Procs |-> Carried(q)]

(* The queue implements BoundedFIFO: linearizable, and Enqueue refuses     *)
(* only when full or overtaken (the stale tail of queue.go:46).            *)
ImplementsFIFO == FIFO!Spec
=============================================================================
