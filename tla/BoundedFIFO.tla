---------------------------- MODULE BoundedFIFO ----------------------------
(***************************************************************************)
(* What a bounded multi-producer FIFO queue promises to its callers, with  *)
(* every operation taking effect at one instant between its call and its   *)
(* return.  It says nothing about cells, indices or atomic instructions:   *)
(* LockFreeQueue is shown to implement it through a refinement mapping.    *)
(*                                                                         *)
(* An item is always in exactly one place: outside (still to be offered),  *)
(* in the hand of the process whose call carries it, in the contents of    *)
(* the queue, or consumed.                                                 *)
(***************************************************************************)
EXTENDS Naturals, Sequences

CONSTANTS Producers,   \* processes that call Enqueue
          Consumers,   \* processes that call Dequeue
          Items,       \* the pointers that are queued
          NoItem,      \* the nil pointer
          Limit        \* how many items the queue can hold

VARIABLES contents,    \* the queued items, oldest first
          outside,     \* the items no one has offered yet, or got back
          phase,       \* "idle", "open" (called), "closing" (took effect)
          hand,        \* the item the call of a process carries
          sawFull,     \* producers whose open call has seen a full queue
          overtaken    \* producers whose open call another one overtook

fifoVars == <<contents, outside, phase, hand, sawFull, overtaken>>

Procs == Producers \cup Consumers

Open == {p \in Producers : phase[p] = "open"}

Init ==
    /\ contents = <<>>
    /\ outside = Items
    /\ phase = [q \in Procs |-> "idle"]
    /\ hand = [q \in Procs |-> NoItem]
    /\ sawFull = {}
    /\ overtaken = {}

CallEnqueue(p, x) ==
    /\ phase[p] = "idle"
    /\ x \in outside
    /\ outside' = outside \ {x}
    /\ phase' = [phase EXCEPT ![p] = "open"]
    /\ hand' = [hand EXCEPT ![p] = x]
    /\ sawFull' = IF Len(contents) = Limit THEN sawFull \cup {p} ELSE sawFull
    /\ UNCHANGED <<contents, overtaken>>

Accept(p) ==
    /\ phase[p] = "open"
    /\ Len(contents) < Limit
    /\ contents' = Append(contents, hand[p])
    /\ phase' = [phase EXCEPT ![p] = "closing"]
    /\ hand' = [hand EXCEPT ![p] = NoItem]
    /\ sawFull' = IF Len(contents') = Limit THEN sawFull \cup (Open \ {p})
                                            ELSE sawFull
    /\ overtaken' = overtaken \cup (Open \ {p})
    /\ UNCHANGED outside

(* A call may be refused only if the queue was full at some moment of the  *)
(* call, or if another producer's item got in while it was open.           *)
Refuse(p) ==
    /\ phase[p] = "open"
    /\ p \in sawFull \cup overtaken
    /\ phase' = [phase EXCEPT ![p] = "closing"]
    /\ UNCHANGED <<contents, outside, hand, sawFull, overtaken>>

ReturnEnqueue(p) ==
    /\ phase[p] = "closing"
    /\ outside' = outside \cup ({hand[p]} \ {NoItem})
    /\ phase' = [phase EXCEPT ![p] = "idle"]
    /\ hand' = [hand EXCEPT ![p] = NoItem]
    /\ sawFull' = sawFull \ {p}
    /\ overtaken' = overtaken \ {p}
    /\ UNCHANGED contents

CallDequeue(c) ==
    /\ phase[c] = "idle"
    /\ phase' = [phase EXCEPT ![c] = "open"]
    /\ UNCHANGED <<contents, outside, hand, sawFull, overtaken>>

Take(c) ==
    /\ phase[c] = "open"
    /\ contents # <<>>
    /\ hand' = [hand EXCEPT ![c] = Head(contents)]
    /\ contents' = Tail(contents)
    /\ phase' = [phase EXCEPT ![c] = "closing"]
    /\ UNCHANGED <<outside, sawFull, overtaken>>

(* nil is answered only by a queue that is empty at that instant.          *)
FindEmpty(c) ==
    /\ phase[c] = "open"
    /\ contents = <<>>
    /\ phase' = [phase EXCEPT ![c] = "closing"]
    /\ UNCHANGED <<contents, outside, hand, sawFull, overtaken>>

ReturnDequeue(c) ==
    /\ phase[c] = "closing"
    /\ phase' = [phase EXCEPT ![c] = "idle"]
    /\ hand' = [hand EXCEPT ![c] = NoItem]
    /\ UNCHANGED <<contents, outside, sawFull, overtaken>>

Next ==
    \/ \E p \in Producers :
          \/ \E x \in Items : CallEnqueue(p, x)
          \/ Accept(p) \/ Refuse(p) \/ ReturnEnqueue(p)
    \/ \E c \in Consumers :
          CallDequeue(c) \/ Take(c) \/ FindEmpty(c) \/ ReturnDequeue(c)

Spec == Init /\ [][Next]_fifoVars
=============================================================================
