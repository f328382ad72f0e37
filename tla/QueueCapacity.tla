--------------------------- MODULE QueueCapacity ---------------------------
(***************************************************************************)
(* The arithmetic of internal/queue/queue.go, which LockFreeQueue assumes: *)
(* NewLockFreeQueue rounds its capacity up to a power of two, cells are    *)
(* found with a mask, and head and tail are machine words that wrap.  One  *)
(* goroutine uses the queue; words have Width bits instead of 64.          *)
(***************************************************************************)
EXTENDS Integers

CONSTANT Width

(* The default capacity has a place in a word.                             *)
ASSUME WidthAssumption == Width \in 5 .. 64

VARIABLES
    requested,  \* the argument of NewLockFreeQueue, or NoQueue
    capacity,   \* capacity; buffer has as many cells
    head, tail, \* the positions, words
    held        \* history: how many items are in the queue

capacityVars == <<requested, capacity, head, tail, held>>

NoQueue == -1
Default == 16

PowerOfTwo[k \in 0 .. Width] == IF k = 0 THEN 1 ELSE 2 * PowerOfTwo[k - 1]

Word(n) == n % PowerOfTwo[Width]
Words   == 0 .. PowerOfTwo[Width] - 1

(* The places where a word has a one, and the word that has them there.    *)
Places       == 0 .. Width - 1
Ones(n)      == {k \in Places : (n \div PowerOfTwo[k]) % 2 = 1}
WordOf(ones) == CHOOSE n \in Words : Ones(n) = ones

(* n & m, and n | (n >> k).                                                *)
And(n, m)       == WordOf(Ones(n) \cap Ones(m))
ShiftedIn(n, k) == WordOf({i \in Places : {i, i + k} \cap Ones(n) # {}})

CapacityInit ==
    requested = NoQueue /\ capacity = 1 /\ head = 0 /\ tail = 0 /\ held = 0

-----------------------------------------------------------------------------
(* Variant: the later shifts are missing.                                  *)
SmearedShort(n) == ShiftedIn(ShiftedIn(n, 1), 2)

(* Every bit below the highest one is set.                                 *)
Smeared(n) ==
    LET upTo2 == ShiftedIn(ShiftedIn(n, 1), 2)
        upTo8 == ShiftedIn(ShiftedIn(upTo2, 4), 8)
    IN  ShiftedIn(ShiftedIn(upTo8, 16), 32)

NextPowerOfTwo(n) ==
    IF n = 0 THEN 1
    ELSE IF And(n, n - 1) = 0 THEN n
    ELSE Word(Smeared(n - 1) + 1)

NewLockFreeQueue(n) ==
    /\ requested = NoQueue
    /\ requested' = n
    /\ capacity' = Word(NextPowerOfTwo(IF n = 0 THEN Default ELSE n))
    /\ UNCHANGED <<head, tail, held>>

Usable == requested # NoQueue /\ capacity # 0
Mask == Word(capacity - 1)
Masked(position) == And(Word(position), Mask)

IsFull == Masked(tail + 1) = Masked(head)
IsEmpty == head = tail
Size == Masked(tail - head)

Enqueue ==
    /\ Usable /\ ~IsFull
    /\ tail' = Word(tail + 1)
    /\ held' = held + 1
    /\ UNCHANGED <<requested, capacity, head>>

Dequeue ==
    /\ Usable /\ ~IsEmpty
    /\ head' = Word(head + 1)
    /\ held' = held - 1
    /\ UNCHANGED <<requested, capacity, tail>>

CapacityNext == (\E n \in Words : NewLockFreeQueue(n)) \/ Enqueue \/ Dequeue

CapacitySpec == CapacityInit /\ [][CapacityNext]_capacityVars

-----------------------------------------------------------------------------
Powers == {PowerOfTwo[k] : k \in Places}

(* The capacity is the least power of two that is not below what was asked *)
(* for, and 0 when that has no place in a word (queue.go:130-151): with it *)
(* the queue counts its items rightly, is full with capacity - 1 of them   *)
(* and empty with none, also after its positions have wrapped.             *)
CapacityIsRoundedUp ==
    requested # NoQueue =>
        LET asked  == IF requested = 0 THEN Default ELSE requested
            enough == {p \in Powers : p >= asked}
        IN  IF enough = {} THEN capacity = 0
            ELSE /\ capacity \in enough /\ \A p \in enough : capacity <= p
                 /\ Size = held
                 /\ IsFull <=> held = capacity - 1
                 /\ IsEmpty <=> held = 0
=============================================================================
