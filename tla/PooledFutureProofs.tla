------------------------- MODULE PooledFutureProofs -------------------------
(***************************************************************************)
(* Proofs about PooledFuture, for any readers, cancellers and number of    *)
(* uses: no answer comes from another use of the Future.                   *)
(***************************************************************************)
EXTENDS PooledFuture, TLAPS

ReaderLabels    == {"idle", "isDone", "wait", "woken", "read"}
CancellerLabels == {"idle", "swap", "notify"}

FutureTypeOK ==
    /\ fut \in [result : Nat, done : BOOLEAN, cancelled : BOOLEAN, token : BOOLEAN]
    /\ use \in Nat
    /\ reader \in [Readers -> ReaderLabels]
    /\ canceller \in [Cancellers -> CancellerLabels]
    /\ answer \in [Readers -> Int]

(* Nothing is left of a use when the Future is back in the pool.           *)
PoolIsClean ==
    executor = "pooled" =>
        /\ \A r \in Readers : reader[r] = "idle" /\ answer[r] = NoAnswer
        /\ \A c \in Cancellers : canceller[c] = "idle"
        /\ promised = {} /\ ~cancelWon

(* The result is there before done says so, and whoever is about to say so *)
(* or to read it has it.                                                   *)
ResultWritten ==
    /\ fut.done \/ executor = "mark" => fut.result = use
    /\ executor = "notify" => fut.done
    /\ \A r \in Readers : reader[r] = "read" => fut.result = use

(* A token, sent or taken, means that the Future is done or cancelled.     *)
TokensJustified ==
    /\ fut.token => fut.done \/ fut.cancelled
    /\ \A r \in Readers : reader[r] = "woken" => fut.done \/ fut.cancelled

CancelsAreSeen ==
    /\ \A c \in Cancellers : canceller[c] = "notify" => fut.cancelled
    /\ cancelWon => fut.cancelled

PromisesKept ==
    \A r \in promised \cap Readers : reader[r] = "idle" /\ answer[r] = Cancelled

FutureInv ==
    /\ FutureTypeOK /\ PoolIsClean /\ ResultWritten /\ TokensJustified
    /\ CancelsAreSeen /\ PromisesKept /\ GenuineAnswers

LEMMA InitEstablishes == FutureInit => FutureInv
    BY DEF FutureInit, Blank, Nil, NoAnswer, TimedOut, Cancelled, FutureInv,
           FutureTypeOK, PoolIsClean, ResultWritten, TokensJustified,
           CancelsAreSeen, PromisesKept, GenuineAnswers, ReaderLabels,
           CancellerLabels

-----------------------------------------------------------------------------
(* The Future leaves the pool blank, and comes back blank.                 *)
LEMMA PoolKeeps ==
    FutureInv /\ (NewTaskWrapper \/ PutFuture) => FutureInv'
<1> SUFFICES ASSUME FutureInv, NewTaskWrapper \/ PutFuture PROVE FutureInv'
    OBVIOUS
<1>1. /\ \A r \in Readers : reader'[r] = "idle" /\ answer'[r] = NoAnswer
      /\ \A c \in Cancellers : canceller'[c] = "idle"
      /\ promised' = {} /\ ~cancelWon'
    BY DEF NewTaskWrapper, PutFuture, Quiescent, FutureInv, FutureTypeOK, PoolIsClean
<1>2. fut' = Blank /\ executor' \in {"ready", "pooled"}
    BY DEF NewTaskWrapper, PutFuture, Recycled
<1>3. FutureTypeOK'
    BY <1>2 DEF NewTaskWrapper, PutFuture, FutureInv, FutureTypeOK, Blank, Nil,
                NoAnswer
<1> QED
    BY <1>1, <1>2, <1>3 DEF Blank, FutureInv, PoolIsClean, ResultWritten,
       TokensJustified, CancelsAreSeen, PromisesKept, GenuineAnswers

(* setResult writes the result of the present use, then done, then sends.  *)
LEMMA ExecutorKeeps == FutureInv /\ ExecutorStep => FutureInv'
<1> SUFFICES ASSUME FutureInv, ExecutorStep PROVE FutureInv'
    OBVIOUS
<1> USE DEF FutureInv, FutureTypeOK, EStep, executeUnchanged
<1>1. FutureTypeOK' /\ executor # "pooled" /\ executor' # "pooled"
    BY DEF ExecutorStep, Execute, TaskReturns, SetResultCheck, WriteResult,
           MarkDone, Notify
<1>2. ResultWritten'
    BY DEF ExecutorStep, Execute, TaskReturns, SetResultCheck, WriteResult,
           MarkDone, Notify, ResultWritten
<1>3. TokensJustified' /\ fut'.cancelled = fut.cancelled
    BY DEF ExecutorStep, Execute, TaskReturns, SetResultCheck, WriteResult,
           MarkDone, Notify, TokensJustified, ResultWritten
<1>4. UNCHANGED <<use, reader, canceller, answer, promised, cancelWon>>
    BY DEF ExecutorStep, Execute, TaskReturns, SetResultCheck, WriteResult,
           MarkDone, Notify
<1>5. CancelsAreSeen' /\ PromisesKept' /\ GenuineAnswers' /\ PoolIsClean'
    BY <1>1, <1>3, <1>4 DEF CancelsAreSeen, PromisesKept, GenuineAnswers, PoolIsClean
<1> QED
    BY <1>1, <1>2, <1>3, <1>5

LEMMA CancellerKeeps ==
    ASSUME FutureInv, NEW c \in Cancellers, Cancel(c) \/ CancelStep(c)
    PROVE  FutureInv'
<1> USE DEF FutureInv, FutureTypeOK, CStep, cancelUnchanged, CancellerLabels
<1>1. FutureTypeOK'
    BY DEF Cancel, CancelStep, CancelSwap, CancelNotify
<1>2. executor # "pooled" /\ UNCHANGED <<use, executor, reader, answer, promised>>
    BY DEF Cancel, CancelStep, CancelSwap, CancelNotify, InUse, PoolIsClean
<1>3. /\ fut'.done = fut.done /\ fut'.result = fut.result
      /\ fut.cancelled => fut'.cancelled
    BY DEF Cancel, CancelStep, CancelSwap, CancelNotify
<1>4. CancelsAreSeen'
    BY DEF Cancel, CancelStep, CancelSwap, CancelNotify, CancelsAreSeen
<1>5. TokensJustified'
    BY <1>3 DEF Cancel, CancelStep, CancelSwap, CancelNotify, TokensJustified,
                CancelsAreSeen
<1>6. PoolIsClean' /\ ResultWritten' /\ PromisesKept' /\ GenuineAnswers'
    BY <1>2, <1>3 DEF PoolIsClean, ResultWritten, PromisesKept, GenuineAnswers
<1> QED
    BY <1>1, <1>4, <1>5, <1>6

(* Every way in which a call of Get goes on or returns.                    *)
LEMMA ReaderKeeps ==
    ASSUME FutureInv, NEW r \in Readers, Get(r) \/ ReadStep(r)
    PROVE  FutureInv'
<1> USE DEF FutureInv, FutureTypeOK, RStep, Return, readUnchanged, ReaderLabels
<1>1. /\ FutureTypeOK' /\ executor # "pooled"
      /\ UNCHANGED <<use, executor, canceller, cancelWon>>
  <2>1. UNCHANGED <<use, executor, canceller, cancelWon>>
      BY DEF Get, ReadStep, GetIsDone, Receive, Timeout, Woken, ReadResult
  <2>2. executor # "pooled"
      BY DEF Get, ReadStep, GetIsDone, Receive, Timeout, Woken, ReadResult, InUse,
             PoolIsClean
  <2>3. Cancelled \in Int /\ TimedOut \in Int
      BY DEF Cancelled, TimedOut
  <2>4. FutureTypeOK'
    <3>1. CASE Get(r) \/ GetIsDone(r) \/ Receive(r)
        BY <2>1, <2>3, <3>1 DEF Get, GetIsDone, Receive
    <3>2. CASE Timeout(r) \/ Woken(r) \/ ReadResult(r)
        BY <2>1, <2>3, <3>2 DEF Timeout, Woken, ReadResult
    <3> QED
        BY <3>1, <3>2 DEF ReadStep
  <2> QED
      BY <2>1, <2>2, <2>4
<1>2. /\ fut'.done = fut.done /\ fut'.result = fut.result
      /\ fut'.cancelled = fut.cancelled /\ (fut'.token => fut.token)
    BY DEF Get, ReadStep, GetIsDone, Receive, Timeout, Woken, ReadResult
<1>3. ResultWritten' /\ TokensJustified'
    BY <1>1, <1>2 DEF Get, ReadStep, GetIsDone, Receive, Timeout, Woken, ReadResult,
       ResultWritten, TokensJustified
<1>4. PromisesKept'
  <2>1. CASE Get(r)
      BY <2>1 DEF Get, PromisesKept, CancelsAreSeen
  <2>2. CASE ReadStep(r)
      BY <2>2 DEF ReadStep, GetIsDone, Receive, Timeout, Woken, ReadResult,
                  PromisesKept
  <2> QED
      BY <2>1, <2>2
<1>5. GenuineAnswers'
  <2>1. \/ answer'[r] = answer[r]
        \/ answer'[r] = TimedOut
        \/ answer'[r] = Cancelled /\ fut.cancelled
        \/ answer'[r] = use
      BY DEF Get, ReadStep, GetIsDone, Receive, Timeout, Woken, ReadResult,
             ResultWritten
  <2>2. \A q \in Readers \ {r} : answer'[q] = answer[q]
      BY DEF Get, ReadStep, GetIsDone, Receive, Timeout, Woken, ReadResult
  <2>3. use # Cancelled
      BY DEF Cancelled
  <2> QED
      BY <1>1, <1>2, <1>4, <2>1, <2>2, <2>3 DEF GenuineAnswers, PromisesKept
<1>6. PoolIsClean' /\ CancelsAreSeen'
    BY <1>1, <1>2 DEF PoolIsClean, CancelsAreSeen
<1> QED
    BY <1>1, <1>3, <1>4, <1>5, <1>6

LEMMA NextKeeps == FutureInv /\ [FutureNext]_futureVars => FutureInv'
<1> SUFFICES ASSUME FutureInv, [FutureNext]_futureVars PROVE FutureInv'
    OBVIOUS
<1>1. CASE UNCHANGED futureVars
    BY <1>1 DEF futureVars, FutureInv, FutureTypeOK, PoolIsClean, ResultWritten,
       TokensJustified, CancelsAreSeen, PromisesKept, GenuineAnswers
<1> QED
    BY <1>1, PoolKeeps, ExecutorKeeps, CancellerKeeps, ReaderKeeps DEF FutureNext

-----------------------------------------------------------------------------
(* The order of the writes of setResult and the rules of the object pool,  *)
(* as an inductive invariant.                                              *)
THEOREM FutureCorrect == FutureSpec => []FutureInv
<1> QED
    BY InitEstablishes, NextKeeps, PTL DEF FutureSpec

(* Get answers with the result of the present use, or with a cancellation  *)
(* that took place in it, however often the Future was used before         *)
(* (object_pool.go:311-411).                                               *)
THEOREM AnswersAreGenuine == FutureSpec => []GenuineAnswers
<1>1. FutureInv => GenuineAnswers
    BY DEF FutureInv
<1> QED
    BY <1>1, FutureCorrect, PTL
=============================================================================
