---------------------------- MODULE PooledFuture ----------------------------
(***************************************************************************)
(* pkg/pool/object_pool.go: a task wrapper and its Future, taken from the  *)
(* object pool, used, given back and used again.  One action per atomic    *)
(* load, store or compare-and-swap, channel operation or critical section. *)
(*                                                                         *)
(* The pool trusts its users: a Future is given back only when no call on  *)
(* it is under way (Quiescent).  A result is represented by the number of  *)
(* the use it was computed in, 0 being the nil of a fresh Future.          *)
(***************************************************************************)
EXTENDS Integers, FiniteSets

CONSTANTS Readers,       \* goroutines that call Get or GetWithTimeout
          TimedReaders,  \* those of them that call GetWithTimeout
          Cancellers,    \* goroutines that call Cancel
          MaxUses        \* bound: how often the Future is used

ASSUME PooledFutureAssumption ==
    /\ TimedReaders \subseteq Readers
    /\ MaxUses \in Nat \ {0}

VARIABLES
    fut,        \* the Future: result, done, cancelled, token (in its channel)
    use,        \* the number of its current or last use
    executor,   \* next step of the goroutine that executes the wrapper
    reader,     \* next step of each reader
    canceller,  \* next step of each canceller
    answer,     \* what each reader's last call in this use returned
    promised,   \* history: readers that called after a Cancel returned true
    cancelWon,  \* history: a Cancel has returned true in this use
    tokens      \* history: readers that took a token in this use

futureVars == <<fut, use, executor, reader, canceller, answer, promised,
                cancelWon, tokens>>

Nil == 0  \* the result of a Future that has none

(* What a call of Get may have returned besides a result.                  *)
NoAnswer  == -1
Cancelled == -2
TimedOut  == -3

Blank == [result |-> Nil, done |-> FALSE, cancelled |-> FALSE, token |-> FALSE]

FutureInit ==
    /\ fut = Blank
    /\ use = 0
    /\ executor = "pooled"
    /\ reader = [r \in Readers |-> "idle"]
    /\ canceller = [c \in Cancellers |-> "idle"]
    /\ answer = [r \in Readers |-> NoAnswer]
    /\ promised = {}
    /\ cancelWon = FALSE
    /\ tokens = {}
-----------------------------------------------------------------------------
(* Variant: neither GetFuture nor PutFuture resets done.                   *)
RecycledDone == [Blank EXCEPT !.done = fut.done]

(* What GetFuture and PutFuture make of a Future: both reset its fields    *)
(* and empty its channel.                                                  *)
Recycled == Blank

(* newTaskWrapper, with GetTaskWrapper and GetFuture.                      *)
NewTaskWrapper ==
    /\ executor = "pooled" /\ use < MaxUses
    /\ executor' = "ready"
    /\ fut' = Recycled
    /\ use' = use + 1
    /\ UNCHANGED <<reader, canceller, answer, promised, cancelWon, tokens>>

Quiescent ==
    /\ executor = "finished"
    /\ \A r \in Readers : reader[r] = "idle"
    /\ \A c \in Cancellers : canceller[c] = "idle"

(* PutTaskWrapper and PutFuture, after which nobody has the Future.        *)
PutFuture ==
    /\ Quiescent
    /\ executor' = "pooled"
    /\ fut' = Recycled
    /\ answer' = [r \in Readers |-> NoAnswer]
    /\ promised' = {} /\ cancelWon' = FALSE /\ tokens' = {}
    /\ UNCHANGED <<use, reader, canceller>>
-----------------------------------------------------------------------------
(* taskWrapper.Execute and future.setResult.                               *)

EStep(from, to) == executor = from /\ executor' = to

executeUnchanged == <<use, reader, canceller, answer, promised, cancelWon,
                      tokens>>

(* With its context cancelled or expired the task is not executed; in      *)
(* either case, and after a panic, setResult is called.                    *)
Execute ==
    /\ EStep("ready", "executing") \/ EStep("ready", "set")
    /\ UNCHANGED <<executeUnchanged, fut>>

TaskReturns ==
    /\ EStep("executing", "set")
    /\ UNCHANGED <<executeUnchanged, fut>>

SetResultCheck ==
    /\ EStep("set", IF fut.cancelled THEN "finished" ELSE "write")
    /\ UNCHANGED <<executeUnchanged, fut>>

WriteResult ==
    /\ EStep("write", "mark")
    /\ fut' = [fut EXCEPT !.result = use]
    /\ UNCHANGED executeUnchanged

MarkDone ==
    /\ EStep("mark", IF fut.done THEN "finished" ELSE "notify")
    /\ fut' = [fut EXCEPT !.done = TRUE]
    /\ UNCHANGED executeUnchanged

(* The send that does not wait: a token that is there already is enough.   *)
Notify ==
    /\ EStep("notify", "finished")
    /\ fut' = [fut EXCEPT !.token = TRUE]
    /\ UNCHANGED executeUnchanged
-----------------------------------------------------------------------------
(* future.Cancel.                                                          *)

InUse == executor # "pooled"

CStep(c, from, to) ==
    canceller[c] = from /\ canceller' = [canceller EXCEPT ![c] = to]

cancelUnchanged == <<use, executor, reader, answer, promised, tokens>>

Cancel(c) ==
    /\ InUse
    /\ ~fut.done
    /\ CStep(c, "idle", "swap")
    /\ UNCHANGED <<cancelUnchanged, fut, cancelWon>>

CancelSwap(c) ==
    /\ CStep(c, "swap", IF fut.cancelled THEN "idle" ELSE "notify")
    /\ fut' = [fut EXCEPT !.cancelled = TRUE]
    /\ UNCHANGED <<cancelUnchanged, cancelWon>>

(* Variant: Cancel does not wake a reader.                                 *)
CancelSilently(c) ==
    /\ CStep(c, "notify", "idle")
    /\ cancelWon' = TRUE
    /\ UNCHANGED <<cancelUnchanged, fut>>

CancelNotify(c) ==
    /\ CStep(c, "notify", "idle")
    /\ fut' = [fut EXCEPT !.token = TRUE]
    /\ cancelWon' = TRUE
    /\ UNCHANGED cancelUnchanged
-----------------------------------------------------------------------------
(* future.Get and GetWithTimeout.                                          *)

RStep(r, from, to) ==
    reader[r] = from /\ reader' = [reader EXCEPT ![r] = to]

Return(r, from, what) ==
    /\ RStep(r, from, "idle")
    /\ answer' = [answer EXCEPT ![r] = what]

readUnchanged == <<use, executor, canceller, cancelWon>>

(* Variant: Get looks at cancelled only after it has waited.               *)
GetUnchecked(r) ==
    /\ InUse
    /\ promised' = IF cancelWon THEN promised \cup {r} ELSE promised \ {r}
    /\ RStep(r, "idle", "isDone")
    /\ UNCHANGED <<readUnchanged, fut, answer, tokens>>

(* The first load of cancelled.                                            *)
Get(r) ==
    /\ InUse
    /\ promised' = IF cancelWon THEN promised \cup {r} ELSE promised \ {r}
    /\ IF fut.cancelled THEN Return(r, "idle", Cancelled)
       ELSE RStep(r, "idle", "isDone") /\ UNCHANGED answer
    /\ UNCHANGED <<readUnchanged, fut, tokens>>

GetIsDone(r) ==
    /\ RStep(r, "isDone", IF fut.done THEN "read" ELSE "wait")
    /\ UNCHANGED <<readUnchanged, fut, answer, promised, tokens>>

Receive(r) ==
    /\ fut.token
    /\ RStep(r, "wait", "woken")
    /\ fut' = [fut EXCEPT !.token = FALSE]
    /\ tokens' = tokens \cup {r}
    /\ UNCHANGED <<readUnchanged, answer, promised>>

Timeout(r) ==
    /\ r \in TimedReaders
    /\ Return(r, "wait", TimedOut)
    /\ UNCHANGED <<readUnchanged, fut, promised, tokens>>

Woken(r) ==
    /\ IF fut.cancelled THEN Return(r, "woken", Cancelled)
       ELSE RStep(r, "woken", "read") /\ UNCHANGED answer
    /\ UNCHANGED <<readUnchanged, fut, promised, tokens>>

ReadResult(r) ==
    /\ Return(r, "read", fut.result)
    /\ UNCHANGED <<readUnchanged, fut, promised, tokens>>
-----------------------------------------------------------------------------
ExecutorStep ==
    \/ Execute \/ TaskReturns \/ SetResultCheck \/ WriteResult \/ MarkDone
    \/ Notify

CancelStep(c) == CancelSwap(c) \/ CancelNotify(c)

ReadStep(r) == GetIsDone(r) \/ Receive(r) \/ Timeout(r) \/ Woken(r) \/ ReadResult(r)

FutureNext ==
    \/ NewTaskWrapper \/ PutFuture \/ ExecutorStep
    \/ \E c \in Cancellers : Cancel(c) \/ CancelStep(c)
    \/ \E r \in Readers : Get(r) \/ ReadStep(r)

(* Goroutines that have begun a call go on with it, and tasks return.      *)
FutureFairness ==
    /\ WF_futureVars(ExecutorStep)
    /\ \A c \in Cancellers : WF_futureVars(CancelStep(c))
    /\ \A r \in Readers : WF_futureVars(ReadStep(r))

FutureSpec == FutureInit /\ [][FutureNext]_futureVars
-----------------------------------------------------------------------------
(* What a call on a recycled Future returns belongs to the present use: it *)
(* is never the nil of a Future without a result nor the result of an      *)
(* earlier use (result is written before done, object_pool.go:399-404, and *)
(* a token left in the channel would wake a reader too early), and it says *)
(* cancelled only if somebody has cancelled.  A call that began after a    *)
(* Cancel had returned true says nothing else, even if the task delivers.  *)
GenuineAnswers ==
    \A r \in Readers :
        /\ answer[r] \notin {NoAnswer, TimedOut} =>
              IF answer[r] = Cancelled THEN fut.cancelled ELSE answer[r] = use
        /\ r \in promised /\ reader[r] = "idle" => answer[r] = Cancelled

(* A reader that waits on a Future with a result, or a cancelled one, is   *)
(* woken, unless another reader took the token: the channel holds one, and *)
(* it is not closed, so a second reader may wait for ever                  *)
(* (object_pool.go:330 and 390-411).                                       *)
WaiterIsWoken ==
    \A r \in Readers :
        reader[r] = "wait" /\ (fut.done \/ fut.cancelled) ~>
            reader[r] # "wait" \/ tokens \ {r} # {}
=============================================================================
