--------------------------- MODULE CircuitBreaker ---------------------------
(***************************************************************************)
(* The circuit breaker and the error handler that drives it                *)
(* (pkg/pool/error_handler.go).  Each method of the breaker is one step,   *)
(* because it holds cb.mu throughout.  HandleQueueFull is two: it asks the *)
(* breaker and records a failure under two separate locks.  Any number of  *)
(* goroutines call the handler, and the breaker is exported: others may    *)
(* ask it, record outcomes and reset it in any order.                      *)
(***************************************************************************)
EXTENDS Naturals

CONSTANTS
    Submitters,         \* goroutines that may be in HandleQueueFull
    FailureThreshold,   \* config: failures that open a closed breaker
    HalfOpenMaxCalls,   \* config: successes that close a half-open breaker
    MaxCount            \* bound on failures and requests, for TLC

\* The handler uses 10 and 5 (lines 31-33); with no trial call at all the
\* half-open breaker would refuse everything.
ASSUME Limits ==
    /\ FailureThreshold \in Nat \ {0}
    /\ HalfOpenMaxCalls \in Nat \ {0}
    /\ MaxCount \in Nat

VARIABLES
    state,      \* cb.state
    failures,   \* cb.failures
    requests,   \* cb.requests
    aged,       \* more than ResetTimeout has passed since cb.lastFailTime
    handling    \* submitters between lines 78 and 86 of HandleQueueFull

\* History, which no step reads: failures recorded since the breaker was
\* last closed or reset, successes recorded and requests admitted (counted up to one
\* more than the limit) since it last became half-open.
VARIABLES sinceClosed, trials, admitted

breaker == <<state, failures, requests, aged>>
breakerHistory == <<sinceClosed, trials, admitted>>
breakerVars == <<breaker, handling, breakerHistory>>

\* Types, and that a half-open period records no more successes than it needs.
BreakerTypeOK ==
    /\ state \in {"closed", "halfOpen", "open"}
    /\ failures \in Nat /\ requests \in Nat
    /\ aged \in BOOLEAN
    /\ handling \subseteq Submitters
    /\ sinceClosed \in Nat
    /\ trials \in 0 .. HalfOpenMaxCalls
    /\ admitted \in 0 .. HalfOpenMaxCalls + 1

\* lastFailTime is the zero time, long ago.
BreakerInit ==
    /\ state = "closed" /\ failures = 0 /\ requests = 0 /\ aged = TRUE
    /\ handling = {}
    /\ sinceClosed = 0 /\ trials = 0 /\ admitted = 0

-----------------------------------------------------------------------------
\* The methods of the breaker.

\* AllowRequest returns true; when it returns false nothing changes.
Allows ==
    \/ state = "closed"
    \/ state = "open" /\ aged
    \/ state = "halfOpen" /\ requests < HalfOpenMaxCalls

Admitted(n) == IF n > HalfOpenMaxCalls THEN n ELSE n + 1

\* Fault: requests are not reset when the half-open state is entered.
AllowRequestNoReset ==
    /\ Allows
    /\ IF state = "open"
       THEN /\ state' = "halfOpen"
            /\ trials' = 0 /\ admitted' = 1
            /\ UNCHANGED requests
       ELSE /\ UNCHANGED <<state, requests, trials>>
            /\ admitted' = IF state = "halfOpen" THEN Admitted(admitted)
                                                 ELSE admitted
    /\ UNCHANGED <<failures, aged, sinceClosed>>

AllowRequest ==
    /\ Allows
    /\ IF state = "open"
       THEN /\ state' = "halfOpen" /\ requests' = 0
            /\ trials' = 0 /\ admitted' = 1
       ELSE /\ UNCHANGED <<state, requests, trials>>
            /\ admitted' = IF state = "halfOpen" THEN Admitted(admitted)
                                                 ELSE admitted
    /\ UNCHANGED <<failures, aged, sinceClosed>>

\* Fault: one success too many is asked for.
ClosesLate == state = "halfOpen" /\ requests + 1 > HalfOpenMaxCalls

Closes == state = "halfOpen" /\ requests + 1 >= HalfOpenMaxCalls

\* Fault: the breaker closes without forgetting the failures.
RecordSuccessKeepingFailures ==
    /\ requests < MaxCount
    /\ requests' = requests + 1
    /\ trials' = IF state = "halfOpen" THEN trials + 1 ELSE trials
    /\ IF Closes
       THEN state' = "closed" /\ sinceClosed' = 0
       ELSE UNCHANGED <<state, sinceClosed>>
    /\ UNCHANGED <<aged, admitted, failures>>

RecordSuccess ==
    /\ requests < MaxCount
    /\ requests' = requests + 1
    /\ trials' = IF state = "halfOpen" THEN trials + 1 ELSE trials
    /\ IF Closes
       THEN state' = "closed" /\ failures' = 0 /\ sinceClosed' = 0
       ELSE UNCHANGED <<state, failures, sinceClosed>>
    /\ UNCHANGED <<aged, admitted>>

Opens ==
    \/ state = "halfOpen"
    \/ state = "closed" /\ failures + 1 >= FailureThreshold

RecordFailure ==
    /\ failures < MaxCount
    /\ failures' = failures + 1
    /\ aged' = FALSE
    /\ state' = IF Opens THEN "open" ELSE state
    /\ sinceClosed' = sinceClosed + 1
    /\ UNCHANGED <<requests, trials, admitted>>

BreakerReset ==
    /\ state' = "closed" /\ failures' = 0 /\ requests' = 0
    /\ sinceClosed' = 0
    /\ UNCHANGED <<aged, trials, admitted>>

-----------------------------------------------------------------------------
\* The handler and the other users of the breaker.

\* HandleQueueFull: the breaker is asked; refused, the call returns
\* ErrCircuitBreakerOpen and nothing has changed.
AskQueueFull(s) ==
    /\ s \notin handling
    /\ AllowRequest
    /\ handling' = handling \cup {s}

\* HandleQueueFull: the failure is recorded and ErrQueueFull returned.
RecordQueueFull(s) ==
    /\ s \in handling
    /\ RecordFailure
    /\ handling' = handling \ {s}

\* HandlePanic or HandleTimeout, in a worker.
HandleFailure == RecordFailure /\ UNCHANGED handling

\* Users of the exported breaker.
AskBreaker == AllowRequest /\ UNCHANGED handling
ReportSuccess == RecordSuccess /\ UNCHANGED handling
ResetBreaker == BreakerReset /\ UNCHANGED handling

\* ResetTimeout passes.
Age ==
    /\ ~aged
    /\ aged' = TRUE
    /\ UNCHANGED <<state, failures, requests, handling, breakerHistory>>

BreakerNext ==
    \/ \E s \in Submitters : AskQueueFull(s) \/ RecordQueueFull(s)
    \/ HandleFailure
    \/ AskBreaker
    \/ ReportSuccess
    \/ ResetBreaker
    \/ Age

BreakerSpec == BreakerInit /\ [][BreakerNext]_breakerVars

-----------------------------------------------------------------------------
\* Properties.

\* A half-open breaker never uses up its trial calls: it still admits, so it
\* cannot refuse for ever while it waits for a success that nobody may try
\* for.  (line 150; requests left over from the closed state must not count.)
TrialsNotExhausted == state = "halfOpen" => Allows

\* The breaker closes only from the half-open state, when enough successes were
\* recorded since it became half-open, or because somebody reset it.  Successes
\* that arrive before that do not count; any that arrives while it is
\* half-open does, whenever its request was admitted.  (lines 157-170)
ClosesOnlyAfterTrials ==
    [][state # "closed" /\ state' = "closed" =>
         \/ ResetBreaker
         \/ state = "halfOpen" /\ trials' >= HalfOpenMaxCalls]_breakerVars

\* A closed breaker opens only after FailureThreshold failures since it was
\* closed or reset: failures of an earlier period are forgotten.  (lines 173-189)
OpensOnlyAtThreshold ==
    [][state = "closed" /\ state' = "open" =>
         sinceClosed' >= FailureThreshold]_breakerVars

\* "Limit the number of requests in the half-open state" (line 149), to the
\* "maximum number of calls in the half-open state" (line 119).  Violated:
\* AllowRequest does not count the requests it admits.
HalfOpenLimit == admitted <= HalfOpenMaxCalls

=============================================================================
