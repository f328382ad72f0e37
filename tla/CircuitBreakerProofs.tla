------------------------ MODULE CircuitBreakerProofs ------------------------
(***************************************************************************)
(* Proofs about CircuitBreaker, for every threshold, every number of trial *)
(* calls, every set of submitters and every bound on the counters.         *)
(***************************************************************************)
EXTENDS CircuitBreaker, TLAPS

\* What the half-open state counts is what happened in it, and the limit is
\* not reached while it lasts.
TrialsSound ==
    state = "halfOpen" => requests = trials /\ requests < HalfOpenMaxCalls

\* The failures a closed breaker remembers are those since it was closed or
\* reset.
FailuresSound == failures = sinceClosed

BreakerInv == BreakerTypeOK /\ TrialsSound /\ FailuresSound

\* Every step of the system is a method of the breaker, or time passing.
Step ==
    \/ AllowRequest
    \/ RecordSuccess
    \/ RecordFailure
    \/ BreakerReset
    \/ Age
    \/ UNCHANGED <<breaker, breakerHistory>>

\* Whoever acts, the breaker's variables change by one method of the breaker,
\* and the submitters in HandleQueueFull stay submitters.
LEMMA StepsAreMethods ==
    ASSUME BreakerTypeOK, [BreakerNext]_breakerVars
    PROVE  Step /\ handling' \subseteq Submitters
<1>1. CASE \E s \in Submitters : AskQueueFull(s) \/ RecordQueueFull(s)
  BY <1>1 DEF AskQueueFull, RecordQueueFull, Step, BreakerTypeOK
<1>2. CASE HandleFailure \/ AskBreaker \/ ReportSuccess \/ ResetBreaker
  BY <1>2 DEF HandleFailure, AskBreaker, ReportSuccess, ResetBreaker, Step,
              BreakerTypeOK
<1>3. CASE Age
  BY <1>3 DEF Age, Step, BreakerTypeOK
<1>4. CASE UNCHANGED breakerVars
  BY <1>4 DEF breakerVars, breaker, breakerHistory, Step, BreakerTypeOK
<1> QED
  BY <1>1, <1>2, <1>3, <1>4 DEF BreakerNext

\* One case per method.
LEMMA BreakerStep ==
    ASSUME BreakerInv, [BreakerNext]_breakerVars
    PROVE  BreakerInv'
<1> USE Limits
<1>1. Step /\ handling' \subseteq Submitters
  BY StepsAreMethods DEF BreakerInv
<1>2. CASE AllowRequest
  BY <1>1, <1>2 DEF AllowRequest, Allows, Admitted, BreakerInv, BreakerTypeOK,
                    TrialsSound, FailuresSound
<1>3. CASE RecordSuccess
  BY <1>1, <1>3 DEF RecordSuccess, Closes, BreakerInv, BreakerTypeOK,
                    TrialsSound, FailuresSound
<1>4. CASE RecordFailure
  <2>1. state' \in {"closed", "halfOpen", "open"} /\ state' # "halfOpen"
    BY <1>4 DEF RecordFailure, Opens, BreakerInv, BreakerTypeOK
  <2>2. /\ failures' = failures + 1 /\ sinceClosed' = sinceClosed + 1
        /\ aged' \in BOOLEAN
        /\ UNCHANGED <<requests, trials, admitted>>
    BY <1>4 DEF RecordFailure
  <2>3. BreakerTypeOK'
    BY <1>1, <2>1, <2>2 DEF BreakerInv, BreakerTypeOK
  <2>4. FailuresSound'
    BY <2>2 DEF BreakerInv, FailuresSound
  <2> QED
    BY <2>1, <2>3, <2>4 DEF BreakerInv, TrialsSound
<1>5. CASE BreakerReset
  BY <1>1, <1>5 DEF BreakerReset, BreakerInv, BreakerTypeOK, TrialsSound, FailuresSound
<1>6. CASE Age
  BY <1>1, <1>6 DEF Age, breakerHistory, BreakerInv, BreakerTypeOK, TrialsSound,
                    FailuresSound
<1>7. CASE UNCHANGED <<breaker, breakerHistory>>
  BY <1>1, <1>7 DEF breaker, breakerHistory, BreakerInv, BreakerTypeOK, TrialsSound,
                    FailuresSound
<1> QED
  BY <1>1, <1>2, <1>3, <1>4, <1>5, <1>6, <1>7 DEF Step

LEMMA BreakerInvInit == BreakerInit => BreakerInv
BY Limits DEF BreakerInit, BreakerInv, BreakerTypeOK, TrialsSound, FailuresSound

\* The inductive invariant holds.
THEOREM BreakerCorrect == BreakerSpec => []BreakerInv
<1>1. BreakerInv /\ [BreakerNext]_breakerVars => BreakerInv'
  BY BreakerStep
<1> QED
  BY <1>1, BreakerInvInit, PTL DEF BreakerSpec

\* Type correctness, with the bound on the successes of a half-open period.
THEOREM BreakerTyped == BreakerSpec => []BreakerTypeOK
<1>1. BreakerInv => BreakerTypeOK
  BY DEF BreakerInv
<1> QED
  BY <1>1, BreakerCorrect, PTL

\* The half-open breaker always admits the next trial (line 150): it cannot
\* be stuck refusing, whatever the configuration and the order of the calls.
THEOREM HalfOpenAdmits == BreakerSpec => []TrialsNotExhausted
<1>1. BreakerInv => TrialsNotExhausted
  BY DEF BreakerInv, TrialsSound, TrialsNotExhausted, Allows
<1> QED
  BY <1>1, BreakerCorrect, PTL

\* Only a reset, or enough successes in the half-open state itself, close the
\* breaker (lines 157-170).
THEOREM ClosesCorrectly == BreakerSpec => ClosesOnlyAfterTrials
<1>1. ASSUME BreakerInv, [BreakerNext]_breakerVars, state # "closed", state' = "closed"
      PROVE  \/ ResetBreaker
             \/ state = "halfOpen" /\ trials' >= HalfOpenMaxCalls
  <2>1. CASE \E s \in Submitters : AskQueueFull(s) \/ RecordQueueFull(s)
    BY <1>1, <2>1 DEF AskQueueFull, RecordQueueFull, AllowRequest,
                      RecordFailure, BreakerInv, BreakerTypeOK
  <2>2. CASE HandleFailure \/ AskBreaker
    BY <1>1, <2>2 DEF HandleFailure, AskBreaker, AllowRequest, RecordFailure,
                      BreakerInv, BreakerTypeOK
  <2>3. CASE ReportSuccess
    BY <1>1, <2>3, Limits DEF ReportSuccess, RecordSuccess, Closes,
                      BreakerInv, BreakerTypeOK, TrialsSound
  <2>4. CASE Age \/ UNCHANGED breakerVars
    BY <1>1, <2>4 DEF Age, breakerVars, breaker, breakerHistory
  <2> QED
    BY <1>1, <2>1, <2>2, <2>3, <2>4 DEF BreakerNext
<1> QED
  BY <1>1, BreakerCorrect, PTL DEF ClosesOnlyAfterTrials, BreakerSpec

\* A closed breaker opens only at the threshold, counted since it was closed
\* or reset (lines 173-189).
THEOREM OpensCorrectly == BreakerSpec => OpensOnlyAtThreshold
<1>1. ASSUME BreakerInv, [BreakerNext]_breakerVars, state = "closed", state' = "open"
      PROVE  sinceClosed' >= FailureThreshold
  <2>1. Step
    BY <1>1, StepsAreMethods DEF BreakerInv
  <2>2. RecordFailure
    BY <1>1, <2>1 DEF Step, AllowRequest, RecordSuccess, Closes, BreakerReset, Age,
                      breaker
  <2> QED
    BY <1>1, <2>2, Limits DEF RecordFailure, Opens, BreakerInv, BreakerTypeOK,
                              FailuresSound
<1> QED
  BY <1>1, BreakerCorrect, PTL DEF OpensOnlyAtThreshold, BreakerSpec
=============================================================================
