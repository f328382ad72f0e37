-------------------------- MODULE AdaptiveBalancer --------------------------
(***************************************************************************)
(* AdaptiveBalancer of internal/scheduler/load_balancer.go.  Schedule calls*)
(* SelectWorker from the goroutine of every submitter, and nothing guards  *)
(* the fields: each read and each write of evaluationCount, current and    *)
(* metrics is a step of its own, and the callers' steps interleave.  What  *)
(* the current strategy picks changes none of them and is left out; so are *)
(* calls with an empty list of workers, which return at once.              *)
(***************************************************************************)
EXTENDS Integers, FiniteSets, FiniteSetsExt

CONSTANTS Measured,      \* the workers whose load is measured
          Loads,         \* what the load of a worker can be
          Scale,         \* variances are whole numbers, Scale times their value
          Window,        \* evaluationWindow
          Choosers,      \* goroutines that call SelectWorker
          MaxEvaluations \* bound: evaluations begun

Strategies == 1 .. 3

ASSUME AdaptiveAssumption ==
    /\ IsFiniteSet(Measured) /\ Loads \subseteq Nat
    /\ Scale \in Nat
    /\ \A n \in 1 .. Cardinality(Measured) : Scale % (n * n * n) = 0
    /\ {Window, MaxEvaluations} \subseteq Nat \ {0}

VARIABLES
    strategy,     \* current
    metrics,      \* metrics, scaled
    evalCount,    \* evaluationCount
    chooser,      \* of each caller: its next step,
    seen,         \* the count it has read,
    indexRead,    \* the value of current it has read,
    reading,      \* the variance or metric it holds,
    position,     \* the index its search is at,
    bestStrategy, bestMetric, \* and what the search has found
    evaluations,  \* history: evaluations begun
    overlapped,   \* history: the latest to begin met another under way
    inARow,       \* history: evaluations ended since any two overlapped
    evenLoad      \* history: some evaluation found a variance of 0

sharedVars   == <<strategy, metrics, evalCount>>
searchVars   == <<position, bestStrategy, bestMetric>>
localVars    == <<seen, indexRead, reading, searchVars>>
historyVars  == <<evaluations, overlapped, inARow, evenLoad>>
adaptiveVars == <<sharedVars, chooser, localVars, historyVars>>

AdaptiveInit ==
    /\ strategy = 1 /\ metrics = [s \in Strategies |-> 0] /\ evalCount = 0
    /\ chooser = [c \in Choosers |-> "idle"] /\ seen = [c \in Choosers |-> 0]
    /\ indexRead = [c \in Choosers |-> 1] /\ reading = [c \in Choosers |-> 0]
    /\ position = [c \in Choosers |-> 1]
    /\ bestStrategy = [c \in Choosers |-> 1] /\ bestMetric = [c \in Choosers |-> 0]
    /\ evaluations = 0 /\ overlapped = FALSE /\ inARow = 0 /\ evenLoad = FALSE

Goes(c, from, to) ==
    /\ chooser[c] = from
    /\ chooser' = [chooser EXCEPT ![c] = to]
-----------------------------------------------------------------------------
(* SelectWorker.                                                           *)

(* The increment reads the count ...                                       *)
ReadCount(c) ==
    /\ Goes(c, "idle", "increment")
    /\ seen' = [seen EXCEPT ![c] = evalCount]
    /\ UNCHANGED <<sharedVars, indexRead, reading, searchVars, historyVars>>

(* ... and writes it.                                                      *)
WriteCount(c) ==
    /\ Goes(c, "increment", "check")
    /\ evalCount' = seen[c] + 1
    /\ seen' = [seen EXCEPT ![c] = 0]
    /\ UNCHANGED <<strategy, metrics, indexRead, reading, searchVars, historyVars>>

Evaluating == {"measure", "store", "search", "compare", "minuend", "gain",
               "factor", "decide", "switch"}

Evaluators == {c \in Choosers : chooser[c] \in Evaluating}

(* The count is read again: others may have written or reset it meanwhile. *)
CheckCount(c) ==
    \/ /\ evalCount < Window
       /\ Goes(c, "check", "idle")
       /\ UNCHANGED <<sharedVars, localVars, historyVars>>
    \/ /\ evalCount >= Window /\ evaluations < MaxEvaluations
       /\ Goes(c, "check", "measure")
       /\ evaluations' = evaluations + 1
       /\ overlapped' = (Evaluators # {})
       /\ inARow' = IF Evaluators # {} THEN 0 ELSE inARow
       /\ UNCHANGED <<sharedVars, localVars, evenLoad>>

ResetCount(c) ==
    /\ Goes(c, "reset", "idle")
    /\ evalCount' = 0
    /\ UNCHANGED <<strategy, metrics, localVars, historyVars>>
-----------------------------------------------------------------------------
(* evaluateAndSwitch.                                                      *)

(* calculateLoadVariance.                                                  *)
LoadVariance(running, load) ==
    LET n       == Cardinality(running)
        sum     == SumFunctionOnSet(load, running)
        diff(w) == n * load[w] - sum
        squares == [w \in running |-> diff(w) * diff(w)]
    IN  IF n = 0 THEN 0
        ELSE (Scale \div (n * n * n)) * SumFunctionOnSet(squares, running)

(* The loads are nobody's in particular, so measuring them and reading the *)
(* index under which the variance will be stored are one step.             *)
Measure(c) ==
    /\ Goes(c, "measure", "store")
    /\ indexRead' = [indexRead EXCEPT ![c] = strategy]
    /\ \E running \in SUBSET Measured, load \in [Measured -> Loads] :
          LET variance == LoadVariance(running, load) IN
          /\ reading' = [reading EXCEPT ![c] = variance]
          /\ evenLoad' = (evenLoad \/ variance = 0)
    /\ UNCHANGED <<sharedVars, seen, searchVars, evaluations, overlapped, inARow>>

StoreMetric(c) ==
    /\ Goes(c, "store", "search")
    /\ metrics' = [metrics EXCEPT ![indexRead[c]] = reading[c]]
    /\ position' = [position EXCEPT ![c] = 1]
    /\ indexRead' = [indexRead EXCEPT ![c] = 1] /\ reading' = [reading EXCEPT ![c] = 0]
    /\ UNCHANGED <<strategy, evalCount, seen, bestStrategy, bestMetric, historyVars>>

(* Variant: the variance is taken for a merit.                             *)
Greater(metric, other) == metric > other

Better(metric, other) == metric < other

(* One pass of the search reads one metric; the first is taken as it is.   *)
Search(c) ==
    /\ Goes(c, "search", IF position[c] < 3 THEN "search" ELSE "compare")
    /\ IF position[c] = 1 \/ Better(metrics[position[c]], bestMetric[c])
       THEN /\ bestStrategy' = [bestStrategy EXCEPT ![c] = position[c]]
            /\ bestMetric' = [bestMetric EXCEPT ![c] = metrics[position[c]]]
       ELSE UNCHANGED <<bestStrategy, bestMetric>>
    /\ position' = [position EXCEPT ![c] = IF position[c] < 3 THEN position[c] + 1 ELSE 1]
    /\ UNCHANGED <<sharedVars, seen, indexRead, reading, historyVars>>

(* The evaluation is over; what the caller held is forgotten.              *)
Ends(c) ==
    /\ chooser' = [chooser EXCEPT ![c] = "reset"]
    /\ indexRead' = [indexRead EXCEPT ![c] = 1] /\ reading' = [reading EXCEPT ![c] = 0]
    /\ bestStrategy' = [bestStrategy EXCEPT ![c] = 1] /\ bestMetric' = [bestMetric EXCEPT ![c] = 0]
    /\ inARow' = IF overlapped THEN 0 ELSE inARow + 1
    /\ UNCHANGED <<metrics, evalCount, seen, position, evaluations, overlapped, evenLoad>>

(* bestStrategy != ab.current                                              *)
Compare(c) ==
    /\ chooser[c] = "compare"
    /\ \/ bestStrategy[c] = strategy /\ Ends(c) /\ UNCHANGED strategy
       \/ /\ bestStrategy[c] # strategy
          /\ chooser' = [chooser EXCEPT ![c] = "minuend"]
          /\ UNCHANGED <<sharedVars, localVars, historyVars>>

(* metrics[current] stands twice in the next line: the index is read, then *)
(* the metric, and then both again.                                        *)
ReadIndex(c) ==
    /\ Goes(c, "minuend", "gain") \/ Goes(c, "factor", "decide")
    /\ indexRead' = [indexRead EXCEPT ![c] = strategy]
    /\ UNCHANGED <<sharedVars, seen, reading, searchVars, historyVars>>

ReadMetric(c) ==
    /\ Goes(c, "gain", "factor")
    /\ reading' = [reading EXCEPT ![c] = metrics[indexRead[c]]]
    /\ UNCHANGED <<sharedVars, seen, indexRead, searchVars, historyVars>>

(* switchThreshold is a tenth of the metric.                               *)
Decide(c) ==
    /\ chooser[c] = "decide"
    /\ LET gain == reading[c] - bestMetric[c] IN
       \/ /\ 10 * gain <= metrics[indexRead[c]]
          /\ Ends(c) /\ UNCHANGED strategy
       \/ /\ 10 * gain > metrics[indexRead[c]]
          /\ chooser' = [chooser EXCEPT ![c] = "switch"]
          /\ UNCHANGED <<sharedVars, localVars, historyVars>>

Switch(c) ==
    /\ chooser[c] = "switch"
    /\ strategy' = bestStrategy[c]
    /\ Ends(c)
-----------------------------------------------------------------------------
AdaptiveNext ==
    \E c \in Choosers :
        \/ ReadCount(c) \/ WriteCount(c) \/ CheckCount(c) \/ ResetCount(c)
        \/ Measure(c) \/ StoreMetric(c) \/ Search(c) \/ Compare(c)
        \/ ReadIndex(c) \/ ReadMetric(c) \/ Decide(c) \/ Switch(c)

AdaptiveSpec == AdaptiveInit /\ [][AdaptiveNext]_adaptiveVars
-----------------------------------------------------------------------------
(* Evaluations that overlap may measure one strategy twice, store one's    *)
(* variance as another's metric, or switch on a metric that has changed    *)
(* since it was read.  But three in a row that do not overlap with any     *)
(* have measured all three strategies, whatever overlapping ones left in   *)
(* current and metrics before them, unless some evaluation has seen equal  *)
(* loads: the balancer does not settle for one strategy before it has      *)
(* tried the others (load_balancer.go:347-402).                            *)
EveryStrategyMeasured ==
    inARow >= 3 /\ ~evenLoad => \A s \in Strategies : metrics[s] > 0
=============================================================================
