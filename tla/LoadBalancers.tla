--------------------------- MODULE LoadBalancers ---------------------------
(***************************************************************************)
(* internal/scheduler/load_balancer.go.  A scheduler has one balancer, so  *)
(* a behaviour is about one: the two that take turns, or the hash ring.    *)
(* LeastLoad keeps no state: it is an operator, and its behaviours stop    *)
(* where they begin.  Random returns any running worker, which is what     *)
(* Scheduler assumes of all.  The adaptive one has a module of its own.    *)
(*                                                                         *)
(* A call looks at the workers at one moment.  Hash values are numbers,    *)
(* different for different virtual nodes: the hash multiplies distinct     *)
(* numbers below 2^32 by an odd one.                                       *)
(***************************************************************************)
EXTENDS Integers, Sequences, FiniteSets, SequencesExt, FiniteSetsExt

CONSTANTS BalancerKinds, \* which balancers there are behaviours of
          NBalanced,     \* how many workers there are
          Weights,       \* the weights of the weighted balancer
          HashesOf,      \* the positions of each worker's virtual nodes
          LastHash,      \* the largest hash value
          LoadValues,    \* what the load of a worker can be
          MaxPicks,      \* bound: picks of a balancer that takes turns
          MaxRing        \* bound: entries of sortedHashes

Balanced == 1 .. NBalanced
NoWorker == 0

ASSUME BalancerAssumption ==
    /\ BalancerKinds \subseteq {"roundRobin", "weighted", "leastLoad", "ring"}
    /\ NBalanced \in Nat \ {0}
    /\ Weights \in Seq(Nat)
    /\ LastHash \in Nat /\ \A w \in Balanced : HashesOf[w] \in Seq(0 .. LastHash)
    /\ \A v, w \in Balanced :
          v # w => ToSet(HashesOf[v]) \cap ToSet(HashesOf[w]) = {}
    /\ LoadValues \subseteq Nat
    /\ {MaxPicks, MaxRing} \subseteq Nat \ {0}

VARIABLES
    kind,          \* which balancer the scheduler has
    alive,         \* the workers that run
    counter,       \* counter of the balancers that take turns
    turns,         \* history: picks of each worker since alive changed
    hashRing,      \* hashRing
    sortedHashes,  \* sortedHashes
    members        \* history: workers added and not removed since

turnVars     == <<alive, counter, turns>>
ringVars     == <<hashRing, sortedHashes, members>>
balancerVars == <<kind, turnVars, ringVars>>

BalancerInit ==
    /\ kind \in BalancerKinds
    /\ alive = Balanced
    /\ counter = 0 /\ turns = [w \in Balanced |-> 0]
    /\ hashRing = [h \in 0 .. LastHash |-> NoWorker]
    /\ sortedHashes = <<>> /\ members = {}
-----------------------------------------------------------------------------
(* RoundRobinBalancer and WeightedRoundRobinBalancer.                      *)

(* The element of a set of numbers that is the k-th by size.               *)
Nth(S, k) == CHOOSE x \in S : Cardinality({y \in S : y <= x}) = k

(* runningWorkers: the running workers in the order of the scheduler.      *)
RunningWorkers == [k \in 1 .. Cardinality(alive) |-> Nth(alive, k)]

(* The sum of the first i weights, and of all.                             *)
Running(i) == SumFunctionOnSet(Weights, 1 .. i)
TotalWeight == Running(Len(Weights))

InTurn(count) == RunningWorkers[(count % Len(RunningWorkers)) + 1]

(* Variant: a position equal to the running sum still belongs to a worker. *)
FirstReaching(position) ==
    Min({i \in DOMAIN Weights : position <= Running(i)})

(* The first worker whose running sum of weights exceeds the position.     *)
FirstAbove(position) ==
    Min({i \in DOMAIN Weights : position < Running(i)})

(* The weights count if there is one for each running worker.              *)
WeightsApply == Len(Weights) = Len(RunningWorkers) /\ TotalWeight > 0

Weighted(count) ==
    IF WeightsApply THEN RunningWorkers[FirstAbove(count % TotalWeight)]
                    ELSE InTurn(count)

TakeTurn ==
    /\ kind \in {"roundRobin", "weighted"}
    /\ alive # {} /\ counter < MaxPicks
    /\ counter' = counter + 1
    /\ LET w == IF kind = "roundRobin" THEN InTurn(counter') ELSE Weighted(counter')
       IN  turns' = [turns EXCEPT ![w] = @ + 1]
    /\ UNCHANGED <<kind, alive, ringVars>>

(* The worker stops, or a new one with its place in the list starts.       *)
WorkerChanges(w) ==
    /\ kind \in {"roundRobin", "weighted"}
    /\ alive' = IF w \in alive THEN alive \ {w} ELSE alive \cup {w}
    /\ turns' = [v \in Balanced |-> 0]
    /\ UNCHANGED <<kind, counter, ringVars>>
-----------------------------------------------------------------------------
(* LeastLoadBalancer: the scan of the workers, in order.                   *)

Lighter(load, best, w) == best = NoWorker \/ load[w] < load[best]

LeastLoad(running, load) ==
    LET best[w \in 0 .. NBalanced] ==
            IF w = 0 THEN NoWorker
            ELSE LET b == best[w - 1] IN
                 IF b # NoWorker /\ load[b] = 0 THEN b
                 ELSE IF w \in running /\ Lighter(load, b, w) THEN w ELSE b
    IN  best[NBalanced]
-----------------------------------------------------------------------------
(* ConsistentHashBalancer.                                                 *)

(* Equal hashes keep their order.                                          *)
Sorted(hashes) ==
    LET upTo(j) == {i \in DOMAIN hashes : \/ hashes[i] < hashes[j]
                                          \/ hashes[i] = hashes[j] /\ i <= j}
    IN  [k \in DOMAIN hashes |->
            hashes[CHOOSE j \in DOMAIN hashes : Cardinality(upTo(j)) = k]]

AddWorker(w) ==
    /\ kind = "ring" /\ Len(sortedHashes) + Len(HashesOf[w]) <= MaxRing
    /\ hashRing' = [h \in 0 .. LastHash |->
                       IF h \in ToSet(HashesOf[w]) THEN w ELSE hashRing[h]]
    /\ sortedHashes' = Sorted(sortedHashes \o HashesOf[w])
    /\ members' = members \cup {w}
    /\ UNCHANGED <<kind, turnVars>>

(* Variant: RemoveWorker leaves the map alone.                             *)
ForgetNot(w) == UNCHANGED hashRing

Forget(w) ==
    hashRing' = [h \in 0 .. LastHash |->
                    IF h \in ToSet(HashesOf[w]) THEN NoWorker ELSE hashRing[h]]

(* A worker that was added twice leaves hashes without a worker behind.    *)
RemoveWorker(w) ==
    /\ kind = "ring"
    /\ Forget(w)
    /\ sortedHashes' = FoldSeq(LAMBDA h, hashes : RemoveFirst(hashes, h),
                               sortedHashes, HashesOf[w])
    /\ members' = members \ {w}
    /\ UNCHANGED <<kind, turnVars>>

(* The least index, from 0, whose hash is not below the one given.         *)
BinarySearch(hash) ==
    LET n == Len(sortedHashes)
        search[range \in (0 .. n) \X (0 .. n)] ==
            LET left  == range[1]
                right == range[2]
                mid   == (left + right) \div 2
            IN  IF left >= right THEN left
                ELSE IF sortedHashes[mid + 1] < hash THEN search[<<mid + 1, right>>]
                ELSE search[<<left, mid>>]
    IN  search[<<0, n>>]

(* SelectWorker for the hash of the current time.                          *)
RingPick(running, hash) ==
    LET n      == Len(sortedHashes)
        idx    == BinarySearch(hash)
        at(i)  == hashRing[sortedHashes[((idx + i) % n) + 1]]
        usable == {i \in 0 .. n - 1 : at(i) \in running}
    IN  IF usable = {} THEN NoWorker ELSE at(Min(usable))
-----------------------------------------------------------------------------
BalancerNext ==
    \/ TakeTurn
    \/ \E w \in Balanced : WorkerChanges(w) \/ AddWorker(w) \/ RemoveWorker(w)

BalancerSpec == BalancerInit /\ [][BalancerNext]_balancerVars
-----------------------------------------------------------------------------
(* While the set of running workers stays the same, wherever the counter   *)
(* was when it changed: after as many picks as there are workers each has  *)
(* had one turn; with weights that apply, after as many picks as they sum  *)
(* up to each worker has had its weight of them.                           *)
TurnsAreShared ==
    alive # {} /\ kind \in {"roundRobin", "weighted"} =>
        LET weighted == kind = "weighted" /\ WeightsApply
            cycle    == IF weighted THEN TotalWeight ELSE Cardinality(alive)
            picks    == SumFunctionOnSet(turns, alive)
            share(i) == IF weighted THEN Weights[i] ELSE 1
        IN  picks % cycle = 0 =>
                \A i \in DOMAIN RunningWorkers :
                    turns[RunningWorkers[i]] = share(i) * (picks \div cycle)

(* LeastLoad returns the first of the least loaded running workers, and    *)
(* nil only if none runs, although it stops at the first idle one.         *)
LeastLoadedFirst ==
    \A running \in SUBSET Balanced, load \in [Balanced -> LoadValues] :
        LET least == {w \in running : \A v \in running : load[w] <= load[v]}
        IN  LeastLoad(running, load) = IF least = {} THEN NoWorker ELSE Min(least)

(* Whatever was added, added again and removed, the ring answers with the  *)
(* running member whose virtual node is the next clockwise, and with nil   *)
(* only if no member runs.                                                 *)
SuccessorOnRing ==
    \A running \in SUBSET Balanced, hash \in 0 .. LastHash :
        LET nodes == UNION {ToSet(HashesOf[w]) : w \in running \cap members}
            next  == {h \in nodes : h >= hash}
            first == IF next # {} THEN Min(next) ELSE Min(nodes)
        IN  RingPick(running, hash) =
                IF nodes = {} THEN NoWorker
                ELSE CHOOSE w \in members : first \in ToSet(HashesOf[w])

(* The two balancers that search pick what their definition says: the scan *)
(* for the least load, and the binary search and walk on the ring, which   *)
(* never returns a worker that was removed (load_balancer.go:228-281).     *)
PicksAreRight ==
    /\ kind = "leastLoad" => LeastLoadedFirst
    /\ kind = "ring" => SuccessorOnRing
=============================================================================
