-------------------------- MODULE MCLockFreeQueue --------------------------
(***************************************************************************)
(* Instances of LockFreeQueue for TLC.                                     *)
(***************************************************************************)
EXTENDS LockFreeQueue

(* The code's capacities are powers of two; the proofs do not need it.     *)
ASSUME PowerOfTwo == \E k \in 0 .. 10 : Capacity = 2 ^ k

(* Items are interchangeable, and so are producers; safety runs only.      *)
Symmetry == Permutations(Items) \cup Permutations(Producers)

(* What symmetry would save, where liveness is checked too: items that are *)
(* numbers are offered in their order.                                     *)
InOrder == \A x \in outside \ outside', y \in outside : x <= y

OrderedSpec == Init /\ [][Next /\ InOrder]_vars /\ Fairness
=============================================================================
