------------------------------- MODULE MCPool -------------------------------
(***************************************************************************)
(* Instances of Pool for TLC.                                              *)
(***************************************************************************)
EXTENDS Pool, TLC

(* Tasks are interchangeable; safety runs only.                            *)
TaskSymmetry == Permutations(Tasks)
=============================================================================
