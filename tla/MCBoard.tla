------------------------------ MODULE MCBoard ------------------------------
(* Instances of Board for TLC. *)
EXTENDS Board, TLC

Interchangeable == Permutations(Procs)
=============================================================================
