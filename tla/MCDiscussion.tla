---------------------------- MODULE MCDiscussion ----------------------------
(* Instances of Discussion for TLC. *)
EXTENDS Discussion, TLC

Interchangeable == Permutations(Procs) \cup Permutations(Users \ Mods)
                   \cup Permutations(Mods)
=============================================================================
