--------------------------- MODULE MCRateLimiter ---------------------------
(* Instances of RateLimiter for TLC. *)
EXTENDS RateLimiter, TLC

Interchangeable == Permutations(Procs) \cup Permutations(Keys)
=============================================================================
