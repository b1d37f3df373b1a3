--------------------------- MODULE MCRateLimiter ---------------------------
(* RateLimiter for TLC: attempts, machines and ports are interchangeable.  *)
EXTENDS RateLimiter, TLC

Symmetry == Permutations(Attempt) \cup Permutations(Machine) \cup Permutations(Port)
=============================================================================
