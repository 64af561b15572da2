---------------------------- MODULE MCRateLimiter ----------------------------
(* Small instances of RateLimiter for TLC. *)
EXTENDS RateLimiter, TLC

\* Callers and keys are interchangeable.
Symmetry == Permutations(Caller) \cup Permutations(Key)
=============================================================================
