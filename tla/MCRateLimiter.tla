---------------------------- MODULE MCRateLimiter ----------------------------
(* Sessions are interchangeable. *)
EXTENDS RateLimiter, TLC

MCLimits == {1, 3, Inf}
Symmetry == Permutations(Sessions)
=============================================================================
