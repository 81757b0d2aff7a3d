--------------------------- MODULE MCRateLimiter ---------------------------
(* RateLimiter on a small instance: keys and requests are interchangeable. *)
EXTENDS RateLimiter, TLC

Symmetric == Permutations(Keys) \cup Permutations(Calls)
=============================================================================
