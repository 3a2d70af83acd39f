---------------------------- MODULE MCRateLimiter ----------------------------
(* Two callers of a bucket whose rate is not a whole number of tokens per tick. *)
EXTENDS RateLimiter, TLC

CONSTANTS w1, w2

MCWaiters == {w1, w2}
WaiterSymmetry == Permutations(MCWaiters)
=============================================================================
