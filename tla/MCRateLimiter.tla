---------------------------- MODULE MCRateLimiter ----------------------------
(***************************************************************************)
(* Instances of RateLimiter for TLC: a second of three ticks, so that TTL  *)
(* can be rounded either way, and a window of two seconds.                 *)
(***************************************************************************)
EXTENDS RateLimiter, TLC

RequestSymmetry == Permutations(Requests)
=============================================================================
