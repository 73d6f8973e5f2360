----------------------------- MODULE MCRateLimit ----------------------------
(* RateLimitCalls on a small instance: one key, since keys share nothing. *)
EXTENDS RateLimitCalls, TLC

MCSymmetry == Permutations(Caller)
=============================================================================
