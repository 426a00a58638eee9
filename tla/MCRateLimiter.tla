---------------------------- MODULE MCRateLimiter ----------------------------
(* Small instances of RateLimiter: slots are interchangeable, and so are the *)
(* addresses.                                                                *)
EXTENDS RateLimiter, TLC

Symmetry == Permutations(Req) \cup Permutations(Addr)
=============================================================================
