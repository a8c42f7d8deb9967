---------------------------- MODULE MCRateLimiter ----------------------------
(* Three visitors for two places in the table, two handlers that may       *)
(* overtake each other by a tick, and time for a window and a half more.    *)
EXTENDS RateLimiter, TLC

CONSTANTS v1, v2, v3, r1, r2

Symmetry == Permutations(Visitors) \cup Permutations(Requests)
=============================================================================
