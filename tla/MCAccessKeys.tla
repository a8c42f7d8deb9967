---------------------------- MODULE MCAccessKeys ----------------------------
(* Two requests, a provider that publishes two documents in its time, and  *)
(* an assertion that expires, one that is not in force yet, and one that   *)
(* is signed with the wrong key.                                           *)
EXTENDS AccessKeys

CONSTANTS p1, p2, k1, k2

Brought ==
  {[keyID |-> k1, sound |-> TRUE, from |-> -1, expires |-> 1],
   [keyID |-> k2, sound |-> TRUE, from |-> 3, expires |-> 9],
   [keyID |-> k2, sound |-> FALSE, from |-> 0, expires |-> 9]}
=============================================================================
