---------------------------- MODULE MCSwarmFlow ----------------------------
(* SwarmFlow on a small instance: two independent lanes, and one that uses *)
(* the work of the first.                                                  *)
EXTENDS SwarmFlow

CONSTANTS a, b, c, k1

OnFirst == [l \in {a, b, c} |-> IF l = c THEN {a} ELSE {}]
=============================================================================
