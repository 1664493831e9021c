------------------------------ MODULE MCSwarm ------------------------------
(* Small orchestrations for TLC.                                           *)
EXTENDS Swarm

CONSTANTS a, b, c, d

(* c needs a and b to succeed, d runs if a does not.                       *)
MCDependsOn == [l \in Lanes |-> IF l = c THEN {a, b} ELSE IF l = d THEN {a} ELSE {}]
MCWhen == [l \in Lanes |-> IF l = c THEN "on_success"
                           ELSE IF l = d THEN "on_failure" ELSE "always"]

Staged(ws) == [staged |-> TRUE, waves |-> ws]
Flat(w) == [staged |-> FALSE, waves |-> <<w>>]

(* A graph, a flat fan-out wider than the pool, and one lane of it again.  *)
MCPlans == {Staged(<< <<a, b>>, <<c, d>> >>), Flat(<<a, b, c>>), Flat(<<b>>)}
=============================================================================
