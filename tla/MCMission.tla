----------------------------- MODULE MCMission -----------------------------
(* A small plan for TLC: a gate listed before the work it depends on.      *)
EXTENDS Mission

S(c, g, d) == [cap |-> c, gate |-> g, deps |-> d]

Gated == <<S("test", TRUE, {2}), S("implement", FALSE, {})>>
MCPlans == {Gated}

(* A retest that names its fix before the splice has reached it, and a fix *)
(* that names the retest.                                                  *)
Retest == <<S("test", TRUE, {2, 4}), S("implement", FALSE, {3})>>
MCAdditions == {<<>>, Retest}

=============================================================================
