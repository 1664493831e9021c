----------------------------- MODULE MCSchedule -----------------------------
(* Schedule on a small instance: intervals of two slices, and a daily job  *)
(* in a day of three.                                                      *)
EXTENDS Schedule, TLC

CONSTANTS j1, j2, e1, d1, d2

Cadences == {[type |-> "interval", every |-> 2], [type |-> "dailyAt", minutesOfDay |-> 1]}
Symmetry == Permutations(Jobs) \cup Permutations(Editors)
=============================================================================
