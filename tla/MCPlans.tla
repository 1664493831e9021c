------------------------------ MODULE MCPlans ------------------------------
(* Plans on a small instance: a plan in two phases and a flat one, both    *)
(* from the gate, and builds: of independent subtasks, and with a first    *)
(* subtask that needs the last one.                                        *)
EXTENDS Plans, TLC

CONSTANTS s1, s2

OnePhase == [s \in Steps |-> 1]
TwoPhases == [s \in Steps |-> IF s = 1 THEN 1 ELSE 2]
Free == [s \in Steps |-> {}]
Backward == [s \in Steps |-> IF s = 1 THEN {N} ELSE {}]
Gated(phase) == [origin |-> "gate", phase |-> phase, deps |-> Free]
Built(deps) == [origin |-> "build", phase |-> OnePhase, deps |-> deps]

AllShapes == {Gated(TwoPhases), Gated(OnePhase), Built(Free), Built(Backward)}
Symmetry == Permutations(Shells)
=============================================================================
