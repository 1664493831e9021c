------------------------------ MODULE LaneDag ------------------------------
(***************************************************************************)
(* What a fan-out promises of its lanes (runSwarm and runSwarmStaged of    *)
(* packages/core/src/swarm/run-swarm.ts), whatever worktrees, pools,       *)
(* retries and merges it does so with.  A staged call takes a lane up once *)
(* every lane it needs is settled, if its condition holds of their fates,  *)
(* and skips it otherwise; a lane taken up settles once; a lane that ran   *)
(* is called failed after the fact only while no lane that needs it has    *)
(* been taken up; and a call that returns has settled all of its lanes.    *)
(* Swarm implements this specification.                                    *)
(***************************************************************************)
CONSTANTS Lanes, DependsOn, When
VARIABLES status,   \* of the call: none yet, open, returned, dropped
          judged,   \* it looks at dependencies and conditions (staged)
          members,  \* the lanes of the call
          fate      \* what has become of each lane

vars == <<status, judged, members, fate>>

Settled == {"skipped", "ran", "failed"}

TypeOK == /\ status \in {"none", "open", "returned", "dropped"}
          /\ judged \in BOOLEAN
          /\ members \subseteq Lanes
          /\ fate \in [Lanes -> {"waiting", "taken"} \cup Settled]

Init == /\ status = "none" /\ judged = FALSE
        /\ members = {}
        /\ fate = [l \in Lanes |-> "waiting"]

(* A dependency that is not in the call does not count.                    *)
Needs(l) == DependsOn[l] \cap members

Holds(l) ==
    \/ When[l] = "always"
    \/ When[l] = "on_success" /\ \A d \in Needs(l) : fate[d] = "ran"
    \/ When[l] = "on_failure" /\ \E d \in Needs(l) : fate[d] # "ran"

(* A flat call takes all of its lanes up at once; a staged one may be      *)
(* refused its first worktree.                                             *)
Call(S, staged) ==
    /\ status # "open"
    /\ status' = "open" \/ (staged /\ status' = "dropped")
    /\ judged' = staged /\ members' = S
    /\ fate' = [l \in Lanes |-> IF ~staged /\ l \in S THEN "taken" ELSE "waiting"]

(* The next lanes, whose dependencies have settled.  A call returns at     *)
(* once when that leaves it nothing to do.                                 *)
TakeUp(S) ==
    /\ status = "open" /\ judged
    /\ S \subseteq members
    /\ \A l \in S : fate[l] = "waiting" /\ \A d \in Needs(l) : fate[d] \in Settled
    /\ fate' = [l \in Lanes |-> IF l \notin S THEN fate[l]
                                ELSE IF Holds(l) THEN "taken" ELSE "skipped"]
    /\ \/ UNCHANGED status
       \/ status' = "returned" /\ \A l \in members : fate'[l] \in Settled
    /\ UNCHANGED <<judged, members>>

Settle(l) ==
    /\ status = "open"
    /\ fate[l] = "taken"
    /\ \E f \in {"ran", "failed"} : fate' = [fate EXCEPT ![l] = f]
    /\ UNCHANGED <<status, judged, members>>

(* Lanes whose merged work did not pass the gate.                          *)
Undo(S) ==
    /\ status = "open" /\ judged
    /\ \A l \in S : fate[l] = "ran"
    /\ \A m \in members : Needs(m) \cap S # {} => fate[m] = "waiting"
    /\ fate' = [l \in Lanes |-> IF l \in S THEN "failed" ELSE fate[l]]
    /\ UNCHANGED <<status, judged, members>>

Return ==
    /\ status = "open"
    /\ \A l \in members : fate[l] \in Settled
    /\ status' = "returned"
    /\ UNCHANGED <<judged, members, fate>>

(* The call throws or its process dies, perhaps with lanes in hand.        *)
Drop ==
    /\ status = "open"
    /\ status' = "dropped"
    /\ UNCHANGED <<judged, members, fate>>

Next ==
    \/ \E S \in SUBSET Lanes : \/ \E staged \in BOOLEAN : Call(S, staged)
                               \/ TakeUp(S) \/ Undo(S)
    \/ \E l \in Lanes : Settle(l)
    \/ Return \/ Drop

Spec == Init /\ [][Next]_vars
=============================================================================
