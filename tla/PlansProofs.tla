---------------------------- MODULE PlansProofs ----------------------------
(***************************************************************************)
(* Proofs about Plans, for any number of steps, shells, resumptions and    *)
(* faults: what the sidecar, the status and the phases say of the          *)
(* repository, and how a drive goes on.                                    *)
(***************************************************************************)
EXTENDS Plans, TLAPS

(* Work done is said done only where it is: on disk, in memory, on the way. *)
TruthInv ==
  ~blind => /\ recorded \subseteq tree
            /\ \A d \in Shells, s \in Steps :
                 /\ mem[d][s] = "done" => s \in tree
                 /\ buf[d].status[s] = "done" => s \in tree

SideInv == \A s \in Steps : side.status[s] = "done" => s \in recorded

Running(d) == pc[d] \in {"phase", "step", "work", "swarm"}

(* The dependencies are lost only with the sidecar.                        *)
LinkInv ==
  ~lost => /\ side.ok => side.deps
           /\ \A d \in Shells : /\ writing[d] => buf[d].deps
                                /\ Running(d) => linked[d]

Before(d) == pc[d] \in {"open", "build", "alone", "flat"}

(* A shell that does not drive the plan writes nothing; a build has no     *)
(* step done before it returns.                                            *)
ShellInv ==
  /\ \A d \in Shells : ~Driving(d) \/ pc[d] = "flat" => ~writing[d] /\ todo[d] = {}
  /\ \A d \in Shells : Before(d) => Settled(mem[d]) = {}
  /\ \A d \in Shells : pc[d] \in {"work", "swarm"} => \A s \in cur[d] : mem[d][s] = "active"
  /\ ~approved => md = "none" /\ recorded = {} /\ \A d \in Shells : pc[d] = "idle"

(* What was recorded stays settled, on disk and with the one shell that    *)
(* drives the plan.                                                        *)
LoneInv ==
  ~lost /\ ~overlap =>
    /\ \A d, e \in Shells : Driving(d) /\ Driving(e) => d = e
    /\ side.ok => recorded \subseteq Settled(side.status)
    /\ \A d \in Shells :
         /\ Before(d) => recorded = {}
         /\ Driving(d) => recorded \subseteq Settled(mem[d])
         /\ writing[d] => /\ recorded \subseteq Settled(buf[d].status)
                          /\ \A s \in Steps : buf[d].status[s] = "done" => s \in Settled(mem[d])

-----------------------------------------------------------------------------
LEMMA Bounds ==
  /\ N \in Nat /\ 0 \in 0 .. N
  /\ MaxResumes \in Nat /\ MaxFaults \in Nat
  /\ \A p \in Shapes, s \in Steps : p.phase[s] \in 0 .. N /\ p.deps[s] \subseteq Steps
  /\ AllPending \in [Steps -> Statuses]
  /\ \A b \in BOOLEAN : [status |-> AllPending, deps |-> b] \in Content
<1>1. AllPending \in [Steps -> Statuses]
  BY DEF AllPending, Statuses
<1> QED
  BY <1>1, PlansAssumption DEF Shape, Steps, Content

LEMMA StoredType == TypeOK => Stored \in Content
  BY Bounds DEF Stored, TypeOK, Content

LEMMA InitTypes == Init => TypeOK
<1> SUFFICES ASSUME Init PROVE TypeOK
  OBVIOUS
<1>1. buf \in [Shells -> Content] /\ mem \in [Shells -> [Steps -> Statuses]]
  BY Bounds DEF Init
<1>2. side \in [ok : BOOLEAN, status : [Steps -> Statuses], deps : BOOLEAN]
  BY Bounds DEF Init
<1>3. /\ pc \in [Shells -> Places] /\ ph \in [Shells -> 0 .. N]
      /\ resumes \in 0 .. MaxResumes /\ faults \in 0 .. MaxFaults
  BY Bounds DEF Init, Places
<1> QED
  BY <1>1, <1>2, <1>3 DEF Init, TypeOK

LEMMA NextTypes == TypeOK /\ [Next]_vars => TypeOK'
<1> SUFFICES ASSUME TypeOK, [Next]_vars PROVE TypeOK'
  OBVIOUS
<1>1. /\ Stored \in Content /\ AllPending \in [Steps -> Statuses]
      /\ \A s \in Steps : plan.phase[s] \in 0 .. N
      /\ N \in Nat /\ MaxResumes \in Nat /\ MaxFaults \in Nat
  BY Bounds, StoredType DEF TypeOK
<1>2. ASSUME NEW d \in Shells, OpenSidecar(d) PROVE TypeOK'
  <2>1. PICK s \in Steps : buf' = [buf EXCEPT ![d] = WithStatus(d, s)]
    BY <1>2 DEF OpenSidecar
  <2>2. WithStatus(d, s) \in Content
    BY <1>1 DEF WithStatus, TypeOK, Content
  <2> QED
    BY <1>2, <1>1, <2>1, <2>2 DEF OpenSidecar, bounds, TypeOK
<1>3. ASSUME NEW d \in Shells, FillSidecar(d) PROVE TypeOK'
  BY <1>3, <1>1 DEF FillSidecar, Rest, bounds, TypeOK, Content
<1>4. ASSUME NEW d \in Shells, WriteFails(d) PROVE TypeOK'
  BY <1>4, <1>1 DEF WriteFails, Rest, disk, history, TypeOK, Content
<1>5. ASSUME NEW d \in Shells, Approve(d) PROVE TypeOK'
  <2>1. buf' \in [Shells -> Content]
    BY <1>5, Bounds DEF Approve, SavePlan, SaveFails, TypeOK
  <2>2. UNCHANGED side /\ md' \in {"none", "approved", "executed"}
    BY <1>5, <1>1 DEF Approve, SavePlan, SaveFails, TypeOK, disk
  <2>3. writing' \in [Shells -> BOOLEAN] /\ tracked' \in [Shells -> BOOLEAN]
    BY <1>5, <1>1 DEF Approve, SavePlan, SaveFails, TypeOK
  <2>4. faults' \in 0 .. MaxFaults
    BY <1>5, <1>1 DEF Approve, SavePlan, SaveFails, TypeOK
  <2>5. fan' \in [Shells -> BOOLEAN]
    BY <1>5, Zenon DEF Approve, TypeOK
  <2> QED
    BY <1>5, <1>1, <2>1, <2>2, <2>3, <2>4, <2>5 DEF Approve, history, TypeOK,
         Places
<1>6. ASSUME NEW d \in Shells, ApproveFlat(d) PROVE TypeOK'
  BY <1>6, <1>1 DEF ApproveFlat, disk, history, bounds, TypeOK, Places
<1>7. ASSUME NEW d \in Shells, FlatReturns(d) PROVE TypeOK'
  <2>1. buf' \in [Shells -> Content]
    BY <1>7, Bounds DEF FlatReturns, SavePlan, SaveFails, TypeOK
  <2>2. UNCHANGED side /\ md' \in {"none", "approved", "executed"}
    BY <1>7, <1>1 DEF FlatReturns, SavePlan, SaveFails, TypeOK, disk
  <2>3. writing' \in [Shells -> BOOLEAN] /\ tracked' \in [Shells -> BOOLEAN]
    BY <1>7, <1>1 DEF FlatReturns, SavePlan, SaveFails, TypeOK
  <2>4. faults' \in 0 .. MaxFaults
    BY <1>7, <1>1 DEF FlatReturns, SavePlan, SaveFails, TypeOK
  <2> QED
    BY <1>7, <1>1, <2>1, <2>2, <2>3, <2>4 DEF FlatReturns, history, TypeOK,
         Places
<1>8. ASSUME NEW d \in Shells, FlatThrows(d) PROVE TypeOK'
  BY <1>8, <1>1 DEF FlatThrows, disk, history, bounds, TypeOK, Places
<1>9. ASSUME NEW d \in Shells, EnterPhase(d) PROVE TypeOK'
  BY <1>9, <1>1 DEF EnterPhase, Left, Later, Pending, Marked, Checkpoint, disk,
       history, bounds, TypeOK, Statuses, Places
<1>10. ASSUME NEW d \in Shells, SwarmReturns(d) PROVE TypeOK'
  <2>1. mem' \in [Shells -> [Steps -> Statuses]]
    <3>1. PICK landed \in SUBSET cur[d] :
            mem' = [mem EXCEPT ![d] = [s \in Steps |->
              IF s \in landed THEN "done" ELSE IF s \in cur[d] THEN "blocked" ELSE @[s]]]
      BY <1>10 DEF SwarmReturns
    <3>2. [s \in Steps |-> IF s \in landed THEN "done"
             ELSE IF s \in cur[d] THEN "blocked" ELSE mem[d][s]] \in [Steps -> Statuses]
      BY <1>1 DEF TypeOK, Statuses
    <3> QED
      BY <3>1, <3>2 DEF TypeOK
  <2> QED
    BY <1>10, <2>1 DEF SwarmReturns, Checkpoint, disk, history, bounds, TypeOK,
         Places
<1>11. ASSUME NEW d \in Shells, RunStep(d) PROVE TypeOK'
  BY <1>11, <1>1 DEF RunStep, IsFirst, Left, Pending, Checkpoint, disk, history,
       bounds, TypeOK, Statuses, Places
<1>12. ASSUME NEW d \in Shells, BlockStep(d) PROVE TypeOK'
  BY <1>12, <1>1 DEF BlockStep, IsFirst, Left, Pending, Checkpoint, disk,
       history, bounds, TypeOK, Statuses, Places
<1>13. ASSUME NEW d \in Shells, LeavePhase(d) PROVE TypeOK'
  BY <1>13, <1>1 DEF LeavePhase, disk, local, history, bounds, TypeOK, Statuses,
       Places
<1>14. ASSUME NEW d \in Shells, StepDone(d) PROVE TypeOK'
  BY <1>14, <1>1 DEF StepDone, Marked, Checkpoint, disk, history, bounds,
       TypeOK, Statuses, Places
<1>15. ASSUME NEW d \in Shells, StepBlocked(d) PROVE TypeOK'
  BY <1>15, <1>1 DEF StepBlocked, Marked, Checkpoint, disk, history, bounds,
       TypeOK, Statuses, Places
<1>16. ASSUME NEW d \in Shells, StopRunning(d) PROVE TypeOK'
  BY <1>16, <1>1 DEF StopRunning, disk, local, history, bounds, TypeOK,
       Statuses, Places
<1>17. ASSUME NEW d \in Shells, Finish(d) PROVE TypeOK'
  BY <1>17, <1>1 DEF Finish, Idle, history, bounds, TypeOK, Content, Statuses,
       Places
<1>18. ASSUME NEW d \in Shells, OpenBuild(d) PROVE TypeOK'
  BY <1>18, <1>1 DEF OpenBuild, Marked, Checkpoint, disk, history, bounds,
       TypeOK, Content, Statuses, Places
<1>19. ASSUME NEW d \in Shells, BuildReturns(d) PROVE TypeOK'
  <2>1. mem' \in [Shells -> [Steps -> Statuses]]
    BY <1>19 DEF BuildReturns, TypeOK, Statuses
  <2> QED
    BY <1>19, <2>1 DEF BuildReturns, Checkpoint, disk, history, bounds, TypeOK,
         Places
<1>20. ASSUME NEW d \in Shells, BuildThrows(d) PROVE TypeOK'
  BY <1>20, <1>1 DEF BuildThrows, Checkpoint, disk, history, bounds, TypeOK,
       Statuses, Places
<1>21. ASSUME NEW d \in Shells, AloneReturns(d) PROVE TypeOK'
  BY <1>21, <1>1 DEF AloneReturns, Marked, Checkpoint, disk, bounds, TypeOK,
       Statuses, Places
<1>22. ASSUME NEW d \in Shells, AloneThrows(d) PROVE TypeOK'
  BY <1>22, <1>1 DEF AloneThrows, Marked, Checkpoint, disk, history, bounds,
       TypeOK, Statuses, Places
<1>23. ASSUME NEW d \in Shells, Offer(d) PROVE TypeOK'
  BY <1>23, <1>1 DEF Offer, Resumable, disk, local, history, bounds, TypeOK,
       Statuses, Places
<1>24. ASSUME NEW d \in Shells, Decline(d) PROVE TypeOK'
  BY <1>24, <1>1 DEF Decline, disk, local, history, bounds, TypeOK, Statuses,
       Places
<1>25. ASSUME NEW d \in Shells, Resume(d) PROVE TypeOK'
  <2>1. mem' \in [Shells -> [Steps -> Statuses]] /\ linked' \in [Shells -> BOOLEAN]
    BY <1>25, <1>1 DEF Resume, Load, TypeOK, Content
  <2>2. faults' \in 0 .. MaxFaults /\ resumes' \in 0 .. MaxResumes
    BY <1>25, <1>1 DEF Resume, TypeOK
  <2> QED
    BY <1>25, <2>1, <2>2 DEF Resume, disk, TypeOK, Places
<1>26. ASSUME NEW d \in Shells, NothingLeft(d) PROVE TypeOK'
  BY <1>26, <1>1 DEF NothingLeft, disk, local, history, bounds, TypeOK, Content,
       Places
<1>27. ASSUME NEW d \in Shells, Abort(d) PROVE TypeOK'
  BY <1>27, <1>1 DEF Abort, disk, history, TypeOK, Places
<1>28. ASSUME NEW d \in Shells, Crash(d) PROVE TypeOK'
  BY <1>28, <1>1 DEF Crash, Idle, disk, history, TypeOK, Content, Places
<1>29. CASE UNCHANGED vars
  BY <1>29, <1>1 DEF vars, disk, local, history, bounds, TypeOK, Content, Places
<1> QED
  BY <1>1, <1>2, <1>3, <1>4, <1>5, <1>6, <1>7, <1>8, <1>9, <1>10, <1>11, <1>12,
       <1>13, <1>14, <1>15, <1>16, <1>17, <1>18, <1>19, <1>20, <1>21, <1>22,
       <1>23, <1>24, <1>25, <1>26, <1>27, <1>28, <1>29 DEF Next, Store, Drive,
       Build, Pickup

LEMMA NextSide == TypeOK /\ SideInv /\ [Next]_vars => SideInv'
<1> SUFFICES ASSUME TypeOK, SideInv, [Next]_vars PROVE SideInv'
  OBVIOUS
<1>1. /\ Stored \in Content /\ AllPending \in [Steps -> Statuses]
      /\ mem \in [Shells -> [Steps -> Statuses]] /\ buf \in [Shells -> Content]
      /\ side \in [ok : BOOLEAN, status : [Steps -> Statuses], deps : BOOLEAN]
      /\ pc \in [Shells -> Places] /\ writing \in [Shells -> BOOLEAN]
      /\ tracked \in [Shells -> BOOLEAN] /\ linked \in [Shells -> BOOLEAN]
      /\ cur \in [Shells -> SUBSET Steps] /\ todo \in [Shells -> SUBSET Steps]
      /\ tree \subseteq Steps /\ recorded \subseteq Steps
      /\ \A s \in Steps : AllPending[s] = "pending"
  BY Bounds, StoredType DEF TypeOK, AllPending
<1>2. ASSUME NEW d \in Shells, OpenSidecar(d) PROVE SideInv'
  BY <1>2, <1>1 DEF OpenSidecar, WithStatus, Stored, AllPending, IsFirst,
       bounds, SideInv
<1>3. ASSUME NEW d \in Shells, FillSidecar(d) PROVE SideInv'
  BY <1>3, <1>1 DEF FillSidecar, bounds, SideInv
<1>4. ASSUME NEW d \in Shells, WriteFails(d) PROVE SideInv'
  BY <1>4, <1>1 DEF WriteFails, disk, history, SideInv
<1>5. ASSUME NEW d \in Shells, Approve(d) PROVE SideInv'
  BY <1>5, <1>1 DEF Approve, SavePlan, SaveFails, AllPending, disk, history,
       SideInv
<1>6. ASSUME NEW d \in Shells, ApproveFlat(d) PROVE SideInv'
  BY <1>6, <1>1 DEF ApproveFlat, AllPending, disk, history, bounds, SideInv
<1>7. ASSUME NEW d \in Shells, FlatReturns(d) PROVE SideInv'
  BY <1>7, <1>1 DEF FlatReturns, SavePlan, SaveFails, AllPending, disk, SideInv
<1>8. ASSUME NEW d \in Shells, FlatThrows(d) PROVE SideInv'
  BY <1>8, <1>1 DEF FlatThrows, disk, history, bounds, SideInv
<1>9. ASSUME NEW d \in Shells, EnterPhase(d) PROVE SideInv'
  BY <1>9, <1>1 DEF EnterPhase, Left, Later, Pending, Marked, disk, history,
       bounds, SideInv
<1>10. ASSUME NEW d \in Shells, SwarmReturns(d) PROVE SideInv'
  BY <1>10, <1>1 DEF SwarmReturns, disk, history, bounds, SideInv
<1>11. ASSUME NEW d \in Shells, RunStep(d) PROVE SideInv'
  BY <1>11, <1>1 DEF RunStep, IsFirst, Left, Pending, disk, history, bounds,
       SideInv
<1>12. ASSUME NEW d \in Shells, BlockStep(d) PROVE SideInv'
  BY <1>12, <1>1 DEF BlockStep, IsFirst, Left, Pending, disk, history, bounds,
       SideInv
<1>13. ASSUME NEW d \in Shells, LeavePhase(d) PROVE SideInv'
  BY <1>13, <1>1 DEF LeavePhase, disk, local, history, bounds, SideInv
<1>14. ASSUME NEW d \in Shells, StepDone(d) PROVE SideInv'
  BY <1>14, <1>1 DEF StepDone, Marked, disk, history, bounds, SideInv
<1>15. ASSUME NEW d \in Shells, StepBlocked(d) PROVE SideInv'
  BY <1>15, <1>1 DEF StepBlocked, Marked, disk, history, bounds, SideInv
<1>16. ASSUME NEW d \in Shells, StopRunning(d) PROVE SideInv'
  BY <1>16, <1>1 DEF StopRunning, disk, local, history, bounds, SideInv
<1>17. ASSUME NEW d \in Shells, Finish(d) PROVE SideInv'
  BY <1>17, <1>1 DEF Finish, Idle, history, bounds, SideInv
<1>18. ASSUME NEW d \in Shells, OpenBuild(d) PROVE SideInv'
  BY <1>18, <1>1 DEF OpenBuild, Marked, disk, history, bounds, SideInv
<1>19. ASSUME NEW d \in Shells, BuildReturns(d) PROVE SideInv'
  BY <1>19, <1>1 DEF BuildReturns, disk, history, bounds, SideInv
<1>20. ASSUME NEW d \in Shells, BuildThrows(d) PROVE SideInv'
  BY <1>20, <1>1 DEF BuildThrows, disk, history, bounds, SideInv
<1>21. ASSUME NEW d \in Shells, AloneReturns(d) PROVE SideInv'
  BY <1>21, <1>1 DEF AloneReturns, Marked, disk, bounds, SideInv
<1>22. ASSUME NEW d \in Shells, AloneThrows(d) PROVE SideInv'
  BY <1>22, <1>1 DEF AloneThrows, Marked, disk, history, bounds, SideInv
<1>23. ASSUME NEW d \in Shells, Offer(d) PROVE SideInv'
  BY <1>23, <1>1 DEF Offer, Resumable, disk, local, history, bounds, SideInv
<1>24. ASSUME NEW d \in Shells, Decline(d) PROVE SideInv'
  BY <1>24, <1>1 DEF Decline, disk, local, history, bounds, SideInv
<1>25. ASSUME NEW d \in Shells, Resume(d) PROVE SideInv'
  BY <1>25, <1>1 DEF Resume, Load, Stored, disk, SideInv
<1>26. ASSUME NEW d \in Shells, NothingLeft(d) PROVE SideInv'
  BY <1>26, <1>1 DEF NothingLeft, disk, local, history, bounds, SideInv
<1>27. ASSUME NEW d \in Shells, Abort(d) PROVE SideInv'
  BY <1>27, <1>1 DEF Abort, disk, history, SideInv
<1>28. ASSUME NEW d \in Shells, Crash(d) PROVE SideInv'
  BY <1>28, <1>1 DEF Crash, Idle, disk, history, SideInv
<1>29. CASE UNCHANGED vars
  BY <1>29, <1>1 DEF vars, disk, local, history, bounds, SideInv
<1> QED
  BY <1>1, <1>2, <1>3, <1>4, <1>5, <1>6, <1>7, <1>8, <1>9, <1>10, <1>11, <1>12,
       <1>13, <1>14, <1>15, <1>16, <1>17, <1>18, <1>19, <1>20, <1>21, <1>22,
       <1>23, <1>24, <1>25, <1>26, <1>27, <1>28, <1>29 DEF Next, Store, Drive,
       Build, Pickup

LEMMA NextTruth == TypeOK /\ SideInv /\ TruthInv /\ [Next]_vars => TruthInv'
<1> SUFFICES ASSUME TypeOK, SideInv, TruthInv, [Next]_vars PROVE TruthInv'
  OBVIOUS
<1>1. /\ Stored \in Content /\ AllPending \in [Steps -> Statuses]
      /\ mem \in [Shells -> [Steps -> Statuses]] /\ buf \in [Shells -> Content]
      /\ side \in [ok : BOOLEAN, status : [Steps -> Statuses], deps : BOOLEAN]
      /\ pc \in [Shells -> Places] /\ writing \in [Shells -> BOOLEAN]
      /\ tracked \in [Shells -> BOOLEAN] /\ linked \in [Shells -> BOOLEAN]
      /\ cur \in [Shells -> SUBSET Steps] /\ todo \in [Shells -> SUBSET Steps]
      /\ tree \subseteq Steps /\ recorded \subseteq Steps
      /\ \A s \in Steps : AllPending[s] = "pending"
  BY Bounds, StoredType DEF TypeOK, AllPending
<1>2. ASSUME NEW d \in Shells, OpenSidecar(d) PROVE TruthInv'
  BY <1>2, <1>1 DEF OpenSidecar, WithStatus, Stored, AllPending, IsFirst,
       bounds, SideInv, TruthInv
<1>3. ASSUME NEW d \in Shells, FillSidecar(d) PROVE TruthInv'
  BY <1>3, <1>1 DEF FillSidecar, bounds, SideInv, TruthInv
<1>4. ASSUME NEW d \in Shells, WriteFails(d) PROVE TruthInv'
  BY <1>4, <1>1 DEF WriteFails, disk, history, SideInv, TruthInv
<1>5. ASSUME NEW d \in Shells, Approve(d) PROVE TruthInv'
  BY <1>5, <1>1 DEF Approve, SavePlan, SaveFails, AllPending, disk, history,
       SideInv, TruthInv
<1>6. ASSUME NEW d \in Shells, ApproveFlat(d) PROVE TruthInv'
  BY <1>6, <1>1 DEF ApproveFlat, AllPending, disk, history, bounds, TruthInv
<1>7. ASSUME NEW d \in Shells, FlatReturns(d) PROVE TruthInv'
  BY <1>7, <1>1 DEF FlatReturns, SavePlan, SaveFails, AllPending, disk, TruthInv
<1>8. ASSUME NEW d \in Shells, FlatThrows(d) PROVE TruthInv'
  BY <1>8, <1>1 DEF FlatThrows, disk, history, bounds, TruthInv
<1>9. ASSUME NEW d \in Shells, EnterPhase(d) PROVE TruthInv'
  BY <1>9, <1>1 DEF EnterPhase, Left, Later, Pending, Marked, disk, history,
       bounds, TruthInv
<1>10. ASSUME NEW d \in Shells, SwarmReturns(d) PROVE TruthInv'
  BY <1>10, <1>1 DEF SwarmReturns, disk, history, bounds, TruthInv
<1>11. ASSUME NEW d \in Shells, RunStep(d) PROVE TruthInv'
  BY <1>11, <1>1 DEF RunStep, IsFirst, Left, Pending, disk, history, bounds,
       TruthInv
<1>12. ASSUME NEW d \in Shells, BlockStep(d) PROVE TruthInv'
  BY <1>12, <1>1 DEF BlockStep, IsFirst, Left, Pending, disk, history, bounds,
       TruthInv
<1>13. ASSUME NEW d \in Shells, LeavePhase(d) PROVE TruthInv'
  BY <1>13, <1>1 DEF LeavePhase, disk, local, history, bounds, TruthInv
<1>14. ASSUME NEW d \in Shells, StepDone(d) PROVE TruthInv'
  BY <1>14, <1>1 DEF StepDone, Marked, disk, history, bounds, TruthInv
<1>15. ASSUME NEW d \in Shells, StepBlocked(d) PROVE TruthInv'
  BY <1>15, <1>1 DEF StepBlocked, Marked, disk, history, bounds, TruthInv
<1>16. ASSUME NEW d \in Shells, StopRunning(d) PROVE TruthInv'
  BY <1>16, <1>1 DEF StopRunning, disk, local, history, bounds, TruthInv
<1>17. ASSUME NEW d \in Shells, Finish(d) PROVE TruthInv'
  BY <1>17, <1>1 DEF Finish, Idle, history, bounds, TruthInv
<1>18. ASSUME NEW d \in Shells, OpenBuild(d) PROVE TruthInv'
  BY <1>18, <1>1 DEF OpenBuild, Marked, disk, history, bounds, TruthInv
<1>19. ASSUME NEW d \in Shells, BuildReturns(d) PROVE TruthInv'
  BY <1>19, <1>1 DEF BuildReturns, disk, history, bounds, TruthInv
<1>20. ASSUME NEW d \in Shells, BuildThrows(d) PROVE TruthInv'
  BY <1>20, <1>1 DEF BuildThrows, disk, history, bounds, TruthInv
<1>21. ASSUME NEW d \in Shells, AloneReturns(d) PROVE TruthInv'
  BY <1>21, <1>1 DEF AloneReturns, Marked, disk, bounds, TruthInv
<1>22. ASSUME NEW d \in Shells, AloneThrows(d) PROVE TruthInv'
  BY <1>22, <1>1 DEF AloneThrows, Marked, disk, history, bounds, TruthInv
<1>23. ASSUME NEW d \in Shells, Offer(d) PROVE TruthInv'
  BY <1>23, <1>1 DEF Offer, Resumable, disk, local, history, bounds, TruthInv
<1>24. ASSUME NEW d \in Shells, Decline(d) PROVE TruthInv'
  BY <1>24, <1>1 DEF Decline, disk, local, history, bounds, TruthInv
<1>25. ASSUME NEW d \in Shells, Resume(d) PROVE TruthInv'
  BY <1>25, <1>1 DEF Resume, Load, Stored, disk, SideInv, TruthInv
<1>26. ASSUME NEW d \in Shells, NothingLeft(d) PROVE TruthInv'
  BY <1>26, <1>1 DEF NothingLeft, disk, local, history, bounds, SideInv,
       TruthInv
<1>27. ASSUME NEW d \in Shells, Abort(d) PROVE TruthInv'
  BY <1>27, <1>1 DEF Abort, disk, history, SideInv, TruthInv
<1>28. ASSUME NEW d \in Shells, Crash(d) PROVE TruthInv'
  BY <1>28, <1>1 DEF Crash, Idle, disk, history, SideInv, TruthInv
<1>29. CASE UNCHANGED vars
  BY <1>29, <1>1 DEF vars, disk, local, history, bounds, SideInv, TruthInv
<1> QED
  BY <1>1, <1>2, <1>3, <1>4, <1>5, <1>6, <1>7, <1>8, <1>9, <1>10, <1>11, <1>12,
       <1>13, <1>14, <1>15, <1>16, <1>17, <1>18, <1>19, <1>20, <1>21, <1>22,
       <1>23, <1>24, <1>25, <1>26, <1>27, <1>28, <1>29 DEF Next, Store, Drive,
       Build, Pickup

LEMMA NextLink == TypeOK /\ LinkInv /\ [Next]_vars => LinkInv'
<1> SUFFICES ASSUME TypeOK, LinkInv, [Next]_vars PROVE LinkInv'
  OBVIOUS
<1>1. /\ Stored \in Content /\ AllPending \in [Steps -> Statuses]
      /\ mem \in [Shells -> [Steps -> Statuses]] /\ buf \in [Shells -> Content]
      /\ side \in [ok : BOOLEAN, status : [Steps -> Statuses], deps : BOOLEAN]
      /\ pc \in [Shells -> Places] /\ writing \in [Shells -> BOOLEAN]
      /\ tracked \in [Shells -> BOOLEAN] /\ linked \in [Shells -> BOOLEAN]
      /\ cur \in [Shells -> SUBSET Steps] /\ todo \in [Shells -> SUBSET Steps]
      /\ tree \subseteq Steps /\ recorded \subseteq Steps
      /\ \A s \in Steps : AllPending[s] = "pending"
  BY Bounds, StoredType DEF TypeOK, AllPending
<1>2. ASSUME NEW d \in Shells, OpenSidecar(d) PROVE LinkInv'
  <2>1. PICK s \in Steps : buf' = [buf EXCEPT ![d] = WithStatus(d, s)]
    BY <1>2 DEF OpenSidecar
  <2>2. ~lost' => WithStatus(d, s).deps
    BY <1>2, <1>1 DEF OpenSidecar, WithStatus, Stored, LinkInv
  <2> QED
    BY <1>2, <1>1, <2>1, <2>2 DEF OpenSidecar, bounds, LinkInv, Running
<1>3. ASSUME NEW d \in Shells, FillSidecar(d) PROVE LinkInv'
  BY <1>3, <1>1 DEF FillSidecar, bounds, LinkInv, Running
<1>4. ASSUME NEW d \in Shells, WriteFails(d) PROVE LinkInv'
  BY <1>4, <1>1 DEF WriteFails, disk, history, LinkInv, Running
<1>5. ASSUME NEW d \in Shells, Approve(d) PROVE LinkInv'
  BY <1>5, <1>1 DEF Approve, SavePlan, SaveFails, AllPending, disk, history,
       LinkInv, Running
<1>6. ASSUME NEW d \in Shells, ApproveFlat(d) PROVE LinkInv'
  BY <1>6, <1>1 DEF ApproveFlat, AllPending, disk, history, bounds, LinkInv,
       Running
<1>7. ASSUME NEW d \in Shells, FlatReturns(d) PROVE LinkInv'
  BY <1>7, <1>1 DEF FlatReturns, SavePlan, SaveFails, AllPending, disk, LinkInv,
       Running
<1>8. ASSUME NEW d \in Shells, FlatThrows(d) PROVE LinkInv'
  BY <1>8, <1>1 DEF FlatThrows, disk, history, bounds, LinkInv, Running
<1>9. ASSUME NEW d \in Shells, EnterPhase(d) PROVE LinkInv'
  BY <1>9, <1>1 DEF EnterPhase, Left, Later, Pending, Marked, disk, history,
       bounds, LinkInv, Running
<1>10. ASSUME NEW d \in Shells, SwarmReturns(d) PROVE LinkInv'
  BY <1>10, <1>1 DEF SwarmReturns, disk, history, bounds, LinkInv, Running
<1>11. ASSUME NEW d \in Shells, RunStep(d) PROVE LinkInv'
  BY <1>11, <1>1 DEF RunStep, IsFirst, Left, Pending, disk, history, bounds,
       LinkInv, Running
<1>12. ASSUME NEW d \in Shells, BlockStep(d) PROVE LinkInv'
  BY <1>12, <1>1 DEF BlockStep, IsFirst, Left, Pending, disk, history, bounds,
       LinkInv, Running
<1>13. ASSUME NEW d \in Shells, LeavePhase(d) PROVE LinkInv'
  BY <1>13, <1>1 DEF LeavePhase, disk, local, history, bounds, LinkInv, Running
<1>14. ASSUME NEW d \in Shells, StepDone(d) PROVE LinkInv'
  BY <1>14, <1>1 DEF StepDone, Marked, disk, history, bounds, LinkInv, Running
<1>15. ASSUME NEW d \in Shells, StepBlocked(d) PROVE LinkInv'
  BY <1>15, <1>1 DEF StepBlocked, Marked, disk, history, bounds, LinkInv,
       Running
<1>16. ASSUME NEW d \in Shells, StopRunning(d) PROVE LinkInv'
  BY <1>16, <1>1 DEF StopRunning, disk, local, history, bounds, LinkInv, Running
<1>17. ASSUME NEW d \in Shells, Finish(d) PROVE LinkInv'
  BY <1>17, <1>1 DEF Finish, Idle, history, bounds, LinkInv, Running
<1>18. ASSUME NEW d \in Shells, OpenBuild(d) PROVE LinkInv'
  BY <1>18, <1>1 DEF OpenBuild, Marked, disk, history, bounds, LinkInv, Running
<1>19. ASSUME NEW d \in Shells, BuildReturns(d) PROVE LinkInv'
  BY <1>19, <1>1 DEF BuildReturns, disk, history, bounds, LinkInv, Running
<1>20. ASSUME NEW d \in Shells, BuildThrows(d) PROVE LinkInv'
  BY <1>20, <1>1 DEF BuildThrows, disk, history, bounds, LinkInv, Running
<1>21. ASSUME NEW d \in Shells, AloneReturns(d) PROVE LinkInv'
  BY <1>21, <1>1 DEF AloneReturns, Marked, disk, bounds, LinkInv, Running
<1>22. ASSUME NEW d \in Shells, AloneThrows(d) PROVE LinkInv'
  BY <1>22, <1>1 DEF AloneThrows, Marked, disk, history, bounds, LinkInv,
       Running
<1>23. ASSUME NEW d \in Shells, Offer(d) PROVE LinkInv'
  BY <1>23, <1>1 DEF Offer, Resumable, disk, local, history, bounds, LinkInv,
       Running
<1>24. ASSUME NEW d \in Shells, Decline(d) PROVE LinkInv'
  BY <1>24, <1>1 DEF Decline, disk, local, history, bounds, LinkInv, Running
<1>25. ASSUME NEW d \in Shells, Resume(d) PROVE LinkInv'
  BY <1>25, <1>1 DEF Resume, Load, Stored, disk, LinkInv, Running
<1>26. ASSUME NEW d \in Shells, NothingLeft(d) PROVE LinkInv'
  BY <1>26, <1>1 DEF NothingLeft, disk, local, history, bounds, LinkInv, Running
<1>27. ASSUME NEW d \in Shells, Abort(d) PROVE LinkInv'
  BY <1>27, <1>1 DEF Abort, disk, history, LinkInv, Running
<1>28. ASSUME NEW d \in Shells, Crash(d) PROVE LinkInv'
  BY <1>28, <1>1 DEF Crash, Idle, disk, history, LinkInv, Running
<1>29. CASE UNCHANGED vars
  BY <1>29, <1>1 DEF vars, disk, local, history, bounds, LinkInv, Running
<1> QED
  BY <1>1, <1>2, <1>3, <1>4, <1>5, <1>6, <1>7, <1>8, <1>9, <1>10, <1>11, <1>12,
       <1>13, <1>14, <1>15, <1>16, <1>17, <1>18, <1>19, <1>20, <1>21, <1>22,
       <1>23, <1>24, <1>25, <1>26, <1>27, <1>28, <1>29 DEF Next, Store, Drive,
       Build, Pickup

LEMMA NextShell == TypeOK /\ ShellInv /\ [Next]_vars => ShellInv'
<1> SUFFICES ASSUME TypeOK, ShellInv, [Next]_vars PROVE ShellInv'
  OBVIOUS
<1>1. /\ Stored \in Content /\ AllPending \in [Steps -> Statuses]
      /\ mem \in [Shells -> [Steps -> Statuses]] /\ buf \in [Shells -> Content]
      /\ side \in [ok : BOOLEAN, status : [Steps -> Statuses], deps : BOOLEAN]
      /\ pc \in [Shells -> Places] /\ writing \in [Shells -> BOOLEAN]
      /\ tracked \in [Shells -> BOOLEAN] /\ linked \in [Shells -> BOOLEAN]
      /\ cur \in [Shells -> SUBSET Steps] /\ todo \in [Shells -> SUBSET Steps]
      /\ tree \subseteq Steps /\ recorded \subseteq Steps
      /\ \A s \in Steps : AllPending[s] = "pending"
  BY Bounds, StoredType DEF TypeOK, AllPending
<1>2. ASSUME NEW d \in Shells, OpenSidecar(d) PROVE ShellInv'
  BY <1>2, <1>1 DEF OpenSidecar, WithStatus, Stored, AllPending, IsFirst,
       bounds, ShellInv, Driving, Before
<1>3. ASSUME NEW d \in Shells, FillSidecar(d) PROVE ShellInv'
  BY <1>3, <1>1 DEF FillSidecar, bounds, ShellInv, Driving, Before
<1>4. ASSUME NEW d \in Shells, WriteFails(d) PROVE ShellInv'
  BY <1>4, <1>1 DEF WriteFails, disk, history, ShellInv, Driving, Before
<1>5. ASSUME NEW d \in Shells, Approve(d) PROVE ShellInv'
  BY <1>5, <1>1 DEF Approve, SavePlan, SaveFails, AllPending, disk, history,
       ShellInv, Driving, Before, Settled
<1>6. ASSUME NEW d \in Shells, ApproveFlat(d) PROVE ShellInv'
  BY <1>6, <1>1 DEF ApproveFlat, AllPending, disk, history, bounds, ShellInv,
       Driving, Before, Settled
<1>7. ASSUME NEW d \in Shells, FlatReturns(d) PROVE ShellInv'
  BY <1>7, <1>1 DEF FlatReturns, SavePlan, SaveFails, AllPending, disk,
       ShellInv, Driving, Before, Settled
<1>8. ASSUME NEW d \in Shells, FlatThrows(d) PROVE ShellInv'
  BY <1>8, <1>1 DEF FlatThrows, disk, history, bounds, ShellInv, Driving,
       Before, Settled
<1>9. ASSUME NEW d \in Shells, EnterPhase(d) PROVE ShellInv'
  BY <1>9, <1>1 DEF EnterPhase, Left, Later, Pending, Marked, Checkpoint, disk,
       history, bounds, ShellInv, Driving, Before, Settled
<1>10. ASSUME NEW d \in Shells, SwarmReturns(d) PROVE ShellInv'
  BY <1>10, <1>1 DEF SwarmReturns, Checkpoint, disk, history, bounds, ShellInv,
       Driving, Before
<1>11. ASSUME NEW d \in Shells, RunStep(d) PROVE ShellInv'
  BY <1>11, <1>1 DEF RunStep, IsFirst, Left, Pending, Checkpoint, disk, history,
       bounds, ShellInv, Driving, Before
<1>12. ASSUME NEW d \in Shells, BlockStep(d) PROVE ShellInv'
  BY <1>12, <1>1 DEF BlockStep, IsFirst, Left, Pending, Checkpoint, disk,
       history, bounds, ShellInv, Driving, Before
<1>13. ASSUME NEW d \in Shells, LeavePhase(d) PROVE ShellInv'
  BY <1>13, <1>1 DEF LeavePhase, disk, local, history, bounds, ShellInv,
       Driving, Before
<1>14. ASSUME NEW d \in Shells, StepDone(d) PROVE ShellInv'
  BY <1>14, <1>1 DEF StepDone, Marked, Checkpoint, disk, history, bounds,
       ShellInv, Driving, Before
<1>15. ASSUME NEW d \in Shells, StepBlocked(d) PROVE ShellInv'
  BY <1>15, <1>1 DEF StepBlocked, Marked, Checkpoint, disk, history, bounds,
       ShellInv, Driving, Before
<1>16. ASSUME NEW d \in Shells, StopRunning(d) PROVE ShellInv'
  BY <1>16, <1>1 DEF StopRunning, disk, local, history, bounds, ShellInv,
       Driving, Before
<1>17. ASSUME NEW d \in Shells, Finish(d) PROVE ShellInv'
  BY <1>17, <1>1 DEF Finish, Idle, history, bounds, ShellInv, Driving, Before
<1>18. ASSUME NEW d \in Shells, OpenBuild(d) PROVE ShellInv'
  BY <1>18, <1>1 DEF OpenBuild, Marked, Checkpoint, disk, history, bounds,
       ShellInv, Driving, Before, Settled
<1>19. ASSUME NEW d \in Shells, BuildReturns(d) PROVE ShellInv'
  BY <1>19, <1>1 DEF BuildReturns, Checkpoint, disk, history, bounds, ShellInv,
       Driving, Before, Settled
<1>20. ASSUME NEW d \in Shells, BuildThrows(d) PROVE ShellInv'
  BY <1>20, <1>1 DEF BuildThrows, Checkpoint, disk, history, bounds, ShellInv,
       Driving, Before, Settled
<1>21. ASSUME NEW d \in Shells, AloneReturns(d) PROVE ShellInv'
  BY <1>21, <1>1 DEF AloneReturns, Marked, Checkpoint, disk, bounds, ShellInv,
       Driving, Before
<1>22. ASSUME NEW d \in Shells, AloneThrows(d) PROVE ShellInv'
  BY <1>22, <1>1 DEF AloneThrows, Marked, Checkpoint, disk, history, bounds,
       ShellInv, Driving, Before
<1>23. ASSUME NEW d \in Shells, Offer(d) PROVE ShellInv'
  BY <1>23, <1>1 DEF Offer, Resumable, disk, local, history, bounds, ShellInv,
       Driving, Before
<1>24. ASSUME NEW d \in Shells, Decline(d) PROVE ShellInv'
  BY <1>24, <1>1 DEF Decline, disk, local, history, bounds, ShellInv, Driving,
       Before
<1>25. ASSUME NEW d \in Shells, Resume(d) PROVE ShellInv'
  BY <1>25, <1>1 DEF Resume, Load, Stored, disk, ShellInv, Driving, Before
<1>26. ASSUME NEW d \in Shells, NothingLeft(d) PROVE ShellInv'
  BY <1>26, <1>1 DEF NothingLeft, disk, local, history, bounds, ShellInv,
       Driving, Before
<1>27. ASSUME NEW d \in Shells, Abort(d) PROVE ShellInv'
  BY <1>27, <1>1 DEF Abort, disk, history, ShellInv, Driving, Before
<1>28. ASSUME NEW d \in Shells, Crash(d) PROVE ShellInv'
  BY <1>28, <1>1 DEF Crash, Idle, disk, history, ShellInv, Driving, Before
<1>29. CASE UNCHANGED vars
  BY <1>29, <1>1 DEF vars, disk, local, history, bounds, ShellInv, Driving,
       Before
<1> QED
  BY <1>1, <1>2, <1>3, <1>4, <1>5, <1>6, <1>7, <1>8, <1>9, <1>10, <1>11, <1>12,
       <1>13, <1>14, <1>15, <1>16, <1>17, <1>18, <1>19, <1>20, <1>21, <1>22,
       <1>23, <1>24, <1>25, <1>26, <1>27, <1>28, <1>29 DEF Next, Store, Drive,
       Build, Pickup

LEMMA NextLone == TypeOK /\ SideInv /\ ShellInv /\ LoneInv /\ [Next]_vars => LoneInv'
<1> SUFFICES ASSUME TypeOK, SideInv, ShellInv, LoneInv, [Next]_vars PROVE LoneInv'
  OBVIOUS
<1>1. /\ Stored \in Content /\ AllPending \in [Steps -> Statuses]
      /\ mem \in [Shells -> [Steps -> Statuses]] /\ buf \in [Shells -> Content]
      /\ side \in [ok : BOOLEAN, status : [Steps -> Statuses], deps : BOOLEAN]
      /\ pc \in [Shells -> Places] /\ writing \in [Shells -> BOOLEAN]
      /\ tracked \in [Shells -> BOOLEAN] /\ linked \in [Shells -> BOOLEAN]
      /\ cur \in [Shells -> SUBSET Steps] /\ todo \in [Shells -> SUBSET Steps]
      /\ tree \subseteq Steps /\ recorded \subseteq Steps
      /\ \A s \in Steps : AllPending[s] = "pending"
  BY Bounds, StoredType DEF TypeOK, AllPending
<1>2. ASSUME NEW d \in Shells, OpenSidecar(d) PROVE LoneInv'
  <2>1. PICK s \in Steps : s \in todo[d] /\ buf' = [buf EXCEPT ![d] = WithStatus(d, s)]
    BY <1>2 DEF OpenSidecar, IsFirst
  <2>2. Driving(d)
    BY <2>1 DEF ShellInv
  <2>3. ASSUME ~lost', ~overlap'
        PROVE /\ recorded \subseteq Settled(WithStatus(d, s).status)
              /\ \A t \in Steps : WithStatus(d, s).status[t] = "done" => t \in Settled(mem[d])
    <3>1. side.ok /\ ~lost /\ ~overlap
      BY <1>2, <2>3 DEF OpenSidecar
    <3>2. recorded \subseteq Settled(side.status) /\ recorded \subseteq Settled(mem[d])
      BY <2>2, <3>1 DEF LoneInv
    <3> QED
      BY <1>1, <3>1, <3>2 DEF WithStatus, Stored, Settled, SideInv
  <2> QED
    BY <1>2, <1>1, <2>1, <2>2, <2>3 DEF OpenSidecar, bounds, LoneInv, Driving,
         Before
<1>3. ASSUME NEW d \in Shells, FillSidecar(d) PROVE LoneInv'
  BY <1>3, <1>1 DEF FillSidecar, bounds, SideInv, ShellInv, LoneInv, Driving,
       Before, Settled
<1>4. ASSUME NEW d \in Shells, WriteFails(d) PROVE LoneInv'
  BY <1>4, <1>1 DEF WriteFails, disk, history, SideInv, ShellInv, LoneInv,
       Driving, Before, Settled
<1>5. ASSUME NEW d \in Shells, Approve(d) PROVE LoneInv'
  BY <1>5, <1>1 DEF Approve, SavePlan, SaveFails, AllPending, disk, history,
       ShellInv, LoneInv, Driving, Before, Settled
<1>6. ASSUME NEW d \in Shells, ApproveFlat(d) PROVE LoneInv'
  BY <1>6, <1>1 DEF ApproveFlat, AllPending, disk, history, bounds, ShellInv,
       LoneInv, Driving, Before
<1>7. ASSUME NEW d \in Shells, FlatReturns(d) PROVE LoneInv'
  BY <1>7, <1>1 DEF FlatReturns, SavePlan, SaveFails, disk, ShellInv, LoneInv,
       Driving, Before
<1>8. ASSUME NEW d \in Shells, FlatThrows(d) PROVE LoneInv'
  BY <1>8, <1>1 DEF FlatThrows, disk, history, bounds, ShellInv, LoneInv,
       Driving, Before
<1>9. ASSUME NEW d \in Shells, EnterPhase(d) PROVE LoneInv'
  BY <1>9, <1>1 DEF EnterPhase, Left, Later, Pending, Marked, disk, history,
       bounds, ShellInv, LoneInv, Driving, Before, Settled
<1>10. ASSUME NEW d \in Shells, SwarmReturns(d) PROVE LoneInv'
  BY <1>10, <1>1 DEF SwarmReturns, disk, history, bounds, ShellInv, LoneInv,
       Driving, Before, Settled
<1>11. ASSUME NEW d \in Shells, RunStep(d) PROVE LoneInv'
  BY <1>11, <1>1 DEF RunStep, IsFirst, Left, Pending, disk, history, bounds,
       ShellInv, LoneInv, Driving, Before, Settled
<1>12. ASSUME NEW d \in Shells, BlockStep(d) PROVE LoneInv'
  BY <1>12, <1>1 DEF BlockStep, IsFirst, Left, Pending, disk, history, bounds,
       ShellInv, LoneInv, Driving, Before, Settled
<1>13. ASSUME NEW d \in Shells, LeavePhase(d) PROVE LoneInv'
  BY <1>13, <1>1 DEF LeavePhase, disk, local, history, bounds, ShellInv,
       LoneInv, Driving, Before, Settled
<1>14. ASSUME NEW d \in Shells, StepDone(d) PROVE LoneInv'
  BY <1>14, <1>1 DEF StepDone, Marked, disk, history, bounds, ShellInv, LoneInv,
       Driving, Before, Settled
<1>15. ASSUME NEW d \in Shells, StepBlocked(d) PROVE LoneInv'
  BY <1>15, <1>1 DEF StepBlocked, Marked, disk, history, bounds, ShellInv,
       LoneInv, Driving, Before, Settled
<1>16. ASSUME NEW d \in Shells, StopRunning(d) PROVE LoneInv'
  BY <1>16, <1>1 DEF StopRunning, disk, local, history, bounds, ShellInv,
       LoneInv, Driving, Before, Settled
<1>17. ASSUME NEW d \in Shells, Finish(d) PROVE LoneInv'
  BY <1>17, <1>1 DEF Finish, Idle, history, bounds, ShellInv, LoneInv, Driving,
       Before, Settled
<1>18. ASSUME NEW d \in Shells, OpenBuild(d) PROVE LoneInv'
  BY <1>18, <1>1 DEF OpenBuild, Marked, disk, history, bounds, ShellInv,
       LoneInv, Driving, Before
<1>19. ASSUME NEW d \in Shells, BuildReturns(d) PROVE LoneInv'
  BY <1>19, <1>1 DEF BuildReturns, disk, history, bounds, ShellInv, LoneInv,
       Driving, Before
<1>20. ASSUME NEW d \in Shells, BuildThrows(d) PROVE LoneInv'
  BY <1>20, <1>1 DEF BuildThrows, disk, history, bounds, ShellInv, LoneInv,
       Driving, Before
<1>21. ASSUME NEW d \in Shells, AloneReturns(d) PROVE LoneInv'
  BY <1>21, <1>1 DEF AloneReturns, Marked, disk, bounds, ShellInv, LoneInv,
       Driving, Before
<1>22. ASSUME NEW d \in Shells, AloneThrows(d) PROVE LoneInv'
  BY <1>22, <1>1 DEF AloneThrows, Marked, disk, history, bounds, ShellInv,
       LoneInv, Driving, Before
<1>23. ASSUME NEW d \in Shells, Offer(d) PROVE LoneInv'
  BY <1>23, <1>1 DEF Offer, Resumable, disk, local, history, bounds, ShellInv,
       LoneInv, Driving, Before
<1>24. ASSUME NEW d \in Shells, Decline(d) PROVE LoneInv'
  BY <1>24, <1>1 DEF Decline, disk, local, history, bounds, ShellInv, LoneInv,
       Driving, Before
<1>25. ASSUME NEW d \in Shells, Resume(d) PROVE LoneInv'
  <2> SUFFICES ASSUME ~lost', ~overlap' PROVE LoneInv'
    BY DEF LoneInv
  <2>1. side.ok /\ ~lost /\ ~overlap /\ (\A e \in Shells : ~Driving(e))
    BY <1>25 DEF Resume
  <2>2. recorded \subseteq Settled(side.status) /\ (\A e \in Shells : ~writing[e])
    BY <1>1, <2>1 DEF LoneInv, ShellInv
  <2>3. pc' = [pc EXCEPT ![d] = "phase"] /\ mem' = [mem EXCEPT ![d] = side.status]
    BY <1>25, <2>1 DEF Resume, Load, Stored
  <2>4. UNCHANGED <<side, recorded, writing, buf>>
    BY <1>25 DEF Resume, disk
  <2>5. \A e \in Shells : Driving(e)' => e = d
    BY <1>1, <2>1, <2>3 DEF Driving
  <2>6. \A e \in Shells : Before(e)' => FALSE
    BY <1>1, <2>1, <2>3 DEF Driving, Before
  <2>7. Settled(mem'[d]) = Settled(side.status)
    BY <1>1, <2>3
  <2> QED
    BY <1>1, <2>2, <2>4, <2>5, <2>6, <2>7 DEF LoneInv
<1>26. ASSUME NEW d \in Shells, NothingLeft(d) PROVE LoneInv'
  BY <1>26, <1>1 DEF NothingLeft, disk, local, history, bounds, ShellInv,
       LoneInv, Driving, Before
<1>27. ASSUME NEW d \in Shells, Abort(d) PROVE LoneInv'
  BY <1>27, <1>1 DEF Abort, disk, history, ShellInv, LoneInv, Driving, Before
<1>28. ASSUME NEW d \in Shells, Crash(d) PROVE LoneInv'
  BY <1>28, <1>1 DEF Crash, Idle, disk, history, ShellInv, LoneInv, Driving,
       Before
<1>29. CASE UNCHANGED vars
  BY <1>29, <1>1 DEF vars, disk, local, history, bounds, ShellInv, LoneInv,
       Driving, Before
<1> QED
  BY <1>1, <1>2, <1>3, <1>4, <1>5, <1>6, <1>7, <1>8, <1>9, <1>10, <1>11, <1>12,
       <1>13, <1>14, <1>15, <1>16, <1>17, <1>18, <1>19, <1>20, <1>21, <1>22,
       <1>23, <1>24, <1>25, <1>26, <1>27, <1>28, <1>29 DEF Next, Store, Drive,
       Build, Pickup

LEMMA NextDeps == TypeOK /\ TruthInv /\ LinkInv /\ DepsRespected /\ [Next]_vars => DepsRespected'
<1> SUFFICES ASSUME TypeOK, TruthInv, LinkInv, DepsRespected, [Next]_vars PROVE DepsRespected'
  OBVIOUS
<1>1. /\ Stored \in Content /\ AllPending \in [Steps -> Statuses]
      /\ mem \in [Shells -> [Steps -> Statuses]] /\ buf \in [Shells -> Content]
      /\ side \in [ok : BOOLEAN, status : [Steps -> Statuses], deps : BOOLEAN]
      /\ pc \in [Shells -> Places] /\ writing \in [Shells -> BOOLEAN]
      /\ tracked \in [Shells -> BOOLEAN] /\ linked \in [Shells -> BOOLEAN]
      /\ cur \in [Shells -> SUBSET Steps] /\ todo \in [Shells -> SUBSET Steps]
      /\ tree \subseteq Steps /\ recorded \subseteq Steps
      /\ \A s \in Steps : AllPending[s] = "pending"
  BY Bounds, StoredType DEF TypeOK, AllPending
<1>2. ASSUME NEW d \in Shells, OpenSidecar(d) PROVE DepsRespected'
  BY <1>2, <1>1 DEF OpenSidecar, WithStatus, Stored, AllPending, IsFirst,
       bounds, TruthInv, LinkInv, DepsRespected
<1>3. ASSUME NEW d \in Shells, FillSidecar(d) PROVE DepsRespected'
  BY <1>3, <1>1 DEF FillSidecar, bounds, TruthInv, LinkInv, DepsRespected
<1>4. ASSUME NEW d \in Shells, WriteFails(d) PROVE DepsRespected'
  BY <1>4, <1>1 DEF WriteFails, disk, history, TruthInv, LinkInv, DepsRespected
<1>5. ASSUME NEW d \in Shells, Approve(d) PROVE DepsRespected'
  BY <1>5, <1>1 DEF Approve, SavePlan, SaveFails, AllPending, disk, history,
       TruthInv, LinkInv, DepsRespected
<1>6. ASSUME NEW d \in Shells, ApproveFlat(d) PROVE DepsRespected'
  BY <1>6, <1>1 DEF ApproveFlat, AllPending, disk, history, bounds, TruthInv,
       LinkInv, DepsRespected
<1>7. ASSUME NEW d \in Shells, FlatReturns(d) PROVE DepsRespected'
  BY <1>7, <1>1 DEF FlatReturns, SavePlan, SaveFails, AllPending, disk,
       TruthInv, LinkInv, DepsRespected
<1>8. ASSUME NEW d \in Shells, FlatThrows(d) PROVE DepsRespected'
  BY <1>8, <1>1 DEF FlatThrows, disk, history, bounds, TruthInv, LinkInv,
       DepsRespected
<1>9. ASSUME NEW d \in Shells, EnterPhase(d) PROVE DepsRespected'
  <2>1. /\ ~lost' /\ ~blind' /\ pc'[d] = "swarm" => \A s \in cur'[d] : \A t \in Deps(d, s) : mem[d][t] = "done"
        /\ pc'[d] \in {"swarm", "step"} /\ cur'[d] \subseteq Steps
    BY <1>9, <1>1 DEF EnterPhase, Independent, Left, Pending
  <2>2. UNCHANGED <<plan, lost, blind, tree>> /\ Running(d) /\ \A e \in Shells : e # d => UNCHANGED <<pc[e], cur[e]>>
    BY <1>9, <1>1 DEF EnterPhase, history, disk, Running
  <2>3. ASSUME ~lost', ~blind', NEW s \in cur'[d], pc'[d] = "swarm" PROVE plan'.deps[s] \subseteq tree'
    <3>1. Deps(d, s) = plan.deps[s] /\ plan.deps[s] \subseteq Steps
      BY <2>1, <2>2, <2>3, Bounds DEF LinkInv, Deps, TypeOK
    <3> QED
      BY <2>1, <2>2, <2>3, <3>1 DEF TruthInv
  <2> QED
    BY <2>1, <2>2, <2>3 DEF DepsRespected
<1>10. ASSUME NEW d \in Shells, SwarmReturns(d) PROVE DepsRespected'
  BY <1>10, <1>1 DEF SwarmReturns, disk, history, bounds, TruthInv, LinkInv,
       DepsRespected, Deps
<1>11. ASSUME NEW d \in Shells, RunStep(d) PROVE DepsRespected'
  <2>1. /\ \A s \in cur'[d] : s \in Steps /\ \A t \in Deps(d, s) : mem[d][t] = "done"
        /\ pc'[d] = "work"
    BY <1>11, <1>1 DEF RunStep, IsFirst, Left, Pending
  <2>2. UNCHANGED <<plan, lost, blind, tree>> /\ Running(d) /\ \A e \in Shells : e # d => UNCHANGED <<pc[e], cur[e]>>
    BY <1>11, <1>1 DEF RunStep, history, disk, Running
  <2>3. ASSUME ~lost', ~blind', NEW s \in cur'[d] PROVE plan'.deps[s] \subseteq tree'
    <3>1. Deps(d, s) = plan.deps[s] /\ plan.deps[s] \subseteq Steps
      BY <2>1, <2>2, <2>3, Bounds DEF LinkInv, Deps, TypeOK
    <3> QED
      BY <2>1, <2>2, <2>3, <3>1 DEF TruthInv
  <2> QED
    BY <2>1, <2>2, <2>3 DEF DepsRespected
<1>12. ASSUME NEW d \in Shells, BlockStep(d) PROVE DepsRespected'
  BY <1>12, <1>1 DEF BlockStep, IsFirst, Left, Pending, disk, history, bounds,
       TruthInv, LinkInv, DepsRespected, Deps
<1>13. ASSUME NEW d \in Shells, LeavePhase(d) PROVE DepsRespected'
  BY <1>13, <1>1 DEF LeavePhase, disk, local, history, bounds, TruthInv,
       LinkInv, DepsRespected
<1>14. ASSUME NEW d \in Shells, StepDone(d) PROVE DepsRespected'
  BY <1>14, <1>1 DEF StepDone, Marked, disk, history, bounds, TruthInv, LinkInv,
       DepsRespected
<1>15. ASSUME NEW d \in Shells, StepBlocked(d) PROVE DepsRespected'
  BY <1>15, <1>1 DEF StepBlocked, Marked, disk, history, bounds, TruthInv,
       LinkInv, DepsRespected
<1>16. ASSUME NEW d \in Shells, StopRunning(d) PROVE DepsRespected'
  BY <1>16, <1>1 DEF StopRunning, disk, local, history, bounds, TruthInv,
       LinkInv, DepsRespected
<1>17. ASSUME NEW d \in Shells, Finish(d) PROVE DepsRespected'
  BY <1>17, <1>1 DEF Finish, Idle, history, bounds, TruthInv, LinkInv,
       DepsRespected
<1>18. ASSUME NEW d \in Shells, OpenBuild(d) PROVE DepsRespected'
  BY <1>18, <1>1 DEF OpenBuild, Marked, disk, history, bounds, TruthInv,
       LinkInv, DepsRespected
<1>19. ASSUME NEW d \in Shells, BuildReturns(d) PROVE DepsRespected'
  BY <1>19, <1>1 DEF BuildReturns, disk, history, bounds, TruthInv, LinkInv,
       DepsRespected
<1>20. ASSUME NEW d \in Shells, BuildThrows(d) PROVE DepsRespected'
  BY <1>20, <1>1 DEF BuildThrows, disk, history, bounds, TruthInv, LinkInv,
       DepsRespected
<1>21. ASSUME NEW d \in Shells, AloneReturns(d) PROVE DepsRespected'
  BY <1>21, <1>1 DEF AloneReturns, Marked, disk, bounds, TruthInv, LinkInv,
       DepsRespected
<1>22. ASSUME NEW d \in Shells, AloneThrows(d) PROVE DepsRespected'
  BY <1>22, <1>1 DEF AloneThrows, Marked, disk, history, bounds, TruthInv,
       LinkInv, DepsRespected
<1>23. ASSUME NEW d \in Shells, Offer(d) PROVE DepsRespected'
  BY <1>23, <1>1 DEF Offer, Resumable, disk, local, history, bounds, TruthInv,
       LinkInv, DepsRespected
<1>24. ASSUME NEW d \in Shells, Decline(d) PROVE DepsRespected'
  BY <1>24, <1>1 DEF Decline, disk, local, history, bounds, TruthInv, LinkInv,
       DepsRespected
<1>25. ASSUME NEW d \in Shells, Resume(d) PROVE DepsRespected'
  BY <1>25, <1>1 DEF Resume, Load, Stored, disk, TruthInv, LinkInv,
       DepsRespected, Running
<1>26. ASSUME NEW d \in Shells, NothingLeft(d) PROVE DepsRespected'
  BY <1>26, <1>1 DEF NothingLeft, disk, local, history, bounds, TruthInv,
       LinkInv, DepsRespected, Running
<1>27. ASSUME NEW d \in Shells, Abort(d) PROVE DepsRespected'
  BY <1>27, <1>1 DEF Abort, disk, history, TruthInv, LinkInv, DepsRespected,
       Running
<1>28. ASSUME NEW d \in Shells, Crash(d) PROVE DepsRespected'
  BY <1>28, <1>1 DEF Crash, Idle, disk, history, TruthInv, LinkInv,
       DepsRespected
<1>29. CASE UNCHANGED vars
  BY <1>29, <1>1 DEF vars, disk, local, history, bounds, TruthInv, LinkInv,
       DepsRespected
<1> QED
  BY <1>1, <1>2, <1>3, <1>4, <1>5, <1>6, <1>7, <1>8, <1>9, <1>10, <1>11, <1>12,
       <1>13, <1>14, <1>15, <1>16, <1>17, <1>18, <1>19, <1>20, <1>21, <1>22,
       <1>23, <1>24, <1>25, <1>26, <1>27, <1>28, <1>29 DEF Next, Store, Drive,
       Build, Pickup

(* What a shell starts to execute is left in its memory, hence not recorded. *)
LEMMA NextRedone ==
  TypeOK /\ LoneInv /\ [Next]_vars =>
    (~lost' /\ ~overlap' =>
       \A d \in Shells : ~Executing(d) /\ Executing(d)' => cur'[d] \cap recorded = {})
<1> SUFFICES ASSUME TypeOK, LoneInv, [Next]_vars, ~lost', ~overlap',
                    NEW e \in Shells, ~Executing(e), Executing(e)'
             PROVE cur'[e] \cap recorded = {}
  OBVIOUS
<1>1. /\ Stored \in Content /\ AllPending \in [Steps -> Statuses]
      /\ mem \in [Shells -> [Steps -> Statuses]] /\ buf \in [Shells -> Content]
      /\ side \in [ok : BOOLEAN, status : [Steps -> Statuses], deps : BOOLEAN]
      /\ pc \in [Shells -> Places] /\ writing \in [Shells -> BOOLEAN]
      /\ tracked \in [Shells -> BOOLEAN] /\ linked \in [Shells -> BOOLEAN]
      /\ cur \in [Shells -> SUBSET Steps] /\ todo \in [Shells -> SUBSET Steps]
      /\ tree \subseteq Steps /\ recorded \subseteq Steps
      /\ \A s \in Steps : AllPending[s] = "pending"
  BY Bounds, StoredType DEF TypeOK, AllPending
<1>2. ASSUME NEW d \in Shells, OpenSidecar(d) PROVE cur'[e] \cap recorded = {}
  BY <1>2, <1>1 DEF OpenSidecar, WithStatus, Stored, AllPending, IsFirst,
       bounds, LoneInv, Executing
<1>3. ASSUME NEW d \in Shells, FillSidecar(d) PROVE cur'[e] \cap recorded = {}
  BY <1>3, <1>1 DEF FillSidecar, bounds, LoneInv, Executing
<1>4. ASSUME NEW d \in Shells, WriteFails(d) PROVE cur'[e] \cap recorded = {}
  BY <1>4, <1>1 DEF WriteFails, disk, history, LoneInv, Executing
<1>5. ASSUME NEW d \in Shells, Approve(d) PROVE cur'[e] \cap recorded = {}
  BY <1>5, <1>1 DEF Approve, SavePlan, SaveFails, AllPending, disk, history,
       LoneInv, Executing
<1>6. ASSUME NEW d \in Shells, ApproveFlat(d) PROVE cur'[e] \cap recorded = {}
  BY <1>6, <1>1 DEF ApproveFlat, AllPending, disk, history, bounds, LoneInv,
       Executing
<1>7. ASSUME NEW d \in Shells, FlatReturns(d) PROVE cur'[e] \cap recorded = {}
  BY <1>7, <1>1 DEF FlatReturns, SavePlan, SaveFails, AllPending, disk, LoneInv,
       Executing
<1>8. ASSUME NEW d \in Shells, FlatThrows(d) PROVE cur'[e] \cap recorded = {}
  BY <1>8, <1>1 DEF FlatThrows, disk, history, bounds, LoneInv, Executing
<1>9. ASSUME NEW d \in Shells, EnterPhase(d) PROVE cur'[e] \cap recorded = {}
  <2>1. ~lost /\ ~overlap /\ Driving(d) /\ cur'[d] \subseteq Pending(mem[d])
    BY <1>9, <1>1 DEF EnterPhase, history, Left, Driving
  <2>2. recorded \subseteq Settled(mem[d]) /\ (e # d => UNCHANGED pc[e])
    BY <1>9, <1>1, <2>1 DEF EnterPhase, LoneInv
  <2> QED
    BY <2>1, <2>2 DEF Executing, Pending
<1>10. ASSUME NEW d \in Shells, SwarmReturns(d) PROVE cur'[e] \cap recorded = {}
  BY <1>10, <1>1 DEF SwarmReturns, disk, history, bounds, LoneInv, Driving,
       Executing
<1>11. ASSUME NEW d \in Shells, RunStep(d) PROVE cur'[e] \cap recorded = {}
  <2>1. ~lost /\ ~overlap /\ Driving(d) /\ cur'[d] \subseteq Pending(mem[d])
    BY <1>11, <1>1 DEF RunStep, history, IsFirst, Left, Driving
  <2>2. recorded \subseteq Settled(mem[d]) /\ (e # d => UNCHANGED pc[e])
    BY <1>11, <1>1, <2>1 DEF RunStep, LoneInv
  <2> QED
    BY <2>1, <2>2 DEF Executing, Pending
<1>12. ASSUME NEW d \in Shells, BlockStep(d) PROVE cur'[e] \cap recorded = {}
  BY <1>12, <1>1 DEF BlockStep, IsFirst, Left, Pending, disk, history, bounds,
       LoneInv, Driving, Executing
<1>13. ASSUME NEW d \in Shells, LeavePhase(d) PROVE cur'[e] \cap recorded = {}
  BY <1>13, <1>1 DEF LeavePhase, disk, local, history, bounds, LoneInv,
       Executing
<1>14. ASSUME NEW d \in Shells, StepDone(d) PROVE cur'[e] \cap recorded = {}
  BY <1>14, <1>1 DEF StepDone, Marked, disk, history, bounds, LoneInv, Executing
<1>15. ASSUME NEW d \in Shells, StepBlocked(d) PROVE cur'[e] \cap recorded = {}
  BY <1>15, <1>1 DEF StepBlocked, Marked, disk, history, bounds, LoneInv,
       Executing
<1>16. ASSUME NEW d \in Shells, StopRunning(d) PROVE cur'[e] \cap recorded = {}
  BY <1>16, <1>1 DEF StopRunning, disk, local, history, bounds, LoneInv,
       Executing
<1>17. ASSUME NEW d \in Shells, Finish(d) PROVE cur'[e] \cap recorded = {}
  BY <1>17, <1>1 DEF Finish, Idle, history, bounds, LoneInv, Executing
<1>18. ASSUME NEW d \in Shells, OpenBuild(d) PROVE cur'[e] \cap recorded = {}
  BY <1>18, <1>1 DEF OpenBuild, Marked, disk, history, bounds, LoneInv,
       Executing
<1>19. ASSUME NEW d \in Shells, BuildReturns(d) PROVE cur'[e] \cap recorded = {}
  BY <1>19, <1>1 DEF BuildReturns, disk, history, bounds, LoneInv, Executing
<1>20. ASSUME NEW d \in Shells, BuildThrows(d) PROVE cur'[e] \cap recorded = {}
  BY <1>20, <1>1 DEF BuildThrows, disk, history, bounds, LoneInv, Executing
<1>21. ASSUME NEW d \in Shells, AloneReturns(d) PROVE cur'[e] \cap recorded = {}
  BY <1>21, <1>1 DEF AloneReturns, Marked, disk, bounds, LoneInv, Executing
<1>22. ASSUME NEW d \in Shells, AloneThrows(d) PROVE cur'[e] \cap recorded = {}
  BY <1>22, <1>1 DEF AloneThrows, Marked, disk, history, bounds, LoneInv,
       Executing
<1>23. ASSUME NEW d \in Shells, Offer(d) PROVE cur'[e] \cap recorded = {}
  BY <1>23, <1>1 DEF Offer, Resumable, disk, local, history, bounds, LoneInv,
       Executing
<1>24. ASSUME NEW d \in Shells, Decline(d) PROVE cur'[e] \cap recorded = {}
  BY <1>24, <1>1 DEF Decline, disk, local, history, bounds, LoneInv, Executing
<1>25. ASSUME NEW d \in Shells, Resume(d) PROVE cur'[e] \cap recorded = {}
  BY <1>25, <1>1 DEF Resume, Load, Stored, disk, LoneInv, Executing
<1>26. ASSUME NEW d \in Shells, NothingLeft(d) PROVE cur'[e] \cap recorded = {}
  BY <1>26, <1>1 DEF NothingLeft, disk, local, history, bounds, LoneInv,
       Executing
<1>27. ASSUME NEW d \in Shells, Abort(d) PROVE cur'[e] \cap recorded = {}
  BY <1>27, <1>1 DEF Abort, disk, history, LoneInv, Executing
<1>28. ASSUME NEW d \in Shells, Crash(d) PROVE cur'[e] \cap recorded = {}
  BY <1>28, <1>1 DEF Crash, Idle, disk, history, LoneInv, Executing
<1>29. CASE UNCHANGED vars
  BY <1>29, <1>1 DEF vars, disk, local, history, bounds, LoneInv, Executing
<1> QED
  BY <1>1, <1>2, <1>3, <1>4, <1>5, <1>6, <1>7, <1>8, <1>9, <1>10, <1>11, <1>12,
       <1>13, <1>14, <1>15, <1>16, <1>17, <1>18, <1>19, <1>20, <1>21, <1>22,
       <1>23, <1>24, <1>25, <1>26, <1>27, <1>28, <1>29 DEF Next, Store, Drive,
       Build, Pickup

-----------------------------------------------------------------------------
Inv == TypeOK /\ SideInv /\ TruthInv /\ LinkInv /\ ShellInv /\ LoneInv /\ DepsRespected

LEMMA InitInv == Init => Inv
<1> SUFFICES ASSUME Init PROVE Inv
  OBVIOUS
<1>1. TypeOK
  BY InitTypes
<1>2. \A s \in Steps : AllPending[s] = "pending"
  BY DEF AllPending
<1>3. SideInv /\ TruthInv /\ ShellInv
  BY <1>2 DEF Init, SideInv, TruthInv, ShellInv, Before
<1>4. LinkInv /\ LoneInv /\ DepsRespected
  BY DEF Init, LinkInv, Running, LoneInv, Driving, Before, DepsRespected
<1> QED
  BY <1>1, <1>3, <1>4 DEF Inv

LEMMA Invariance == Spec => []Inv
<1>1. Inv /\ [Next]_vars => Inv'
  BY NextTypes, NextSide, NextTruth, NextLink, NextShell, NextLone, NextDeps DEF
       Inv
<1> QED
  BY <1>1, InitInv, PTL DEF Spec

(* The type invariant.                                                     *)
THEOREM PlanTypeCorrect == Spec => []TypeOK
<1>1. Inv => TypeOK
  BY DEF Inv
<1> QED
  BY <1>1, Invariance, PTL

(* A step the checkpoint of plan-runner.ts has recorded as done is finished *)
(* in the repository, whatever crashes, torn and failed writes and         *)
(* concurrent resumptions came between, until a one-pass execution settles *)
(* the plan.                                                               *)
THEOREM CheckpointIsTrue == Spec => []DoneIsTrue
<1>1. Inv => DoneIsTrue
  BY DEF Inv, TruthInv, DoneIsTrue
<1> QED
  BY <1>1, Invariance, PTL

(* A step is executed, alone or in a phase run as one batch, only over the *)
(* finished work of the steps it depends on.                               *)
THEOREM DependenciesFirst == Spec => []DepsRespected
<1>1. Inv => DepsRespected
  BY DEF Inv
<1> QED
  BY <1>1, Invariance, PTL

(* A resumed plan does not execute again what was recorded done, as long as *)
(* its sidecar was never found unreadable and one shell at a time drove it. *)
THEOREM ResumeDoesNotRedo == Spec => NotRedone
<1>1. Inv /\ [Next]_vars =>
        [~lost' /\ ~overlap' =>
           \A d \in Shells : ~Executing(d) /\ Executing(d)' => cur'[d] \cap recorded = {}]_vars
  BY NextRedone DEF Inv
<1> QED
  BY <1>1, Invariance, PTL DEF Spec, NotRedone

-----------------------------------------------------------------------------
(* What the plan's status and its phases say of the repository.            *)

(* A plan approved at the gate whose .md says executed has every step's    *)
(* work in the repository, unless a one-pass execution settled it: however *)
(* many shells, crashes and lost sidecars it took.                         *)
ExecutedIsFinished ==
  ~blind /\ plan.origin = "gate" /\ md = "executed" => tree = Steps

(* A step of such a plan is executed over the finished work of all the     *)
(* phases before its own, also when the sidecar was lost or two shells     *)
(* drive the plan.                                                         *)
PhasesInOrder ==
  ~blind /\ plan.origin = "gate" =>
    \A d \in Shells : Executing(d) =>
      \A s \in cur[d], t \in Steps : plan.phase[t] < plan.phase[s] => t \in tree

(* Only a build skips steps.                                               *)
SkipInv ==
  plan.origin = "gate" =>
    /\ \A s \in Steps : side.status[s] # "skipped"
    /\ \A d \in Shells : /\ pc[d] \notin {"open", "build", "alone"}
                         /\ \A s \in Steps : /\ mem[d][s] # "skipped"
                                             /\ buf[d].status[s] # "skipped"

(* A drive has settled the phases it has passed.                           *)
PhaseInv ==
  \A d \in Shells :
    /\ pc[d] \in {"step", "work", "swarm"} =>
         \A s \in Steps : plan.phase[s] < ph[d] => s \in Settled(mem[d])
    /\ pc[d] = "phase" => \A s \in Steps : plan.phase[s] <= ph[d] => s \in Settled(mem[d])
    /\ Executing(d) => \A s \in cur[d] : plan.phase[s] = ph[d]
    /\ pc[d] = "swarm" =>
         \A s \in Steps : plan.phase[s] = ph[d] => s \in cur[d] \cup Settled(mem[d])
    /\ ~Driving(d) => ph[d] = 0

LEMMA PlanStays == [Next]_vars => plan' = plan
<1> SUFFICES ASSUME [Next]_vars PROVE plan' = plan
  OBVIOUS
<1>1. ASSUME NEW d \in Shells, Approve(d) \/ Store(d) \/ Abort(d) \/ Crash(d)
      PROVE  plan' = plan
  BY <1>1 DEF Approve, Store, OpenSidecar, FillSidecar, WriteFails, Abort, Crash
<1>2. ASSUME NEW d \in Shells, Drive(d) PROVE plan' = plan
  BY <1>2 DEF Drive, EnterPhase, SwarmReturns, RunStep, BlockStep, LeavePhase, StepDone,
       StepBlocked, StopRunning, Finish
<1>3. ASSUME NEW d \in Shells, Build(d) PROVE plan' = plan
  BY <1>3 DEF Build, OpenBuild, BuildReturns, BuildThrows, AloneReturns, AloneThrows,
       ApproveFlat, FlatReturns, FlatThrows
<1>4. ASSUME NEW d \in Shells, Pickup(d) PROVE plan' = plan
  BY <1>4 DEF Pickup, Offer, Decline, Resume, NothingLeft
<1>5. CASE UNCHANGED vars
  BY <1>5 DEF vars
<1> QED BY <1>1, <1>2, <1>3, <1>4, <1>5 DEF Next

LEMMA NextSkip == TypeOK /\ SkipInv /\ [Next]_vars => SkipInv'
<1> SUFFICES ASSUME TypeOK, SkipInv, [Next]_vars PROVE SkipInv'
  OBVIOUS
<1>0. plan' = plan
  BY PlanStays
<1> SUFFICES ASSUME plan.origin = "gate" PROVE SkipInv'
  BY <1>0 DEF SkipInv
<1>1. /\ mem \in [Shells -> [Steps -> Statuses]] /\ buf \in [Shells -> Content]
      /\ side \in [ok : BOOLEAN, status : [Steps -> Statuses], deps : BOOLEAN]
      /\ pc \in [Shells -> Places] /\ cur \in [Shells -> SUBSET Steps]
      /\ Stored \in Content
      /\ AllPending \in [Steps -> Statuses] /\ \A s \in Steps : AllPending[s] = "pending"
  BY Bounds, StoredType DEF TypeOK, AllPending
<1>2. \A s \in Steps : Stored.status[s] # "skipped"
  BY <1>1 DEF Stored, SkipInv
<1>3. ASSUME NEW d \in Shells, Store(d) PROVE SkipInv'
  <2>1. CASE OpenSidecar(d)
    <3>1. PICK s \in Steps : buf' = [buf EXCEPT ![d] = WithStatus(d, s)]
      BY <2>1 DEF OpenSidecar
    <3>2. \A t \in Steps : WithStatus(d, s).status[t] # "skipped"
      BY <1>1, <1>2 DEF WithStatus, SkipInv, Content
    <3> QED BY <2>1, <3>1, <3>2, <1>1 DEF OpenSidecar, SkipInv
  <2>2. CASE FillSidecar(d) \/ WriteFails(d)
    BY <2>2, <1>1 DEF FillSidecar, WriteFails, disk, SkipInv
  <2> QED BY <1>3, <2>1, <2>2 DEF Store
<1>4. ASSUME NEW d \in Shells, Approve(d) PROVE SkipInv'
  BY <1>4, <1>1 DEF Approve, SavePlan, SaveFails, disk, SkipInv
<1>5. ASSUME NEW d \in Shells, Drive(d) PROVE SkipInv'
  <2>1. CASE EnterPhase(d)
    BY <2>1, <1>1 DEF EnterPhase, Marked, disk, SkipInv
  <2>2. CASE SwarmReturns(d)
    BY <2>2, <1>1 DEF SwarmReturns, disk, SkipInv
  <2>3. CASE RunStep(d) \/ BlockStep(d)
    <3>1. PICK s \in Steps, status \in {"active", "blocked"} :
            mem' = [mem EXCEPT ![d][s] = status]
      BY <2>3 DEF RunStep, BlockStep
    <3>2. \A e \in Shells, t \in Steps :
            mem'[e][t] = mem[e][t] \/ mem'[e][t] \in {"active", "blocked"}
      BY <3>1, <1>1
    <3>3. /\ UNCHANGED <<plan, side, buf>> /\ pc'[d] \in {"work", "end"}
          /\ \A e \in Shells \ {d} : pc'[e] = pc[e]
      BY <2>3, <1>1 DEF RunStep, BlockStep, disk
    <3> QED BY <3>2, <3>3 DEF SkipInv
  <2>4. CASE StepDone(d) \/ StepBlocked(d)
    BY <2>4, <1>1 DEF StepDone, StepBlocked, Marked, disk, SkipInv
  <2>5. CASE LeavePhase(d) \/ StopRunning(d)
    BY <2>5, <1>1 DEF LeavePhase, StopRunning, disk, local, SkipInv
  <2>6. CASE Finish(d)
    BY <2>6, <1>1 DEF Finish, Idle, SkipInv
  <2> QED BY <1>5, <2>1, <2>2, <2>3, <2>4, <2>5, <2>6 DEF Drive
<1>6. ASSUME NEW d \in Shells, Build(d) PROVE SkipInv'
  <2>1. CASE ApproveFlat(d)
    BY <2>1, <1>1 DEF ApproveFlat, disk, SkipInv
  <2>2. CASE FlatReturns(d)
    BY <2>2, <1>1 DEF FlatReturns, SavePlan, SaveFails, disk, SkipInv
  <2>3. CASE FlatThrows(d)
    BY <2>3, <1>1 DEF FlatThrows, disk, SkipInv
  <2>4. CASE OpenBuild(d) \/ BuildReturns(d) \/ BuildThrows(d) \/ AloneReturns(d) \/ AloneThrows(d)
    BY <2>4 DEF OpenBuild, BuildReturns, BuildThrows, AloneReturns, AloneThrows, SkipInv
  <2> QED BY <1>6, <2>1, <2>2, <2>3, <2>4 DEF Build
<1>7. ASSUME NEW d \in Shells, Pickup(d) \/ Abort(d) \/ Crash(d) PROVE SkipInv'
  <2>1. CASE Resume(d)
    BY <2>1, <1>1, <1>2 DEF Resume, Load, disk, SkipInv
  <2>2. CASE Offer(d) \/ Decline(d) \/ NothingLeft(d)
    BY <2>2, <1>1 DEF Offer, Decline, NothingLeft, disk, local, SkipInv
  <2>3. CASE Abort(d)
    BY <2>3 DEF Abort, disk, SkipInv
  <2>4. CASE Crash(d)
    BY <2>4, <1>1 DEF Crash, Idle, disk, SkipInv
  <2> QED BY <1>7, <2>1, <2>2, <2>3, <2>4 DEF Pickup
<1>8. CASE UNCHANGED vars
  BY <1>8 DEF vars, disk, local, SkipInv
<1> QED BY <1>3, <1>4, <1>5, <1>6, <1>7, <1>8 DEF Next

LEMMA NextExecuted ==
  TypeOK /\ TruthInv /\ SkipInv /\ ExecutedIsFinished /\ [Next]_vars => ExecutedIsFinished'
<1> SUFFICES ASSUME TypeOK, TruthInv, SkipInv, ExecutedIsFinished, [Next]_vars,
                    ~blind', plan'.origin = "gate", md' = "executed"
             PROVE  tree' = Steps
  BY DEF ExecutedIsFinished
<1>1. /\ plan' = plan /\ tree \subseteq tree' /\ tree' \subseteq Steps /\ ~blind
  <2>1. TypeOK'
    BY NextTypes
  <2>2. plan' = plan /\ tree \subseteq tree' /\ ~blind
    BY DEF Next, Store, OpenSidecar, FillSidecar, WriteFails, Approve, Drive, EnterPhase,
         SwarmReturns, RunStep, BlockStep, LeavePhase, StepDone, StepBlocked, StopRunning,
         Finish, Build, OpenBuild, BuildReturns, BuildThrows, AloneReturns, AloneThrows,
         ApproveFlat, FlatReturns, FlatThrows, Pickup, Offer, Decline, Resume, NothingLeft,
         Abort, Crash, vars, disk, local, history, bounds, TypeOK
  <2> QED BY <2>1, <2>2 DEF TypeOK
<1>2. CASE md = "executed"
  BY <1>1, <1>2 DEF ExecutedIsFinished
<1>3. CASE md # "executed"
  <2>1. PICK d \in Shells : Finish(d) /\ Pending(mem[d]) = {}
    <3>1. \A d \in Shells : ~FlatReturns(d)
      BY DEF FlatReturns
    <3>2. \A d \in Shells : ~Approve(d) \/ md' # "executed"
      BY <1>3 DEF Approve, SavePlan, SaveFails, disk
    <3> QED BY <1>3, <3>1, <3>2
        DEF Next, Store, OpenSidecar, FillSidecar, WriteFails, Drive, EnterPhase,
            SwarmReturns, RunStep, BlockStep, LeavePhase, StepDone, StepBlocked, StopRunning,
            Finish, Build, OpenBuild, BuildReturns, BuildThrows, AloneReturns, AloneThrows,
            ApproveFlat, FlatThrows, Pickup, Offer, Decline, Resume, NothingLeft,
            Abort, Crash, vars, disk
  <2>2. \A s \in Steps : mem[d][s] = "done"
    BY <1>1, <2>1 DEF Pending, Settled, SkipInv
  <2> QED BY <1>1, <2>2 DEF TruthInv
<1> QED BY <1>2, <1>3

LEMMA NextPhases == TypeOK /\ PhaseInv /\ [Next]_vars => PhaseInv'
<1> SUFFICES ASSUME TypeOK, PhaseInv, [Next]_vars PROVE PhaseInv'
  OBVIOUS
<1>1. /\ mem \in [Shells -> [Steps -> Statuses]]
      /\ pc \in [Shells -> Places] /\ cur \in [Shells -> SUBSET Steps]
      /\ ph \in [Shells -> 0 .. N] /\ N \in Nat
      /\ \A s \in Steps : plan.phase[s] \in Steps
  BY Bounds, PlansAssumption DEF TypeOK, Shape
<1>2. ASSUME NEW d \in Shells, Store(d) \/ Abort(d) PROVE PhaseInv'
  BY <1>2 DEF Store, OpenSidecar, FillSidecar, WriteFails, Abort, disk, PhaseInv,
       Executing, Driving, Settled
<1>3. CASE UNCHANGED vars
  BY <1>3 DEF vars, disk, local, PhaseInv, Executing, Driving, Settled
<1>4. ASSUME NEW d \in Shells, Approve(d) \/ Resume(d) PROVE PhaseInv'
  <2>1. /\ plan' = plan /\ pc'[d] \in {"phase", "open"} /\ ph'[d] = 0
        /\ \A e \in Shells \ {d} :
             pc'[e] = pc[e] /\ ph'[e] = ph[e] /\ mem'[e] = mem[e] /\ cur'[e] = cur[e]
    <3>1. CASE Approve(d)
      BY <3>1, <1>1 DEF Approve
    <3>2. CASE Resume(d)
      BY <3>2, <1>1 DEF Resume, Load, PhaseInv, Driving
    <3> QED BY <1>4, <3>1, <3>2
  <2>2. \A s \in Steps : ~(plan.phase[s] <= 0)
    BY <1>1 DEF Steps
  <2> QED BY <2>1, <2>2 DEF PhaseInv, Executing, Driving, Settled
<1>5. ASSUME NEW d \in Shells, Offer(d) \/ Decline(d) \/ NothingLeft(d) PROVE PhaseInv'
  <2>1. /\ UNCHANGED <<plan, ph, mem, cur>> /\ ~Driving(d) /\ pc'[d] \in {"idle", "asked"}
        /\ \A e \in Shells \ {d} : pc'[e] = pc[e]
    BY <1>5, <1>1 DEF Offer, Decline, NothingLeft, local, Driving
  <2> QED BY <2>1 DEF PhaseInv, Executing, Driving, Settled
<1>6. ASSUME NEW d \in Shells, Finish(d) \/ Crash(d) PROVE PhaseInv'
  <2>1. /\ plan' = plan /\ pc'[d] = "idle" /\ ph'[d] = 0
        /\ \A e \in Shells \ {d} :
             pc'[e] = pc[e] /\ ph'[e] = ph[e] /\ mem'[e] = mem[e] /\ cur'[e] = cur[e]
    BY <1>6, <1>1 DEF Finish, Crash, Idle
  <2> QED BY <2>1 DEF PhaseInv, Executing, Driving, Settled
<1>7. ASSUME NEW d \in Shells,
             Build(d) \/ BlockStep(d) \/ StepBlocked(d) \/ StopRunning(d)
      PROVE  PhaseInv'
  <2>1. /\ plan' = plan /\ Driving(d)' /\ ~Running(d)'
        /\ \A e \in Shells \ {d} :
             pc'[e] = pc[e] /\ ph'[e] = ph[e] /\ mem'[e] = mem[e] /\ cur'[e] = cur[e]
    <3>1. CASE Build(d)
      BY <3>1, <1>1 DEF Build, OpenBuild, BuildReturns, BuildThrows, AloneReturns,
           AloneThrows, ApproveFlat, FlatReturns, FlatThrows, Marked, Driving, Running
    <3>2. CASE BlockStep(d) \/ StepBlocked(d) \/ StopRunning(d)
      BY <3>2, <1>1 DEF BlockStep, StepBlocked, StopRunning, Marked, local, Driving, Running
    <3> QED BY <1>7, <3>1, <3>2
  <2> QED BY <2>1 DEF PhaseInv, Executing, Driving, Settled, Running
<1>8. ASSUME NEW d \in Shells, EnterPhase(d) PROVE PhaseInv'
  <2>1. PICK k \in Later(d) :
          LET batch == fan[d] /\ Independent(d, Left(d, k))
          IN /\ \A j \in Later(d) : k <= j
             /\ ph' = [ph EXCEPT ![d] = k]
             /\ pc' = [pc EXCEPT ![d] = IF batch THEN "swarm" ELSE "step"]
             /\ cur' = [cur EXCEPT ![d] = IF batch THEN Left(d, k) ELSE {}]
             /\ mem' = IF batch THEN Marked(d, Left(d, k), "active") ELSE mem
    BY <1>8 DEF EnterPhase
  <2>2. pc[d] = "phase" /\ plan' = plan
    BY <1>8 DEF EnterPhase
  <2>3. k \in Steps /\ k > ph[d]
    BY <1>1 DEF Later, Pending
  <2>4. \A s \in Steps : plan.phase[s] < k => s \in Settled(mem[d])
    <3> SUFFICES ASSUME NEW s \in Steps, plan.phase[s] < k, s \notin Settled(mem[d])
                 PROVE  FALSE
      OBVIOUS
    <3>1. ~(plan.phase[s] <= ph[d])
      BY <2>2 DEF PhaseInv
    <3>2. plan.phase[s] \in Nat /\ ph[d] \in Nat /\ k \in Nat
      BY <1>1, <2>3 DEF Steps
    <3>3. plan.phase[s] \in Later(d)
      BY <3>1, <3>2 DEF Later, Pending
    <3>4. k <= plan.phase[s]
      BY <2>1, <3>3
    <3> QED BY <3>2, <3>4
  <2>5. /\ ph'[d] = k /\ pc'[d] \in {"swarm", "step"}
        /\ pc'[d] = "swarm" => cur'[d] = Left(d, k)
        /\ \A s \in Steps : mem'[d][s] = mem[d][s] \/ (s \in Left(d, k) /\ pc'[d] = "swarm")
        /\ \A e \in Shells \ {d} :
             pc'[e] = pc[e] /\ ph'[e] = ph[e] /\ mem'[e] = mem[e] /\ cur'[e] = cur[e]
    BY <2>1, <1>1 DEF Marked
  <2>6. \A s \in Steps : s \in Settled(mem[d]) => s \in Settled(mem'[d])
    BY <2>5 DEF Left, Pending, Settled
  <2>7. \A s \in Steps : plan.phase[s] = k => s \in Left(d, k) \cup Settled(mem[d])
    BY DEF Left, Pending
  <2>8. \A s \in Left(d, k) : plan.phase[s] = k
    BY DEF Left
  <2> QED BY <2>2, <2>4, <2>5, <2>6, <2>7, <2>8 DEF PhaseInv, Executing, Driving, Settled
<1>9. ASSUME NEW d \in Shells, SwarmReturns(d) PROVE PhaseInv'
  <2>1. PICK landed \in SUBSET cur[d] :
          /\ mem' = [mem EXCEPT ![d] = [s \in Steps |->
               IF s \in landed THEN "done" ELSE IF s \in cur[d] THEN "blocked" ELSE @[s]]]
          /\ pc' = [pc EXCEPT ![d] = IF landed = cur[d] THEN "phase" ELSE "end"]
    BY <1>9 DEF SwarmReturns
  <2>2. pc[d] = "swarm" /\ plan' = plan /\ ph' = ph /\ cur' = [cur EXCEPT ![d] = {}]
    BY <1>9 DEF SwarmReturns
  <2>3. /\ \A s \in Steps : mem'[d][s] = (IF s \in landed THEN "done"
                                          ELSE IF s \in cur[d] THEN "blocked" ELSE mem[d][s])
        /\ pc'[d] = (IF landed = cur[d] THEN "phase" ELSE "end")
        /\ \A e \in Shells \ {d} :
             pc'[e] = pc[e] /\ mem'[e] = mem[e] /\ cur'[e] = cur[e]
    BY <2>1, <2>2, <1>1
  <2>4. pc'[d] = "phase" =>
          \A s \in Steps : plan.phase[s] <= ph[d] => s \in Settled(mem'[d])
    <3> SUFFICES ASSUME pc'[d] = "phase", NEW s \in Steps, plan.phase[s] <= ph[d]
                 PROVE  s \in Settled(mem'[d])
      OBVIOUS
    <3>1. landed = cur[d]
      BY <2>3
    <3>2. plan.phase[s] < ph[d] \/ plan.phase[s] = ph[d]
      BY <1>1 DEF Steps
    <3>3. s \in cur[d] \cup Settled(mem[d])
      BY <3>2, <2>2 DEF PhaseInv
    <3> QED BY <3>1, <3>3, <2>3 DEF Settled
  <2> QED BY <2>2, <2>3, <2>4 DEF PhaseInv, Executing, Driving, Settled
<1>10. ASSUME NEW d \in Shells, RunStep(d) PROVE PhaseInv'
  <2>1. PICK s \in Steps : /\ s \in Left(d, ph[d]) /\ mem' = [mem EXCEPT ![d][s] = "active"]
                           /\ cur' = [cur EXCEPT ![d] = {s}]
                           /\ pc' = [pc EXCEPT ![d] = "work"]
    BY <1>10 DEF RunStep, IsFirst
  <2>2. pc[d] = "step" /\ plan' = plan /\ ph' = ph
    BY <1>10 DEF RunStep
  <2>3. /\ plan.phase[s] = ph[d] /\ cur'[d] = {s} /\ pc'[d] = "work"
        /\ s \notin Settled(mem[d])
        /\ \A t \in Steps \ {s} : mem'[d][t] = mem[d][t]
        /\ \A e \in Shells \ {d} :
             pc'[e] = pc[e] /\ mem'[e] = mem[e] /\ cur'[e] = cur[e]
    BY <2>1, <1>1 DEF Left, Pending
  <2> QED BY <2>2, <2>3 DEF PhaseInv, Executing, Driving, Settled
<1>11. ASSUME NEW d \in Shells, StepDone(d) PROVE PhaseInv'
  <2>1. /\ pc[d] = "work" /\ plan' = plan /\ ph' = ph /\ pc'[d] = "step"
        /\ \A s \in Steps : mem'[d][s] = mem[d][s] \/ mem'[d][s] = "done"
        /\ \A e \in Shells \ {d} :
             pc'[e] = pc[e] /\ mem'[e] = mem[e] /\ cur'[e] = cur[e]
    BY <1>11, <1>1 DEF StepDone, Marked
  <2> QED BY <2>1 DEF PhaseInv, Executing, Driving, Settled
<1>12. ASSUME NEW d \in Shells, LeavePhase(d) PROVE PhaseInv'
  <2>1. /\ pc[d] = "step" /\ Left(d, ph[d]) = {} /\ pc'[d] = "phase"
        /\ UNCHANGED <<plan, ph, mem, cur>>
        /\ \A e \in Shells \ {d} : pc'[e] = pc[e]
    BY <1>12, <1>1 DEF LeavePhase, local
  <2>2. \A s \in Steps : plan.phase[s] = ph[d] => s \in Settled(mem[d])
    BY <2>1 DEF Left, Pending
  <2>3. \A s \in Steps : plan.phase[s] <= ph[d] => plan.phase[s] < ph[d] \/ plan.phase[s] = ph[d]
    BY <1>1 DEF Steps
  <2> QED BY <2>1, <2>2, <2>3 DEF PhaseInv, Executing, Driving, Settled
<1> QED BY <1>2, <1>3, <1>4, <1>5, <1>6, <1>7, <1>8, <1>9, <1>10, <1>11, <1>12
        DEF Next, Drive, Pickup

LEMMA OrderInvariance == Spec => [](Inv /\ SkipInv /\ ExecutedIsFinished /\ PhaseInv)
<1>1. Init => SkipInv /\ ExecutedIsFinished /\ PhaseInv
  <2> SUFFICES ASSUME Init PROVE SkipInv /\ ExecutedIsFinished /\ PhaseInv
    OBVIOUS
  <2>1. \A s \in Steps : AllPending[s] = "pending"
    BY DEF AllPending
  <2> QED BY <2>1 DEF Init, SkipInv, ExecutedIsFinished, PhaseInv, Executing, Driving
<1>2. Inv /\ (SkipInv /\ ExecutedIsFinished /\ PhaseInv) /\ [Next]_vars
        => (SkipInv /\ ExecutedIsFinished /\ PhaseInv)'
  BY NextSkip, NextExecuted, NextPhases DEF Inv
<1> QED BY <1>1, <1>2, Invariance, PTL DEF Spec

(* The overall status in the .md can be trusted: an executed plan of the   *)
(* gate is finished in the repository.                                     *)
THEOREM StatusIsTrue == Spec => []ExecutedIsFinished
<1> QED BY OrderInvariance, PTL

(* The phases of a plan of the gate are executed in order, across crashes, *)
(* resumptions and two shells at once.                                     *)
THEOREM PhasesAreOrdered == Spec => []PhasesInOrder
<1>1. Inv /\ SkipInv /\ PhaseInv => PhasesInOrder
  <2> SUFFICES ASSUME Inv, SkipInv, PhaseInv, ~blind, plan.origin = "gate",
                      NEW d \in Shells, Executing(d), NEW s \in cur[d], NEW t \in Steps,
                      plan.phase[t] < plan.phase[s]
               PROVE  t \in tree
    BY DEF PhasesInOrder
  <2>1. plan.phase[t] < ph[d]
    BY DEF PhaseInv
  <2>2. t \in Settled(mem[d])
    BY <2>1 DEF PhaseInv, Executing
  <2>3. mem[d][t] = "done"
    BY <2>2 DEF Settled, SkipInv
  <2> QED BY <2>3 DEF Inv, TruthInv
<1> QED BY <1>1, OrderInvariance, PTL

-----------------------------------------------------------------------------
(* One drive.                                                              *)

(* As long as a shell drives the plan, what it has settled stays settled,  *)
(* it goes from phase to later phase, and what it starts to execute is not *)
(* settled: it comes to an end within the steps of the plan, and runs none *)
(* of them a second time after it is done.                                 *)
DriveAdvances ==
  [][\A d \in Shells :
       Driving(d) /\ Driving(d)' =>
         /\ Settled(mem[d]) \subseteq Settled(mem'[d])
         /\ ph[d] <= ph'[d]
         /\ pc[d] = "phase" /\ pc'[d] # "phase" /\ Running(d)' => ph[d] < ph'[d]
         /\ ~Executing(d) /\ Executing(d)' => cur'[d] \cap Settled(mem[d]) = {}]_vars

(* A drive of the plan only advances, and redoes nothing it has settled.   *)
THEOREM DrivesAdvance == Spec => DriveAdvances
<1> DEFINE A(d) == Driving(d) /\ Driving(d)' =>
                     /\ Settled(mem[d]) \subseteq Settled(mem'[d])
                     /\ ph[d] <= ph'[d]
                     /\ pc[d] = "phase" /\ pc'[d] # "phase" /\ Running(d)' => ph[d] < ph'[d]
                     /\ ~Executing(d) /\ Executing(d)' => cur'[d] \cap Settled(mem[d]) = {}
<1>1. Inv /\ [Next]_vars => [\A d \in Shells : A(d)]_vars
  <2> SUFFICES ASSUME Inv, [Next]_vars, NEW d \in Shells, Driving(d), Driving(d)'
               PROVE  /\ Settled(mem[d]) \subseteq Settled(mem'[d])
                      /\ ph[d] <= ph'[d]
                      /\ pc[d] = "phase" /\ pc'[d] # "phase" /\ Running(d)' => ph[d] < ph'[d]
                      /\ ~Executing(d) /\ Executing(d)' => cur'[d] \cap Settled(mem[d]) = {}
    OBVIOUS
  <2>1. /\ mem \in [Shells -> [Steps -> Statuses]]
        /\ pc \in [Shells -> Places] /\ cur \in [Shells -> SUBSET Steps]
        /\ ph \in [Shells -> 0 .. N] /\ N \in Nat /\ ph[d] \in Nat
    BY Bounds DEF Inv, TypeOK
  <2>2. CASE UNCHANGED <<pc[d], mem[d], ph[d], cur[d]>>
    BY <2>1, <2>2 DEF Executing
  <2>3. ASSUME NEW e \in Shells, e # d,
               Approve(e) \/ Store(e) \/ Drive(e) \/ Build(e) \/ Pickup(e) \/ Abort(e) \/ Crash(e)
        PROVE  UNCHANGED <<pc[d], mem[d], ph[d], cur[d]>>
    <3>1. CASE Approve(e) \/ Store(e) \/ Abort(e) \/ Crash(e)
      BY <2>1, <2>3, <3>1 DEF Approve, Store, OpenSidecar, FillSidecar, WriteFails, Abort,
           Crash, Idle
    <3>2. CASE Drive(e)
      <4>1. CASE EnterPhase(e)
        BY <2>1, <2>3, <4>1 DEF EnterPhase, Marked
      <4>2. CASE SwarmReturns(e) \/ RunStep(e) \/ BlockStep(e) \/ LeavePhase(e) \/ StepDone(e)
                   \/ StepBlocked(e) \/ StopRunning(e) \/ Finish(e)
        BY <2>1, <2>3, <4>2 DEF SwarmReturns, RunStep, BlockStep, LeavePhase, StepDone,
             StepBlocked, StopRunning, Finish, Idle, Marked, local
      <4> QED BY <3>2, <4>1, <4>2 DEF Drive
    <3>3. CASE Build(e)
      BY <2>1, <2>3, <3>3 DEF Build, OpenBuild, BuildReturns, BuildThrows, AloneReturns,
           AloneThrows, ApproveFlat, FlatReturns, FlatThrows, Marked
    <3>4. CASE Pickup(e)
      BY <2>1, <2>3, <3>4 DEF Pickup, Offer, Decline, Resume, Load, NothingLeft, local
    <3> QED BY <2>3, <3>1, <3>2, <3>3, <3>4
  <2>4. CASE Store(d) \/ Abort(d) \/ UNCHANGED vars
    <3>1. UNCHANGED <<pc[d], mem[d], ph[d], cur[d]>>
      BY <2>4 DEF Store, OpenSidecar, FillSidecar, WriteFails, Abort, vars, local
    <3> QED BY <2>2, <3>1
  <2>5. ~Approve(d) /\ ~Pickup(d) /\ ~Finish(d) /\ ~Crash(d) /\ ~ApproveFlat(d)
    BY <2>1 DEF Approve, Pickup, Offer, Decline, Resume, NothingLeft, Finish, Crash, Idle,
         ApproveFlat, Driving
  <2>6. CASE Build(d)
    <3>1. Before(d) /\ ~Executing(d)' /\ ph'[d] = ph[d] /\ pc[d] # "phase"
      BY <2>1, <2>5, <2>6 DEF Build, OpenBuild, BuildReturns, BuildThrows, AloneReturns,
           AloneThrows, FlatReturns, FlatThrows, Before, Executing
    <3>2. Settled(mem[d]) = {}
      BY <3>1 DEF Inv, ShellInv
    <3> QED BY <2>1, <3>1, <3>2
  <2>7. CASE EnterPhase(d)
    <3>1. PICK k \in Later(d) :
            LET batch == fan[d] /\ Independent(d, Left(d, k))
            IN /\ ph' = [ph EXCEPT ![d] = k]
               /\ cur' = [cur EXCEPT ![d] = IF batch THEN Left(d, k) ELSE {}]
               /\ mem' = IF batch THEN Marked(d, Left(d, k), "active") ELSE mem
      BY <2>7 DEF EnterPhase
    <3>2. k \in Steps /\ k > ph[d]
      BY PlansAssumption DEF Later, Pending, Inv, TypeOK, Shape
    <3>3. ph[d] < ph'[d] /\ cur'[d] \subseteq Left(d, k)
      BY <2>1, <3>1, <3>2 DEF Steps
    <3>4. Settled(mem[d]) \subseteq Settled(mem'[d])
      BY <2>1, <3>1 DEF Marked, Left, Pending, Settled
    <3>5. cur'[d] \cap Settled(mem[d]) = {}
      BY <3>3 DEF Left, Pending
    <3>6. ph[d] <= ph'[d]
      BY <2>1, <3>1, <3>2 DEF Steps
    <3> QED BY <3>3, <3>4, <3>5, <3>6
  <2>8. CASE SwarmReturns(d) \/ StepDone(d) \/ StepBlocked(d)
    <3>1. /\ Executing(d) /\ pc[d] # "phase" /\ ph' = ph
          /\ \A s \in cur[d] : mem[d][s] = "active"
      BY <2>8 DEF SwarmReturns, StepDone, StepBlocked, Inv, ShellInv, Executing
    <3>2. \A s \in Steps \ cur[d] : mem'[d][s] = mem[d][s]
      BY <2>1, <2>8 DEF SwarmReturns, StepDone, StepBlocked, Marked
    <3> QED BY <2>1, <3>1, <3>2 DEF Settled
  <2>9. CASE RunStep(d) \/ BlockStep(d)
    <3>1. PICK s \in Steps, status \in {"active", "blocked"} :
            /\ s \in Left(d, ph[d])
            /\ mem' = [mem EXCEPT ![d][s] = status]
      BY <2>9 DEF RunStep, BlockStep, IsFirst
    <3>2. \A t \in Steps \ {s} : mem'[d][t] = mem[d][t]
      BY <2>1, <3>1
    <3>3. Executing(d)' => cur'[d] \subseteq Left(d, ph[d])
      <4>1. CASE RunStep(d)
        BY <2>1, <4>1 DEF RunStep, IsFirst
      <4>2. CASE BlockStep(d)
        BY <2>1, <4>2 DEF BlockStep, Executing
      <4> QED BY <2>9, <4>1, <4>2
    <3>4. pc[d] = "step" /\ ph' = ph
      BY <2>9 DEF RunStep, BlockStep
    <3> QED BY <2>1, <3>1, <3>2, <3>3, <3>4 DEF Left, Pending, Settled
  <2>10. CASE LeavePhase(d) \/ StopRunning(d)
    <3>1. UNCHANGED <<mem, ph, cur>> /\ ~Executing(d)' /\ (pc[d] = "phase" => ~Running(d)')
      BY <2>1, <2>10 DEF LeavePhase, StopRunning, local, Executing, Running
    <3> QED BY <2>1, <3>1
  <2> QED BY <2>2, <2>3, <2>4, <2>5, <2>6, <2>7, <2>8, <2>9, <2>10 DEF Next, Drive
<1> QED BY <1>1, Invariance, PTL DEF Spec, DriveAdvances

=============================================================================
