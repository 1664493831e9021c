------------------------------- MODULE Plans -------------------------------
(***************************************************************************)
(* Approved plans, their checkpoint on disk, and their resumption:         *)
(* runStructuredPlan (packages/core/src/plans/plan-runner.ts) over the     *)
(* plan store (plan-store.ts), as the shell uses them: a plan approved at  *)
(* the gate (session/agent-turn.ts), the board of an automatic build       *)
(* (session/repl.ts, lib/auto-build-board.ts), and the plans a later shell *)
(* offers to resume.  Several shells work in one repository; nothing locks *)
(* a plan.                                                                 *)
(*                                                                         *)
(* One plan is followed.  Its .md keeps the overall status; its .plan.json *)
(* sidecar keeps every step's.  A sidecar write truncates the file and     *)
(* then fills it, so it can be seen, or left by a crash, unreadable; the   *)
(* plan is then derived from the .md body, where every step is pending and *)
(* none has dependencies.  Steps are numbered in the order of the list.    *)
(***************************************************************************)
EXTENDS Integers, FiniteSets

CONSTANTS
  N,        \* the steps of the plan are 1 .. N
  Shells,   \* processes that work in the repository
  Shapes,   \* plans that may be approved
  MaxResumes, MaxFaults   \* model bounds: resumptions; crashes, aborts, failed
            \* writes, and resumptions while another shell drives the plan

Steps == 1 .. N
Statuses == {"pending", "active", "done", "blocked", "skipped"}

(* phase: the phase of a step.  A plan parsed from prose has no deps; the  *)
(* board of a build has one phase, and the deps of the decomposition.      *)
Shape == [origin : {"gate", "build"}, phase : [Steps -> Steps],
          deps : [Steps -> SUBSET Steps]]

ASSUME PlansAssumption ==
  /\ N \in Nat \ {0}
  /\ Shapes \subseteq Shape
  /\ MaxResumes \in Nat /\ MaxFaults \in Nat
  /\ \A p \in Shapes : /\ \A s, t \in Steps : s < t => p.phase[s] <= p.phase[t]
                       /\ p.origin = "gate" => \A s \in Steps : p.deps[s] = {}

VARIABLES
  plan,       \* the plan
  approved,   \* it has been approved, or its build has begun
  md,         \* the status in the .md: none (no file), approved, executed
  side,       \* the sidecar: readable or not, its statuses, whether it has the deps
  tree,       \* the steps whose work is finished in the repository
  pc,         \* what each shell does with the plan
  mem,        \* its StructuredPlan in memory: the statuses
  linked,     \* its StructuredPlan in memory: has the deps
  tracked,    \* its planId is not null
  fan,        \* its canFanOut
  ph,         \* the phase its runStructuredPlan is in
  cur,        \* the steps it is executing
  todo,       \* the steps whose new status it is about to checkpoint
  writing,    \* it has truncated the sidecar and is filling it
  buf,        \* with what
  aborted,    \* its turn's signal
  recorded,   \* steps the sidecar has said are done (history)
  lost,       \* the plan was once derived from the .md body (history)
  overlap,    \* two shells once drove the plan together (history)
  blind,      \* a one-pass execution has settled the plan (history)
  resumes, faults   \* model bounds: how many there have been

disk == <<md, side>>
local == <<mem, linked, tracked, fan, ph, cur, todo, writing, buf, aborted>>
history == <<recorded, lost, overlap, blind>>
bounds == <<resumes, faults>>
vars == <<plan, approved, disk, tree, pc, local, history, bounds>>

AllPending == [s \in Steps |-> "pending"]
Content == [status : [Steps -> Statuses], deps : BOOLEAN]
Places == {"idle", "asked", "open", "phase", "step", "work", "swarm", "build",
           "alone", "flat", "end"}

TypeOK ==
  /\ plan \in Shapes /\ approved \in BOOLEAN
  /\ md \in {"none", "approved", "executed"}
  /\ side \in [ok : BOOLEAN, status : [Steps -> Statuses], deps : BOOLEAN]
  /\ tree \subseteq Steps
  /\ pc \in [Shells -> Places]
  /\ mem \in [Shells -> [Steps -> Statuses]]
  /\ linked \in [Shells -> BOOLEAN] /\ tracked \in [Shells -> BOOLEAN]
  /\ fan \in [Shells -> BOOLEAN]
  /\ ph \in [Shells -> 0 .. N]
  /\ cur \in [Shells -> SUBSET Steps] /\ todo \in [Shells -> SUBSET Steps]
  /\ writing \in [Shells -> BOOLEAN] /\ buf \in [Shells -> Content]
  /\ aborted \in [Shells -> BOOLEAN]
  /\ recorded \subseteq Steps
  /\ lost \in BOOLEAN /\ overlap \in BOOLEAN /\ blind \in BOOLEAN
  /\ resumes \in 0 .. MaxResumes /\ faults \in 0 .. MaxFaults

Init ==
  /\ plan \in Shapes /\ approved = FALSE
  /\ md = "none"
  /\ side = [ok |-> FALSE, status |-> AllPending, deps |-> FALSE]
  /\ tree = {}
  /\ pc = [d \in Shells |-> "idle"]
  /\ mem = [d \in Shells |-> AllPending]
  /\ linked = [d \in Shells |-> FALSE] /\ tracked = [d \in Shells |-> FALSE]
  /\ fan = [d \in Shells |-> FALSE]
  /\ ph = [d \in Shells |-> 0]
  /\ cur = [d \in Shells |-> {}] /\ todo = [d \in Shells |-> {}]
  /\ writing = [d \in Shells |-> FALSE]
  /\ buf = [d \in Shells |-> [status |-> AllPending, deps |-> FALSE]]
  /\ aborted = [d \in Shells |-> FALSE]
  /\ recorded = {} /\ lost = FALSE /\ overlap = FALSE /\ blind = FALSE
  /\ resumes = 0 /\ faults = 0

-----------------------------------------------------------------------------
(* The store.                                                              *)

IsFirst(s, S) == s \in S /\ \A t \in S : s <= t
Rest(S) == {s \in S : \E t \in S : t < s}

(* readPlan: the sidecar, or what the .md body gives.                      *)
Stored == IF side.ok THEN [status |-> side.status, deps |-> side.deps]
                     ELSE [status |-> AllPending, deps |-> FALSE]

Settled(status) == {s \in Steps : status[s] \in {"done", "skipped"}}
Pending(status) == Steps \ Settled(status)

(* resumablePlans: approved, with a step that is neither done nor skipped. *)
Resumable == md = "approved" /\ Pending(Stored.status) # {}

(* As it would be if the checkpoint wrote a fresh plan back.               *)
WithStatusFresh(d, s) ==
  [status |-> [AllPending EXCEPT ![s] = mem[d][s]], deps |-> Stored.deps]

(* updatePlanStep: the plan as stored, with one step changed.              *)
WithStatus(d, s) ==
  [status |-> [Stored.status EXCEPT ![s] = mem[d][s]], deps |-> Stored.deps]

(* updatePlanStep reads the plan and opens the sidecar for writing.        *)
OpenSidecar(d) ==
  /\ ~writing[d]
  /\ \E s \in Steps : IsFirst(s, todo[d]) /\ buf' = [buf EXCEPT ![d] = WithStatus(d, s)]
  /\ writing' = [writing EXCEPT ![d] = TRUE]
  /\ side' = [side EXCEPT !.ok = FALSE]
  /\ lost' = (lost \/ ~side.ok)
  /\ UNCHANGED <<plan, approved, md, tree, pc, mem, linked, tracked, fan, ph, cur,
                 todo, aborted, recorded, overlap, blind, bounds>>

(* The write is complete.  (The sidecar of savePlan is one more write.)    *)
FillSidecar(d) ==
  /\ writing[d]
  /\ side' = [ok |-> TRUE, status |-> buf[d].status, deps |-> buf[d].deps]
  /\ writing' = [writing EXCEPT ![d] = FALSE]
  /\ todo' = [todo EXCEPT ![d] = Rest(@)]
  /\ recorded' = recorded \cup {s \in Steps : buf[d].status[s] = "done"}
  /\ UNCHANGED <<plan, approved, md, tree, pc, mem, linked, tracked, fan, ph, cur,
                 buf, aborted, lost, overlap, blind, bounds>>

(* A write fails, before or after the truncation; a checkpoint's failure   *)
(* is swallowed, that of savePlan leaves the shell without a planId.       *)
WriteFails(d) ==
  /\ todo[d] # {} \/ writing[d]
  /\ writing' = [writing EXCEPT ![d] = FALSE]
  /\ todo' = [todo EXCEPT ![d] = Rest(@)]
  /\ tracked' = [tracked EXCEPT ![d] = @ /\ todo[d] # {}]
  /\ faults < MaxFaults /\ faults' = faults + 1
  /\ UNCHANGED <<plan, approved, disk, tree, pc, mem, linked, fan, ph, cur, buf,
                 aborted, history, resumes>>

(* The store's calls are synchronous: a shell goes on when they are done.  *)
Quiet(d) == todo[d] = {} /\ ~writing[d]

(* onStep after mem has changed: without a planId nothing is written.      *)
Checkpoint(d, S) == todo' = [todo EXCEPT ![d] = IF tracked[d] THEN S ELSE {}]

(* savePlan: the .md, then the sidecar with the plan as approved.          *)
SavePlan(d, status) ==
  /\ md' = status
  /\ UNCHANGED faults
  /\ writing' = [writing EXCEPT ![d] = TRUE]
  /\ buf' = [buf EXCEPT ![d] = [status |-> AllPending, deps |-> TRUE]]
  /\ tracked' = [tracked EXCEPT ![d] = TRUE]
  /\ UNCHANGED side

SaveFails(d) ==
  /\ faults < MaxFaults /\ faults' = faults + 1
  /\ tracked' = [tracked EXCEPT ![d] = FALSE]
  /\ UNCHANGED <<disk, writing, buf>>

-----------------------------------------------------------------------------
(* A plan is approved, a build is decomposed.                              *)

Phases == {plan.phase[s] : s \in Steps}
Stepwise == N >= 2 /\ (Cardinality(Phases) >= 2 \/ N >= 5)

Driving(d) == pc[d] \notin {"idle", "asked"}

(* executeApprovedPlan, the large plan: saved as approved, then driven.    *)
(* materializeAutoBuild likewise, before the build.                        *)
Approve(d) ==
  /\ pc[d] = "idle" /\ ~approved
  /\ plan.origin = "gate" => Stepwise
  /\ approved' = TRUE
  /\ SavePlan(d, "approved") \/ SaveFails(d)
  /\ pc' = [pc EXCEPT ![d] = IF plan.origin = "gate" THEN "phase" ELSE "open"]
  /\ mem' = [mem EXCEPT ![d] = AllPending]
  /\ linked' = [linked EXCEPT ![d] = TRUE]
  /\ ph' = [ph EXCEPT ![d] = 0]
  /\ \E b \in BOOLEAN : fan' = [fan EXCEPT ![d] = plan.origin = "gate" /\ b]
  /\ UNCHANGED <<plan, tree, cur, todo, aborted, history, resumes>>

(* The small plan: one pass of the implementer, saved when it has ended.   *)
ApproveFlat(d) ==
  /\ pc[d] = "idle" /\ ~approved
  /\ plan.origin = "gate" /\ ~Stepwise
  /\ approved' = TRUE
  /\ pc' = [pc EXCEPT ![d] = "flat"]
  /\ mem' = [mem EXCEPT ![d] = AllPending]
  /\ cur' = [cur EXCEPT ![d] = Steps]
  /\ UNCHANGED <<plan, disk, tree, linked, tracked, fan, ph, todo, writing, buf,
                 aborted, history, bounds>>

(* The pass has ended, its work finished or not, cancelled or not.         *)
FlatReturns(d) ==
  /\ pc[d] = "flat"
  /\ \E finished \in BOOLEAN : tree' = IF finished THEN tree \cup cur[d] ELSE tree
  /\ SavePlan(d, "executed") \/ SaveFails(d)
  /\ blind' = TRUE
  /\ cur' = [cur EXCEPT ![d] = {}]
  /\ pc' = [pc EXCEPT ![d] = "end"]
  /\ UNCHANGED <<plan, approved, mem, linked, fan, ph, todo, aborted, recorded, lost,
                 overlap, resumes>>

FlatThrows(d) ==
  /\ pc[d] = "flat"
  /\ cur' = [cur EXCEPT ![d] = {}]
  /\ pc' = [pc EXCEPT ![d] = "end"]
  /\ UNCHANGED <<plan, approved, disk, tree, mem, linked, tracked, fan, ph, todo,
                 writing, buf, aborted, history, bounds>>

-----------------------------------------------------------------------------
(* runStructuredPlan.                                                      *)

Deps(d, s) == IF linked[d] THEN plan.deps[s] ELSE {}
Left(d, k) == {s \in Pending(mem[d]) : plan.phase[s] = k}
Later(d) == {plan.phase[s] : s \in {t \in Pending(mem[d]) : plan.phase[t] > ph[d]}}

(* As it would be if a phase fanned out with its own dependencies unmet.   *)
IndependentBySize(d, S) == Cardinality(S) >= 2

(* A phase is one batch when each of its steps left has its deps done.     *)
Independent(d, S) ==
  Cardinality(S) >= 2 /\ \A s \in S : \A t \in Deps(d, s) : mem[d][t] = "done"

Marked(d, S, status) == [mem EXCEPT ![d] = [s \in Steps |-> IF s \in S THEN status ELSE @[s]]]

(* The loop comes to the next phase with a step left, and decides whether  *)
(* it runs as one batch.                                                   *)
EnterPhase(d) ==
  /\ pc[d] = "phase" /\ Quiet(d) /\ ~aborted[d]
  /\ \E k \in Later(d) :
       LET batch == fan[d] /\ Independent(d, Left(d, k))
       IN
        /\ \A j \in Later(d) : k <= j
        /\ ph' = [ph EXCEPT ![d] = k]
        /\ pc' = [pc EXCEPT ![d] = IF batch THEN "swarm" ELSE "step"]
        /\ cur' = [cur EXCEPT ![d] = IF batch THEN Left(d, k) ELSE {}]
        /\ mem' = IF batch THEN Marked(d, Left(d, k), "active") ELSE mem
        /\ Checkpoint(d, IF batch THEN Left(d, k) ELSE {})
  /\ UNCHANGED <<plan, approved, disk, tree, linked, tracked, fan, writing, buf,
                 aborted, history, bounds>>

(* phaseExecutor: a step is done when its lane is and the merged diff was  *)
(* applied; a batch with a blocked step stops the plan.                    *)
SwarmReturns(d) ==
  /\ pc[d] = "swarm" /\ Quiet(d)
  /\ \E landed \in SUBSET cur[d] :
       /\ tree' = tree \cup landed
       /\ mem' = [mem EXCEPT ![d] = [s \in Steps |->
                    IF s \in landed THEN "done" ELSE IF s \in cur[d] THEN "blocked" ELSE @[s]]]
       /\ pc' = [pc EXCEPT ![d] = IF landed = cur[d] THEN "phase" ELSE "end"]
  /\ Checkpoint(d, cur[d])
  /\ cur' = [cur EXCEPT ![d] = {}]
  /\ UNCHANGED <<plan, approved, disk, linked, tracked, fan, ph, writing, buf, aborted,
                 history, bounds>>

(* The sequential loop runs the first step left, once its deps are done.   *)
RunStep(d) ==
  /\ pc[d] = "step" /\ Quiet(d) /\ ~aborted[d]
  /\ \E s \in Steps :
        /\ IsFirst(s, Left(d, ph[d]))
        /\ \A t \in Deps(d, s) : mem[d][t] = "done"
        /\ mem' = [mem EXCEPT ![d][s] = "active"]
        /\ Checkpoint(d, {s})
        /\ cur' = [cur EXCEPT ![d] = {s}]
        /\ pc' = [pc EXCEPT ![d] = "work"]
  /\ UNCHANGED <<plan, approved, disk, tree, linked, tracked, fan, ph, writing, buf,
                 aborted, history, bounds>>

(* A step whose deps are not done blocks, and the plan stops there.        *)
BlockStep(d) ==
  /\ pc[d] = "step" /\ Quiet(d) /\ ~aborted[d]
  /\ \E s \in Steps :
        /\ IsFirst(s, Left(d, ph[d]))
        /\ \E t \in Deps(d, s) : mem[d][t] # "done"
        /\ mem' = [mem EXCEPT ![d][s] = "blocked"]
        /\ Checkpoint(d, {s})
  /\ pc' = [pc EXCEPT ![d] = "end"]
  /\ UNCHANGED <<plan, approved, disk, tree, linked, tracked, fan, ph, cur, writing,
                 buf, aborted, history, bounds>>

LeavePhase(d) ==
  /\ pc[d] = "step" /\ Quiet(d) /\ ~aborted[d] /\ Left(d, ph[d]) = {}
  /\ pc' = [pc EXCEPT ![d] = "phase"]
  /\ UNCHANGED <<plan, approved, disk, tree, local, history, bounds>>

(* The implementer's pass ends: the executor returns done ...              *)
StepDone(d) ==
  /\ pc[d] = "work" /\ Quiet(d)
  /\ tree' = tree \cup cur[d]
  /\ mem' = Marked(d, cur[d], "done")
  /\ Checkpoint(d, cur[d])
  /\ cur' = [cur EXCEPT ![d] = {}]
  /\ pc' = [pc EXCEPT ![d] = "step"]
  /\ UNCHANGED <<plan, approved, disk, linked, tracked, fan, ph, writing, buf, aborted,
                 history, bounds>>

(* As it would be if a cancelled pass were not left to be run again.       *)
StepBlockedDone(d) ==
  /\ pc[d] = "work" /\ Quiet(d)
  /\ mem' = Marked(d, cur[d], "done")
  /\ Checkpoint(d, cur[d])
  /\ cur' = [cur EXCEPT ![d] = {}]
  /\ pc' = [pc EXCEPT ![d] = "end"]
  /\ UNCHANGED <<plan, approved, disk, tree, linked, tracked, fan, ph, writing, buf,
                 aborted, history, bounds>>

(* ... or it was cancelled, or it threw, and the plan stops there.         *)
StepBlocked(d) ==
  /\ pc[d] = "work" /\ Quiet(d)
  /\ mem' = Marked(d, cur[d], "blocked")
  /\ Checkpoint(d, cur[d])
  /\ cur' = [cur EXCEPT ![d] = {}]
  /\ pc' = [pc EXCEPT ![d] = "end"]
  /\ UNCHANGED <<plan, approved, disk, tree, linked, tracked, fan, ph, writing, buf,
                 aborted, history, bounds>>

(* The loop has come to the end, or sees the abort.                        *)
StopRunning(d) ==
  /\ pc[d] \in {"phase", "step"} /\ Quiet(d)
  /\ aborted[d] \/ (pc[d] = "phase" /\ Later(d) = {})
  /\ pc' = [pc EXCEPT ![d] = "end"]
  /\ UNCHANGED <<plan, approved, disk, tree, local, history, bounds>>

Idle(d) ==
  /\ pc' = [pc EXCEPT ![d] = "idle"]
  /\ mem' = [mem EXCEPT ![d] = AllPending]
  /\ linked' = [linked EXCEPT ![d] = FALSE]
  /\ tracked' = [tracked EXCEPT ![d] = FALSE]
  /\ fan' = [fan EXCEPT ![d] = FALSE]
  /\ ph' = [ph EXCEPT ![d] = 0]
  /\ cur' = [cur EXCEPT ![d] = {}] /\ todo' = [todo EXCEPT ![d] = {}]
  /\ writing' = [writing EXCEPT ![d] = FALSE]
  /\ buf' = [buf EXCEPT ![d] = [status |-> AllPending, deps |-> FALSE]]
  /\ aborted' = [aborted EXCEPT ![d] = FALSE]

(* Every step done or skipped: setPlanStatus, whose failure is swallowed.  *)
(* Otherwise the plan stays approved.                                      *)
Finish(d) ==
  /\ pc[d] = "end" /\ Quiet(d)
  /\ \/ tracked[d] /\ Pending(mem[d]) = {} /\ md' = "executed"
     \/ md' = md
  /\ Idle(d)
  /\ UNCHANGED <<plan, approved, side, tree, history, bounds>>

-----------------------------------------------------------------------------
(* An automatic build: the board's steps go active together, the swarm     *)
(* runs them as its lanes, and the outcome settles every step.             *)

(* As it would be if the orchestrator's status were not mapped to the plan's. *)
OpenBuildUnmapped(d) ==
  /\ pc[d] = "open" /\ Quiet(d)
  /\ mem' = Marked(d, Steps, "running")
  /\ Checkpoint(d, Steps)
  /\ pc' = [pc EXCEPT ![d] = "build"]
  /\ UNCHANGED <<plan, approved, disk, tree, linked, tracked, fan, ph, cur, writing,
                 buf, aborted, history, bounds>>

OpenBuild(d) ==
  /\ pc[d] = "open" /\ Quiet(d)
  /\ mem' = Marked(d, Steps, "active")
  /\ Checkpoint(d, Steps)
  /\ pc' = [pc EXCEPT ![d] = "build"]
  /\ UNCHANGED <<plan, approved, disk, tree, linked, tracked, fan, ph, cur, writing,
                 buf, aborted, history, bounds>>

(* A lane's step is done if the merged diff was applied, skipped if the    *)
(* lane was empty, blocked otherwise.                                      *)
BuildReturns(d) ==
  /\ pc[d] = "build" /\ Quiet(d)
  /\ \E result \in [Steps -> {"done", "skipped", "blocked"}] :
       /\ mem' = [mem EXCEPT ![d] = result]
       /\ tree' = tree \cup {s \in Steps : result[s] = "done"}
  /\ Checkpoint(d, Steps)
  /\ pc' = [pc EXCEPT ![d] = "end"]
  /\ UNCHANGED <<plan, approved, disk, linked, tracked, fan, ph, cur, writing, buf,
                 aborted, history, bounds>>

(* The swarm threw: the whole build is tried as one gated run.             *)
BuildThrows(d) ==
  /\ pc[d] = "build" /\ Quiet(d)
  /\ Checkpoint(d, Steps)
  /\ pc' = [pc EXCEPT ![d] = "alone"]
  /\ UNCHANGED <<plan, approved, disk, tree, mem, linked, tracked, fan, ph, cur,
                 writing, buf, aborted, history, bounds>>

(* The gated run is over.  It may have failed, been rejected, or have red  *)
(* checks: runConversationalBuild returns all the same.                    *)
AloneReturns(d) ==
  /\ pc[d] = "alone" /\ Quiet(d)
  /\ \E finished \in BOOLEAN : tree' = IF finished THEN Steps ELSE tree
  /\ mem' = Marked(d, Steps, IF aborted[d] THEN "pending" ELSE "done")
  /\ blind' = TRUE
  /\ Checkpoint(d, Steps)
  /\ pc' = [pc EXCEPT ![d] = "end"]
  /\ UNCHANGED <<plan, approved, disk, linked, tracked, fan, ph, cur, writing, buf,
                 aborted, recorded, lost, overlap, bounds>>

AloneThrows(d) ==
  /\ pc[d] = "alone" /\ Quiet(d)
  /\ mem' = Marked(d, Steps, "blocked")
  /\ Checkpoint(d, Steps)
  /\ pc' = [pc EXCEPT ![d] = "end"]
  /\ UNCHANGED <<plan, approved, disk, tree, linked, tracked, fan, ph, cur, writing,
                 buf, aborted, history, bounds>>

-----------------------------------------------------------------------------
(* Resumption, cancellation, death.                                        *)

(* offerResumePlan asks about the newest resumable plan.                   *)
Offer(d) ==
  /\ pc[d] = "idle" /\ Resumable
  /\ pc' = [pc EXCEPT ![d] = "asked"]
  /\ UNCHANGED <<plan, approved, disk, tree, local, history, bounds>>

Decline(d) ==
  /\ pc[d] = "asked"
  /\ pc' = [pc EXCEPT ![d] = "idle"]
  /\ UNCHANGED <<plan, approved, disk, tree, local, history, bounds>>

Load(d) ==
  /\ mem' = [mem EXCEPT ![d] = Stored.status]
  /\ linked' = [linked EXCEPT ![d] = Stored.deps]

(* resumePlanTurn reads the plan again; by id (plans resume <id>) without  *)
(* a look at its overall status.                                           *)
Resume(d) ==
  /\ pc[d] \in {"idle", "asked"}
  /\ md # "none" /\ Pending(Stored.status) # {}
  /\ Load(d)
  /\ lost' = (lost \/ ~side.ok)
  /\ overlap' = (overlap \/ \E e \in Shells : Driving(e))
  /\ pc' = [pc EXCEPT ![d] = "phase"]
  /\ tracked' = [tracked EXCEPT ![d] = TRUE]
  /\ \E b \in BOOLEAN : fan' = [fan EXCEPT ![d] = b]
  /\ resumes < MaxResumes /\ resumes' = resumes + 1
  /\ (\E e \in Shells : Driving(e)) => faults < MaxFaults
  /\ faults' = IF \E e \in Shells : Driving(e) THEN faults + 1 ELSE faults
  /\ UNCHANGED <<plan, approved, disk, tree, ph, cur, todo, writing, buf, aborted,
                 recorded, blind>>

(* Another shell has finished it since it was offered: a friendly no-op.   *)
NothingLeft(d) ==
  /\ pc[d] = "asked" /\ Pending(Stored.status) = {}
  /\ pc' = [pc EXCEPT ![d] = "idle"]
  /\ UNCHANGED <<plan, approved, disk, tree, local, history, bounds>>

(* ESC or Ctrl-C: the abort of the turn.                                   *)
Abort(d) ==
  /\ Driving(d) /\ Quiet(d) /\ ~aborted[d] /\ pc[d] # "end"
  /\ aborted' = [aborted EXCEPT ![d] = TRUE]
  /\ faults < MaxFaults /\ faults' = faults + 1
  /\ UNCHANGED <<plan, approved, disk, tree, pc, mem, linked, tracked, fan, ph, cur,
                 todo, writing, buf, history, resumes>>

(* The process dies; what it was writing stays truncated.                  *)
Crash(d) ==
  /\ Driving(d)
  /\ Idle(d)
  /\ faults < MaxFaults /\ faults' = faults + 1
  /\ UNCHANGED <<plan, approved, disk, tree, history, resumes>>

-----------------------------------------------------------------------------
Store(d) == OpenSidecar(d) \/ FillSidecar(d) \/ WriteFails(d)

Drive(d) ==
  \/ EnterPhase(d) \/ SwarmReturns(d) \/ RunStep(d) \/ BlockStep(d) \/ LeavePhase(d)
  \/ StepDone(d) \/ StepBlocked(d) \/ StopRunning(d) \/ Finish(d)

Build(d) ==
  \/ OpenBuild(d) \/ BuildReturns(d) \/ BuildThrows(d) \/ AloneReturns(d) \/ AloneThrows(d)
  \/ ApproveFlat(d) \/ FlatReturns(d) \/ FlatThrows(d)

Pickup(d) == Offer(d) \/ Decline(d) \/ Resume(d) \/ NothingLeft(d)

Next == \E d \in Shells :
  Approve(d) \/ Store(d) \/ Drive(d) \/ Build(d) \/ Pickup(d) \/ Abort(d) \/ Crash(d)

Spec == Init /\ [][Next]_vars

-----------------------------------------------------------------------------
(* What the checkpoint and the plan's status say of the repository is so:  *)
(* a step the sidecar has said is done is finished in the tree, whatever   *)
(* crashes, failed writes and second shells came between.  Not once a      *)
(* one-pass execution has settled the plan: it settles its board done      *)
(* whatever came of the run.                                               *)
DoneIsTrue == ~blind => recorded \subseteq tree

(* The steps the runner executes, alone or as a batch, have the work of    *)
(* the steps they depend on under them, as long as the sidecar was never   *)
(* found unreadable.                                                       *)
DepsRespected ==
  \A d \in Shells : ~lost /\ ~blind /\ pc[d] \in {"work", "swarm"}
                      => \A s \in cur[d] : plan.deps[s] \subseteq tree

Executing(d) == pc[d] \in {"work", "swarm"}

(* Resume continues where the plan was left: a step that was checkpointed  *)
(* done is not executed again, unless the sidecar was once unreadable or   *)
(* two shells drove the plan together.                                     *)
NotRedone ==
  [][~lost' /\ ~overlap' =>
       \A d \in Shells : ~Executing(d) /\ Executing(d)' => cur'[d] \cap recorded = {}]_vars
=============================================================================
