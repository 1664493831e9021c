----------------------------- MODULE SwarmFlow -----------------------------
(***************************************************************************)
(* Orchestrations of the CLI: runSwarmFlow and executeSwarm                *)
(* (apps/cli/src/lib/swarm.ts) over the fan-out that Swarm models, their   *)
(* control file and manifest (lib/orchestration-manifest.ts), and          *)
(* `excalibur orchestrate` (commands/orchestrate.ts), which runs the lanes *)
(* of a manifest, or of an authored spec, again.                           *)
(*                                                                         *)
(* Here a lane is what its gate lets it do: it is held while the           *)
(* orchestration is paused, skipped when it was cancelled, and not started *)
(* when the budget is spent.  The control file is written by other         *)
(* processes (the dashboard, a second CLI): read, merge, truncate, fill.   *)
(* The worktrees, the waves' rebasing and their gates are Swarm's.         *)
(***************************************************************************)
EXTENDS Integers, FiniteSetsExt

CONSTANTS
  Lanes,        \* the steps of the orchestration
  DependsOn,    \* their dependencies
  Controllers,  \* processes that write the control file
  Cap, NoCap,   \* the budget of one call, in units of cost
  MaxCost,      \* of one attempt
  MaxConcurrency, MaxAttempts,
  Graded, SelfHeal, VerifyMerge,   \* --grade, orchestration.selfHeal, .verifyMerge
  MaxCalls, MaxWrites              \* model bounds

ASSUME FlowAssumption ==
  /\ IsFiniteSet(Lanes)
  /\ DependsOn \in [Lanes -> SUBSET Lanes]
  /\ Cap \in Nat \ {0} \/ Cap = NoCap
  /\ NoCap \notin Nat
  /\ MaxCost \in Nat
  /\ MaxConcurrency \in Nat \ {0} /\ MaxAttempts \in Nat \ {0}
  /\ Graded \in BOOLEAN /\ SelfHeal \in BOOLEAN /\ VerifyMerge \in BOOLEAN
  /\ MaxCalls \in Nat /\ MaxWrites \in Nat

VARIABLES
  pc,        \* the flow: idle, running, fanned (in), testing, offer
  sub,       \* the lanes of this call
  retrying,  \* it is the retry that was offered (noResumeOffer)
  aborted,   \* its signal
  lane,      \* where each lane is
  tries,     \* attempts begun
  healing,   \* the lane's one heal has begun
  dirty,     \* its worktree has a diff
  spent,     \* the ledger
  notified,  \* pausedNotified
  parent,    \* the status of the parent run's record
  child,     \* and of the lanes' records
  control,   \* orchestration-control.json: readable or not, and its flags
  writer,    \* where each controller is
  patched,   \* what it writes
  conflicts, \* lanes that did not merge
  manifest,  \* orchestration.json of the newest run: the outcome of its lanes
  reused,    \* lanes this call leaves to an earlier one
  tree,      \* lanes whose work is in the working tree
  unlanded,  \* lanes with a diff that did not land, or was reverted (history)
  halted,    \* lanes cancelled in the file before they first worked (history)
  crossed,   \* the control file was read unreadable, or written over (history)
  calls, writes   \* model bounds: how many there have been; writes in the first call only

lanes == <<lane, tries, healing, dirty>>
records == <<parent, child>>
file == <<control, writer, patched, writes>>
outcome == <<conflicts, manifest, reused>>
history == <<unlanded, halted, crossed>>
vars == <<pc, sub, retrying, aborted, lanes, spent, notified, records, file,
          outcome, tree, history, calls>>

Absent == [ok |-> FALSE, paused |-> FALSE, cancelled |-> {}]
Flags == [ok : BOOLEAN, paused : BOOLEAN, cancelled : SUBSET Lanes]
Outcomes == {"none", "done", "empty", "failed"}
Stages == {"out", "queued", "again", "held", "working", "returned", "threw", "ok", "failed"}

TypeOK ==
  /\ pc \in {"idle", "running", "fanned", "testing", "offer"}
  /\ sub \subseteq Lanes /\ retrying \in BOOLEAN /\ aborted \in BOOLEAN
  /\ lane \in [Lanes -> Stages]
  /\ tries \in [Lanes -> 0 .. MaxAttempts - 1]
  /\ healing \in [Lanes -> BOOLEAN] /\ dirty \in [Lanes -> BOOLEAN]
  /\ spent \in Nat
  /\ notified \in BOOLEAN
  /\ parent \in {"none", "running", "waiting_approval", "completed", "failed"}
  /\ child \in [Lanes -> {"none", "running", "cancelled", "completed", "failed"}]
  /\ control \in Flags
  /\ writer \in [Controllers -> {"idle", "open", "fill"}]
  /\ patched \in [Controllers -> Flags]
  /\ conflicts \subseteq Lanes
  /\ manifest \in [Lanes -> Outcomes]
  /\ reused \subseteq Lanes /\ tree \subseteq Lanes
  /\ unlanded \subseteq Lanes /\ halted \subseteq Lanes /\ crossed \in BOOLEAN
  /\ calls \in 0 .. MaxCalls /\ writes \in 0 .. MaxWrites

Init ==
  /\ pc = "idle" /\ sub = {} /\ retrying = FALSE /\ aborted = FALSE
  /\ lane = [l \in Lanes |-> "out"] /\ tries = [l \in Lanes |-> 0]
  /\ healing = [l \in Lanes |-> FALSE] /\ dirty = [l \in Lanes |-> FALSE]
  /\ spent = 0 /\ notified = FALSE
  /\ parent = "none" /\ child = [l \in Lanes |-> "none"]
  /\ control = Absent
  /\ writer = [c \in Controllers |-> "idle"]
  /\ patched = [c \in Controllers |-> Absent]
  /\ conflicts = {} /\ manifest = [l \in Lanes |-> "none"] /\ reused = {}
  /\ tree = {}
  /\ unlanded = {} /\ halted = {} /\ crossed = FALSE
  /\ calls = 0 /\ writes = 0

-----------------------------------------------------------------------------
Calm == /\ tries' = [l \in Lanes |-> 0]
        /\ healing' = [l \in Lanes |-> FALSE] /\ dirty' = [l \in Lanes |-> FALSE]
        /\ spent' = 0 /\ notified' = FALSE /\ conflicts' = {}

(* A call: a new parent run, with a control file and a manifest of its own *)
(* to come.                                                                *)
Begin(S, kept, retry) ==
  /\ calls < MaxCalls /\ calls' = calls + 1
  /\ S # {}
  /\ pc' = "running" /\ sub' = S /\ retrying' = retry /\ aborted' = (retry /\ aborted)
  /\ lane' = [l \in Lanes |-> IF l \in S THEN "queued" ELSE "out"]
  /\ Calm
  /\ parent' = "running" /\ child' = [l \in Lanes |-> "none"]
  /\ control' = Absent
  /\ writer' = [c \in Controllers |-> "idle"]
  /\ patched' = [c \in Controllers |-> Absent]
  /\ manifest' = [l \in Lanes |-> "none"] /\ reused' = kept
  /\ halted' = {} /\ crossed' = FALSE
  /\ writes' = IF calls = 0 THEN 0 ELSE MaxWrites
  /\ UNCHANGED <<tree, unlanded>>

(* Its end: what it kept in memory is gone.                                *)
End ==
  /\ pc' = "idle" /\ sub' = {} /\ retrying' = FALSE /\ aborted' = FALSE
  /\ lane' = [l \in Lanes |-> "out"]
  /\ Calm /\ reused' = {}
  /\ UNCHANGED <<records, file, manifest, halted, crossed, calls>>

Listed == {l \in Lanes : manifest[l] # "none"}

(* As it would be if the lanes that use their work were left as they are.  *)
WithoutDependents(S) == S

(* The lanes of S, and those that depend, through any number of others, on *)
(* one of them: in every set that holds S and is closed.                   *)
Closed(T) == \A l \in Listed : DependsOn[l] \cap T # {} => l \in T
WithDependents(S) ==
  {l \in Lanes : \A T \in SUBSET Lanes : S \subseteq T /\ Closed(T) => l \in T}

(* planResume: lanes not done, or edited since, with all their dependents. *)
Rerun(edited) == WithDependents({l \in Listed : manifest[l] # "done"} \cup edited)

Fresh == pc = "idle" /\ Begin(Lanes, {}, FALSE)

(* orchestrate: every lane of the newest manifest; --resume: those that    *)
(* did not complete.                                                       *)
RunAgain == pc = "idle" /\ Begin(Listed, {}, FALSE)
Resume == pc = "idle" /\ Begin(Rerun({}), Listed \ Rerun({}), FALSE)

(* --spec --resume: an edited spec, if the manifest knows all its steps;   *)
(* otherwise it is run afresh.                                             *)
ResumeSpec ==
  /\ pc = "idle" /\ Listed = Lanes
  /\ \E edited \in SUBSET Lanes : Begin(Rerun(edited), Lanes \ Rerun(edited), FALSE)

-----------------------------------------------------------------------------
(* A lane.                                                                 *)

Busy == {l \in Lanes : lane[l] \in {"again", "held", "working", "returned", "threw"}}
Settled(l) == lane[l] \in {"out", "ok", "failed"}

(* loadOrchestrationControl: unreadable is as if there were none.          *)
Paused == control.ok /\ control.paused
CancelledLanes == IF control.ok THEN control.cancelled ELSE {}
Torn == ~control.ok /\ \E c \in Controllers : writer[c] = "fill"

Exceeded == Cap # NoCap /\ spent >= Cap

(* Past the hold: nothing is done for a swarm that was aborted, a lane     *)
(* that was cancelled, or a budget that is spent; otherwise the work.      *)
Known(l) == [child EXCEPT ![l] = IF @ = "none" THEN "running" ELSE @]
Cancelled(l) == ~aborted /\ l \in CancelledLanes

(* As it would be if the budget were not looked at.                        *)
WorkUncapped(l) == ~aborted /\ ~Cancelled(l)

Works(l) == ~aborted /\ ~Cancelled(l) /\ ~Exceeded

Pass(l) ==
  /\ lane' = [lane EXCEPT ![l] = IF Works(l) THEN "working" ELSE "returned"]
  /\ child' = IF Cancelled(l) THEN [Known(l) EXCEPT ![l] = "cancelled"] ELSE Known(l)

Hold(l) ==
  /\ lane' = [lane EXCEPT ![l] = "held"]
  /\ child' = Known(l)
  /\ notified' = TRUE
  /\ parent' = IF notified THEN parent ELSE "waiting_approval"

(* topologicalWaves, of the lanes of this call; lanes that depend on each  *)
(* other are left out.                                                     *)
Wave ==
  LET wave[l \in sub] == IF DependsOn[l] \cap sub = {} THEN 0
                         ELSE 1 + Max({wave[d] : d \in DependsOn[l] \cap sub})
  IN  wave

(* runLane: the first time from the pool, once the waves before are done;  *)
(* then for each attempt and for the heal.                                 *)
EnterGate(l) ==
  /\ pc = "running"
  /\ \/ lane[l] = "again"
     \/ /\ lane[l] = "queued" /\ Cardinality(Busy) < MaxConcurrency
        /\ \A k \in sub : Wave[k] < Wave[l] => Settled(k)
  /\ IF Paused /\ ~aborted THEN Hold(l)
                           ELSE Pass(l) /\ UNCHANGED <<notified, parent>>
  /\ crossed' = (crossed \/ Torn)
  /\ UNCHANGED <<pc, sub, retrying, aborted, tries, healing, dirty, spent, file,
                 outcome, tree, unlanded, halted, calls>>

(* As it would be if only the flag ended the hold.                         *)
GoesOnWhenCleared == ~Paused

(* The poll finds the flag cleared, or the swarm aborted.                  *)
GoesOn == ~Paused \/ aborted

Release(l) ==
  /\ pc = "running" /\ lane[l] = "held" /\ GoesOn
  /\ Pass(l)
  /\ notified' = FALSE
  /\ parent' = IF notified THEN "running" ELSE parent
  /\ crossed' = (crossed \/ Torn)
  /\ UNCHANGED <<pc, sub, retrying, aborted, tries, healing, dirty, spent, file,
                 outcome, tree, unlanded, halted, calls>>

(* The agent's turn: its cost goes to the ledger when it has ended; it     *)
(* throws when it achieved nothing, or its output has not the lane's       *)
(* shape, and its diff is then of no use.                                  *)
LaneReturns(l) ==
  /\ pc = "running" /\ lane[l] = "working"
  /\ \E cost \in 0 .. MaxCost : spent' = spent + cost
  /\ \/ /\ lane' = [lane EXCEPT ![l] = "returned"]
        /\ \E b \in BOOLEAN : dirty' = [dirty EXCEPT ![l] = b]
     \/ /\ lane' = [lane EXCEPT ![l] = "threw"]
        /\ dirty' = [dirty EXCEPT ![l] = FALSE]
  /\ UNCHANGED <<pc, sub, retrying, aborted, tries, healing, notified, records, file,
                 outcome, tree, history, calls>>

(* The attempt is good: nothing grades it, or it passed.  A heal must have *)
(* left a diff.                                                            *)
LanePasses(l) ==
  /\ pc = "running" /\ lane[l] = "returned"
  /\ healing[l] => dirty[l]
  /\ lane' = [lane EXCEPT ![l] = "ok"]
  /\ tries' = [tries EXCEPT ![l] = 0] /\ healing' = [healing EXCEPT ![l] = FALSE]
  /\ UNCHANGED <<pc, sub, retrying, aborted, dirty, spent, notified, records, file,
                 outcome, tree, history, calls>>

(* As it would be with one attempt too many.                               *)
MayRetryOnce(l) == ~healing[l] /\ tries[l] < MaxAttempts
MayRetry(l) == ~healing[l] /\ tries[l] + 1 < MaxAttempts

(* It was not: another attempt from a reset worktree, then one heal, if    *)
(* there is budget left, then the lane has failed.                         *)
LaneRejected(l) ==
  /\ pc = "running"
  /\ \/ lane[l] = "threw"
     \/ lane[l] = "returned" /\ (Graded \/ (healing[l] /\ ~dirty[l]))
  /\ LET heal == ~healing[l] /\ ~MayRetry(l) /\ SelfHeal /\ ~Exceeded
     IN  /\ lane' = [lane EXCEPT ![l] = IF MayRetry(l) \/ heal THEN "again" ELSE "failed"]
         /\ tries' = [tries EXCEPT ![l] = IF MayRetry(l) THEN @ + 1 ELSE 0]
         /\ healing' = [healing EXCEPT ![l] = heal]
  /\ dirty' = [dirty EXCEPT ![l] = FALSE]
  /\ UNCHANGED <<pc, sub, retrying, aborted, spent, notified, records, file, outcome,
                 tree, history, calls>>

-----------------------------------------------------------------------------
(* The end of a call.                                                      *)

Merged == {l \in sub : lane[l] = "ok" /\ dirty[l]} \ conflicts

(* As it would be if the final status were set on every lane's record.     *)
RecordLanesAll ==
  child' = [l \in Lanes |-> IF l \notin sub THEN child[l]
                            ELSE IF lane[l] = "failed" THEN "failed" ELSE "completed"]

(* A lane that was cancelled keeps its status.                             *)
RecordLanes ==
  child' = [l \in Lanes |-> IF l \notin sub \/ child[l] = "cancelled" THEN child[l]
                            ELSE IF lane[l] = "failed" THEN "failed" ELSE "completed"]

(* All lanes have settled and fanned in: the records, and the manifest, in *)
(* which a lane with a diff is done.                                       *)
FanIn ==
  /\ pc = "running" /\ \A l \in sub : Settled(l)
  /\ \E C \in SUBSET {l \in sub : lane[l] = "ok" /\ dirty[l]} :
        /\ C # {} => \E l \in sub \ C : lane[l] = "ok" /\ dirty[l]
        /\ conflicts' = C
  /\ RecordLanes
  /\ parent' = IF \E l \in sub : lane[l] = "ok" THEN "completed" ELSE "failed"
  /\ manifest' = [l \in Lanes |->
                    IF l \notin sub THEN "none"
                    ELSE IF lane[l] = "failed" THEN "failed"
                    ELSE IF dirty[l] THEN "done" ELSE "empty"]
  /\ unlanded' = (unlanded \cup conflicts')
  /\ pc' = "fanned"
  /\ UNCHANGED <<sub, retrying, aborted, lanes, spent, notified, file, reused, tree,
                 halted, crossed, calls>>

(* The worktrees of a wave could not be set up: the records stay as they   *)
(* are.                                                                    *)
SetUpThrows ==
  /\ pc = "running"
  /\ \E next \in {Wave[l] : l \in sub} :
       \A l \in sub : IF Wave[l] < next THEN Settled(l) ELSE lane[l] = "queued"
  /\ End /\ UNCHANGED <<tree, unlanded>>

Stay(where) ==
  /\ pc' = where
  /\ UNCHANGED <<sub, retrying, aborted, lanes, spent, notified, records, file, outcome,
                 halted, crossed, calls>>

(* Nothing merged; or it is applied; or it is declined, or does not apply. *)
Land ==
  /\ pc = "fanned"
  /\ \/ /\ Merged = {}
        /\ Stay("offer") /\ UNCHANGED <<tree, unlanded>>
     \/ /\ Merged # {}
        /\ Stay(IF VerifyMerge THEN "testing" ELSE "offer")
        /\ tree' = tree \cup Merged /\ unlanded' = unlanded \ Merged
     \/ /\ Merged # {}
        /\ End /\ unlanded' = unlanded \cup Merged /\ UNCHANGED tree

(* The tests and the mesh on the merged tree; red reverts it, best effort. *)
Verify ==
  /\ pc = "testing"
  /\ \/ Stay("offer") /\ UNCHANGED <<tree, unlanded>>
     \/ /\ End /\ unlanded' = unlanded \cup Merged
        /\ tree' \in {tree \ Merged, tree}

(* The offer to retry the failed lanes, made once.                         *)
Failed == {l \in sub : lane[l] = "failed"}
Retry == pc = "offer" /\ ~retrying /\ Begin(Failed, {}, TRUE)
Leave == pc = "offer" /\ End /\ UNCHANGED <<tree, unlanded>>

Abort ==
  /\ pc = "running" /\ ~aborted
  /\ aborted' = TRUE
  /\ UNCHANGED <<pc, sub, retrying, lanes, spent, notified, records, file, outcome, tree,
                 history, calls>>

Crash ==
  /\ pc # "idle"
  /\ End
  /\ unlanded' = IF pc = "fanned" THEN unlanded \cup Merged ELSE unlanded
  /\ UNCHANGED tree

-----------------------------------------------------------------------------
(* Another process pauses or resumes the orchestration, or cancels a lane  *)
(* whose run has been created: what it read, with its part changed.  (A    *)
(* cancellation reads it twice, here once.)                                *)
ReadControl(c) ==
  /\ pc = "running" /\ writer[c] = "idle" /\ writes < MaxWrites
  /\ LET now == [ok |-> TRUE, paused |-> Paused, cancelled |-> CancelledLanes]
     IN  \/ patched' = [patched EXCEPT ![c] = [now EXCEPT !.paused = ~@]]
         \/ \E l \in sub \ CancelledLanes :
              /\ child[l] # "none"
              /\ patched' = [patched EXCEPT ![c] = [now EXCEPT !.cancelled = @ \cup {l}]]
  /\ writer' = [writer EXCEPT ![c] = "open"]
  /\ writes' = writes + 1
  /\ crossed' = (crossed \/ \E d \in Controllers : writer[d] # "idle")
  /\ UNCHANGED <<pc, sub, retrying, aborted, lanes, spent, notified, records, control,
                 outcome, tree, unlanded, halted, calls>>

OpenControl(c) ==
  /\ writer[c] = "open"
  /\ control' = [control EXCEPT !.ok = FALSE]
  /\ writer' = [writer EXCEPT ![c] = "fill"]
  /\ UNCHANGED <<pc, sub, retrying, aborted, lanes, spent, notified, records, patched,
                 writes, outcome, tree, history, calls>>

FillControl(c) ==
  /\ writer[c] = "fill"
  /\ control' = patched[c]
  /\ writer' = [writer EXCEPT ![c] = "idle"]
  /\ patched' = [patched EXCEPT ![c] = Absent]
  /\ halted' = halted \cup {l \in patched[c].cancelled :
                              pc = "running" /\ lane[l] = "held" /\ tries[l] = 0 /\ ~healing[l]}
  /\ UNCHANGED <<pc, sub, retrying, aborted, lanes, spent, notified, records, writes,
                 outcome, tree, unlanded, crossed, calls>>

-----------------------------------------------------------------------------
Lane(l) == EnterGate(l) \/ Release(l) \/ LaneReturns(l) \/ LanePasses(l) \/ LaneRejected(l)
Control(c) == ReadControl(c) \/ OpenControl(c) \/ FillControl(c)

Next ==
  \/ Fresh \/ RunAgain \/ Resume \/ ResumeSpec
  \/ \E l \in Lanes : Lane(l)
  \/ FanIn \/ SetUpThrows \/ Land \/ Verify \/ Retry \/ Leave \/ Abort \/ Crash
  \/ \E c \in Controllers : Control(c)

(* The event loop runs on, turns end, and a controller that has begun to   *)
(* write goes on: its write is one synchronous call.                       *)
Fairness ==
  /\ WF_vars(FanIn \/ \E l \in Lanes : Lane(l))
  /\ WF_vars(\E c \in Controllers : OpenControl(c) \/ FillControl(c))

Spec == Init /\ [][Next]_vars /\ Fairness

-----------------------------------------------------------------------------
(* A lane cancelled while it was held, before it had worked, never works,  *)
(* and its record says "cancelled" to the end, whatever retries and heals  *)
(* follow; unless the swarm was aborted too, two writers of the control    *)
(* file crossed, or a gate read it half written.                           *)
CancelledNeverWorks ==
  ~crossed => \A l \in halted :
                 /\ lane[l] # "working" /\ ~dirty[l]
                 /\ pc \in {"fanned", "testing", "offer"} => aborted \/ child[l] = "cancelled"

(* "worst-case overshoot: the lanes already in flight, bounded by          *)
(* maxConcurrency": what is spent, with what the working lanes may add.    *)
Working == {l \in Lanes : lane[l] = "working"}
SpendBound ==
  Cap # NoCap => spent + MaxCost * Cardinality(Working) < Cap + MaxCost * MaxConcurrency

(* planResume: a lane that is left to an earlier call depends on none that *)
(* runs again, and its work is in the working tree, unless it conflicted,  *)
(* or its merge was declined, refused, reverted or cut short by a crash.   *)
ReusedIsSound ==
  pc = "running" => \A l \in reused : DependsOn[l] \cap sub = {} /\ l \in tree \cup unlanded

(* An orchestration that is not paused ends, and an abort ends one that is *)
(* ("A cancel (abort) breaks the hold").                                   *)
CallsEnd ==
  (pc = "running" /\ (aborted \/ ~Paused)) ~> (pc # "running" \/ (Paused /\ ~aborted))
=============================================================================
