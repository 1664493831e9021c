------------------------------ MODULE Mission ------------------------------
(***************************************************************************)
(* A long autonomous mission: runMission                                   *)
(* (packages/core/src/orchestrator/supervisor.ts) drives a DAG of          *)
(* capability steps one at a time, asks a reassessor what to do after a    *)
(* failure or a gate, and checkpoints every event to one file              *)
(* (mission-store.ts).  Terminals (apps/cli/src/session) start the mission *)
(* and, at launch, offer to resume whatever unfinished mission the file    *)
(* holds; a terminal may crash at any point.                               *)
(*                                                                         *)
(* A step is named by its position in the live plan: ids are unique, new   *)
(* steps are appended, and a dependency on an id that is not (yet) in the  *)
(* plan is dropped both by the planner and by the splice.  The work of a   *)
(* step and the model's judgement are inputs: any result, any decision.    *)
(***************************************************************************)
EXTENDS Naturals, Sequences

CONSTANTS
    Terminals,    \* processes that may drive the mission
    Plans,        \* plans the planner may author: sequences of steps
    Additions,    \* sequences of steps a replan may propose
    Stronger,     \* capabilities an escalation may swap to
    Budgets,      \* ceilings, in cents, a start may be given
    NoBudget,
    Costs,        \* what an agent turn may report as its cost
    MaxCost,      \* a bound of Costs
    MaxSteps,     \* bound on executions per drive (50 in the code)
    MaxAttempts,  \* bound on the attempts of a step (3 in the code)
    MaxGrown,     \* model bound: length of the live plan
    MaxLaunches,  \* model bound: starts and accepted offers
    NoMission, Torn

Capabilities == {"implement", "parallelize", "test"}

(* A plan is a DAG: some numbering puts each step after its dependencies,  *)
(* which is when topologicalWaves() returns waves.                         *)
Acyclic(s) ==
    \E wave \in [DOMAIN s -> DOMAIN s] :
        \A i \in DOMAIN s : \A d \in s[i].deps : wave[d] < wave[i]

PlanSteps == [cap : Capabilities, gate : BOOLEAN, deps : SUBSET Nat]

ASSUME PlansAreDags ==
    \A p \in Plans :
        /\ p \in Seq(PlanSteps)
        /\ \A i \in DOMAIN p : p[i].deps \subseteq DOMAIN p
        /\ Acyclic(p)
ASSUME AdditionsAreSteps == Additions \subseteq Seq(PlanSteps)
ASSUME StrongerAreCapabilities == Stronger \subseteq Capabilities
ASSUME BudgetsAreCents == Budgets \subseteq Nat /\ NoBudget \notin Nat
ASSUME CostsAreBounded == MaxCost \in Nat \ {0} /\ Costs \subseteq 0 .. MaxCost
ASSUME LimitsAreNumbers ==
    /\ MaxSteps \in Nat \ {0} /\ MaxAttempts \in Nat \ {0}
    /\ MaxGrown \in Nat /\ MaxLaunches \in Nat

VARIABLES
    disk,       \* state.json: a mission, NoMission, or Torn (unreadable)
    pc,         \* what a terminal is doing
    mem,        \* the mission a terminal holds
    at,         \* the step it runs or reassesses, 0 for none
    executed,   \* executions since the drive began
    budget,     \* the ceiling of the drive
    stop,       \* the abort signal of the drive
    why,        \* why the loop was left, "" while it goes on
    launches,   \* model bound
    runs,       \* ghost: times each step's executor was called
    overlapped, \* ghost: a drive began beside, or behind, another
    refused     \* ghost: a splice refused the steps a replan proposed

vars == <<disk, pc, mem, at, executed, budget, stop, why, launches, runs,
          overlapped, refused>>

Statuses == {"pending", "running", "done", "failed", "skipped"}
Outcomes == {"pending", "completed", "failed", "aborted", "paused"}

StepStates == [cap : Capabilities, gate : BOOLEAN, deps : SUBSET Nat,
               status : Statuses, attempts : Nat]
Missions == [steps : Seq(StepStates), spent : Nat, done : BOOLEAN,
             outcome : Outcomes]

ASSUME MarkersAreNoMissions ==
    NoMission \notin Missions /\ Torn \notin Missions /\ NoMission # Torn

Init ==
    /\ disk = NoMission
    /\ pc = [t \in Terminals |-> "idle"]
    /\ mem = [t \in Terminals |-> NoMission]
    /\ at = [t \in Terminals |-> 0]
    /\ executed = [t \in Terminals |-> 0]
    /\ budget = [t \in Terminals |-> NoBudget]
    /\ stop = [t \in Terminals |-> FALSE]
    /\ why = [t \in Terminals |-> ""]
    /\ launches = 0
    /\ runs = [i \in 1 .. MaxGrown |-> 0]
    /\ overlapped = FALSE
    /\ refused = FALSE

-----------------------------------------------------------------------------
(* The live plan.                                                          *)

Fresh(p) ==
    [i \in DOMAIN p |-> [cap |-> p[i].cap, gate |-> p[i].gate,
                         deps |-> p[i].deps, status |-> "pending",
                         attempts |-> 0]]

IsWork(cap) == cap \in {"implement", "parallelize"}

DoneOnly(s, d) == s[d].status = "done"
SatisfiedLax(s, d) == s[d].status # "pending" /\ s[d].status # "failed"
Satisfied(s, d) == s[d].status \in {"done", "skipped"}

Blocked(s) ==
    {i \in DOMAIN s : s[i].status = "pending"
                      /\ \E d \in s[i].deps : s[d].status = "failed"}
Ready(s) ==
    {i \in DOMAIN s : s[i].status = "pending"
                      /\ \A d \in s[i].deps : Satisfied(s, d)}
First(S) == CHOOSE i \in S : \A j \in S : i <= j

SplicedWhole(s, add) ==
    LET new == [k \in DOMAIN add |->
                  [cap |-> add[k].cap, gate |-> add[k].gate,
                   deps |-> add[k].deps, status |-> "pending", attempts |-> 0]]
    IN IF Acyclic(s \o new) THEN s \o new ELSE s

(* A dependency on a step the splice has not reached yet is dropped.       *)
Spliced(s, add) ==
    LET new == [k \in DOMAIN add |->
                  [cap |-> add[k].cap, gate |-> add[k].gate,
                   deps |-> {d \in add[k].deps : 0 < d /\ d < Len(s) + k},
                   status |-> "pending", attempts |-> 0]]
        candidate == s \o new
    IN IF Acyclic(candidate) THEN candidate ELSE s

FinalOutcome(s, aborted) ==
    IF aborted THEN "aborted"
    ELSE IF \E i \in DOMAIN s : s[i].status = "failed"
                                /\ (s[i].gate \/ IsWork(s[i].cap))
         THEN "failed" ELSE "completed"

(* What runMissionTurn's executor reports of a step: an agent turn has a   *)
(* cost; a turn that throws, the swarm and the fixed tools report none.    *)
Reported == Costs \cup {0}

(* saveMission(): a write cut short leaves an unreadable file.  A write    *)
(* refused before it begins, which leaves the older one, is not modelled.  *)
Save(m) == disk' \in {m, Torn}

-----------------------------------------------------------------------------
(* Terminals: starting, resuming, crashing.                                *)

Active(t) == pc[t] \in {"loop", "executing", "reassessing"}
Readable == disk \notin {NoMission, Torn}

(* The locals of a call of runMission, as it begins and once it is over.   *)
Locals(t, b, reason) ==
    /\ at' = [at EXCEPT ![t] = 0]
    /\ executed' = [executed EXCEPT ![t] = 0]
    /\ budget' = [budget EXCEPT ![t] = b]
    /\ stop' = [stop EXCEPT ![t] = FALSE]
    /\ why' = [why EXCEPT ![t] = reason]

Drive(t, m, b) ==
    /\ pc' = [pc EXCEPT ![t] = "loop"]
    /\ mem' = [mem EXCEPT ![t] = m]
    /\ Locals(t, b, "")
    /\ launches' = launches + 1
    /\ UNCHANGED <<disk, runs, refused>>

Start(t) ==
    /\ launches < MaxLaunches
    /\ disk = NoMission /\ \A u \in Terminals : pc[u] = "idle"
    /\ \E p \in Plans, b \in Budgets \cup {NoBudget} :
         Drive(t, [steps |-> Fresh(p), spent |-> 0, done |-> FALSE,
                   outcome |-> "pending"], b)
    /\ UNCHANGED overlapped

(* At launch the newest mission that is not done is read and offered.      *)
Offer(t) ==
    /\ ~Active(t) /\ pc[t] # "offering"
    /\ launches < MaxLaunches
    /\ Readable /\ ~disk.done
    /\ pc' = [pc EXCEPT ![t] = "offering"]
    /\ mem' = [mem EXCEPT ![t] = disk]
    /\ UNCHANGED <<disk, at, executed, budget, stop, why, launches, runs,
                   overlapped, refused>>

(* The snapshot read for the offer is the one that is driven, however long *)
(* the user took to answer, and without the ceiling of the first drive.    *)
TakeOffer(t) ==
    /\ pc[t] = "offering"
    /\ launches < MaxLaunches
    /\ Drive(t, [mem[t] EXCEPT !.done = FALSE], NoBudget)
    /\ overlapped' = (\/ overlapped
                      \/ \E u \in Terminals \ {t} : Active(u)
                      \/ disk # mem[t])

DeclineOffer(t) ==
    /\ pc[t] = "offering"
    /\ pc' = [pc EXCEPT ![t] = "idle"]
    /\ mem' = [mem EXCEPT ![t] = NoMission]
    /\ UNCHANGED <<disk, at, executed, budget, stop, why, launches, runs,
                   overlapped, refused>>

Crash(t) ==
    /\ Active(t)
    /\ pc' = [pc EXCEPT ![t] = "idle"]
    /\ mem' = [mem EXCEPT ![t] = NoMission]
    /\ Locals(t, NoBudget, "")
    /\ UNCHANGED <<disk, launches, runs, overlapped, refused>>

(* ESC or Ctrl-C.                                                          *)
Escape(t) ==
    /\ Active(t) /\ ~stop[t]
    /\ stop' = [stop EXCEPT ![t] = TRUE]
    /\ UNCHANGED <<disk, pc, mem, at, executed, budget, why, launches, runs,
                   overlapped, refused>>

-----------------------------------------------------------------------------
(* The supervisor's loop.  Between two awaits it runs without interruption *)
(* of its own process; other terminals and a crash may come between its    *)
(* events.                                                                 *)

Hold(t, m) == mem' = [mem EXCEPT ![t] = m]
Goto(t, where) == pc' = [pc EXCEPT ![t] = where]
SetSteps(t, s) == [mem[t] EXCEPT !.steps = s]

LoopOpenLax(t) ==
    /\ pc[t] = "loop"
    /\ ~mem[t].done /\ why[t] = "" /\ executed[t] <= MaxSteps
LoopOpen(t) ==
    /\ pc[t] = "loop"
    /\ ~mem[t].done /\ why[t] = "" /\ executed[t] < MaxSteps

OverBudget(t) == budget[t] # NoBudget /\ mem[t].spent >= budget[t]

Goes(t) == LoopOpen(t) /\ ~stop[t]

(* The loop is left for good: mission_done.                                *)
Conclude(t, reason) ==
    LET m == [mem[t] EXCEPT
                !.done = TRUE,
                !.outcome = FinalOutcome(mem[t].steps, reason = "abort")]
    IN /\ Hold(t, m)
       /\ Save(m)
       /\ Goto(t, "over")
       /\ Locals(t, NoBudget, reason)
       /\ UNCHANGED <<launches, runs, overlapped, refused>>

EndAborted(t) ==
    /\ pc[t] = "loop"
    /\ why[t] = "abort" \/ (LoopOpen(t) /\ stop[t])
    /\ Conclude(t, "abort")

EndDeclared(t) ==
    /\ pc[t] = "loop" /\ mem[t].done /\ why[t] # "abort"
    /\ Conclude(t, "done")

EndExhausted(t) ==
    /\ pc[t] = "loop" /\ ~mem[t].done /\ why[t] = ""
    /\ executed[t] >= MaxSteps
    /\ Conclude(t, "steps")

EndNothingReady(t) ==
    /\ Goes(t) /\ ~OverBudget(t)
    /\ Blocked(mem[t].steps) = {} /\ Ready(mem[t].steps) = {}
    /\ Conclude(t, "nothing")

(* The budget, or the wall clock at any moment: mission_paused.            *)
Pause(t) ==
    LET m == [mem[t] EXCEPT !.done = FALSE, !.outcome = "paused"]
    IN /\ Goes(t)
       /\ Hold(t, m)
       /\ Save(m)
       /\ Goto(t, "over")
       /\ Locals(t, NoBudget, "pause")
       /\ UNCHANGED <<launches, runs, overlapped, refused>>

SkipQuietly(t) ==
    /\ Goes(t) /\ ~OverBudget(t)
    /\ Blocked(mem[t].steps) # {}
    /\ Save(mem[t])
    /\ UNCHANGED <<pc, mem, at, executed, budget, stop, why, launches, runs,
                   overlapped, refused>>
SkipBlocked(t) ==
    /\ Goes(t) /\ ~OverBudget(t)
    /\ Blocked(mem[t].steps) # {}
    /\ LET i == First(Blocked(mem[t].steps))
           m == SetSteps(t, [mem[t].steps EXCEPT ![i].status = "skipped"])
       IN Hold(t, m) /\ Save(m)
    /\ UNCHANGED <<pc, at, executed, budget, stop, why, launches, runs,
                   overlapped, refused>>

(* The step is marked and saved before its executor is called.             *)
RunStep(t) ==
    /\ Goes(t) /\ ~OverBudget(t)
    /\ Blocked(mem[t].steps) = {}
    /\ Ready(mem[t].steps) # {}
    /\ LET i == First(Ready(mem[t].steps))
           m == SetSteps(t, [mem[t].steps EXCEPT ![i].status = "running",
                                                 ![i].attempts = @ + 1])
       IN /\ Hold(t, m) /\ Save(m)
          /\ at' = [at EXCEPT ![t] = i]
          /\ runs' = [runs EXCEPT ![i] = @ + 1]
    /\ executed' = [executed EXCEPT ![t] = @ + 1]
    /\ Goto(t, "executing")
    /\ UNCHANGED <<budget, stop, why, launches, overlapped, refused>>

(* Only a failure or a gate is worth a reassessment.                       *)
StepReturnsUnbilled(t) ==
    /\ pc[t] = "executing"
    /\ LET step == mem[t].steps[at[t]]
       IN \E ok \in BOOLEAN, cost \in Reported :
            LET m == [mem[t] EXCEPT
                        !.steps[at[t]].status = IF ok THEN "done" ELSE "failed"]
            IN /\ Hold(t, [m EXCEPT !.spent = @ + cost])
               /\ Save(m)
               /\ Goto(t, IF ok /\ ~step.gate THEN "loop" ELSE "reassessing")
               /\ at' = [at EXCEPT ![t] = IF ok /\ ~step.gate THEN 0 ELSE @]
    /\ UNCHANGED <<executed, budget, stop, why, launches, runs,
                   overlapped, refused>>
StepReturns(t) ==
    /\ pc[t] = "executing"
    /\ LET step == mem[t].steps[at[t]]
       IN \E ok \in BOOLEAN, cost \in Reported :
            LET m == [mem[t] EXCEPT
                        !.steps[at[t]].status = IF ok THEN "done" ELSE "failed",
                        !.spent = @ + cost]
            IN /\ Hold(t, m)
               /\ Save(m)
               /\ Goto(t, IF ok /\ ~step.gate THEN "loop" ELSE "reassessing")
               /\ at' = [at EXCEPT ![t] = IF ok /\ ~step.gate THEN 0 ELSE @]
    /\ UNCHANGED <<executed, budget, stop, why, launches, runs,
                   overlapped, refused>>

-----------------------------------------------------------------------------
(* The reassessment: the model's answer, or the default policy's, which is *)
(* one of these.                                                           *)

Decide(t, m, saved) ==
    /\ Hold(t, m)
    /\ Save(saved)
    /\ Goto(t, "loop")
    /\ at' = [at EXCEPT ![t] = 0]
    /\ UNCHANGED <<executed, budget, stop, launches, runs, overlapped>>

Current(t) == mem[t].steps[at[t]]
Judging(t) == pc[t] = "reassessing"
MayRerunLax(t) == Judging(t) /\ Current(t).attempts <= MaxAttempts
MayRerun(t) == Judging(t) /\ Current(t).attempts < MaxAttempts

(* continue, skip, and a rerun that is out of attempts.                    *)
AcceptResult(t) == Judging(t) /\ Decide(t, mem[t], mem[t]) /\ UNCHANGED <<why, refused>>

GiveUp(t) ==
    /\ Judging(t)
    /\ Decide(t, mem[t], mem[t])
    /\ why' = [why EXCEPT ![t] = "abort"]
    /\ UNCHANGED refused

(* done is in memory only until mission_done is saved.                     *)
DeclareDone(t) ==
    /\ Judging(t)
    /\ Decide(t, [mem[t] EXCEPT !.done = TRUE], mem[t])
    /\ UNCHANGED <<why, refused>>

Retry(t) ==
    LET m == SetSteps(t, [mem[t].steps EXCEPT ![at[t]].status = "pending"])
    IN MayRerun(t) /\ Decide(t, m, m) /\ UNCHANGED <<why, refused>>

Escalate(t) ==
    \E cap \in Stronger :
      LET m == SetSteps(t, [mem[t].steps EXCEPT ![at[t]].status = "pending",
                                                ![at[t]].cap = cap])
      IN MayRerun(t) /\ Decide(t, m, m) /\ UNCHANGED <<why, refused>>

(* A failed step is superseded, whatever the splice then adds; the spliced *)
(* steps are in memory only until the next event.                          *)
Replan(t) ==
    LET failed == Current(t).status = "failed"
        kept == IF failed
                THEN SetSteps(t, [mem[t].steps EXCEPT ![at[t]].status = "skipped"])
                ELSE mem[t]
    IN Judging(t) /\ \E add \in Additions :
         LET s == Spliced(kept.steps, add)
         IN /\ Len(kept.steps) + Len(add) <= MaxGrown
            /\ Decide(t, [kept EXCEPT !.steps = s], kept)
            /\ refused' = (refused \/ (add # <<>> /\ s = kept.steps))
            /\ UNCHANGED why

-----------------------------------------------------------------------------

Loop(t) ==
    \/ EndAborted(t) \/ EndDeclared(t) \/ EndExhausted(t) \/ EndNothingReady(t)
    \/ Pause(t) \/ SkipBlocked(t) \/ RunStep(t)
Reassess(t) ==
    \/ AcceptResult(t) \/ GiveUp(t) \/ DeclareDone(t)
    \/ Retry(t) \/ Escalate(t) \/ Replan(t)
Drives(t) == Loop(t) \/ StepReturns(t) \/ Reassess(t)
Users(t) ==
    Start(t) \/ Offer(t) \/ TakeOffer(t) \/ DeclineOffer(t) \/ Crash(t) \/ Escape(t)

Rest == (\A t \in Terminals : pc[t] \in {"idle", "over"}) /\ UNCHANGED vars

Next == Rest \/ \E t \in Terminals : Drives(t) \/ Users(t)

(* Executors and reassessors answer, and the event loop goes on.           *)
Spec == Init /\ [][Next]_vars /\ \A t \in Terminals : WF_vars(Drives(t))

-----------------------------------------------------------------------------
(* Properties.                                                             *)

Copies == ({mem[t] : t \in Terminals} \cup {disk}) \ {NoMission, Torn}

Flags ==
    /\ stop \in [Terminals -> BOOLEAN]
    /\ overlapped \in BOOLEAN
    /\ refused \in BOOLEAN

Values ==
    /\ disk \in Missions \cup {NoMission, Torn}
    /\ pc \in [Terminals -> {"idle", "offering", "loop", "executing",
                             "reassessing", "over"}]
    /\ mem \in [Terminals -> Missions \cup {NoMission}]
    /\ at \in [Terminals -> Nat]
    /\ executed \in [Terminals -> 0 .. MaxSteps]
    /\ budget \in [Terminals -> Budgets \cup {NoBudget}]
    /\ why \in [Terminals -> {"", "abort", "done", "steps", "nothing", "pause"}]
    /\ launches \in 0 .. MaxLaunches
    /\ runs \in [1 .. MaxGrown -> Nat]

(* Type invariant; a drive executes at most maxSteps steps.                *)
TypeOK ==
    /\ Values
    /\ Flags

(* A step whose executor was ever called has every dependency done, or     *)
(* skipped on a replan or a failed dependency of its own, and so they      *)
(* stay: through retries, escalations, splices, crashes, resumes and two   *)
(* terminals driving copies of one mission.                                *)
DependenciesFirst ==
    \A m \in Copies : \A i \in DOMAIN m.steps :
        m.steps[i].attempts > 0 =>
            \A d \in m.steps[i].deps : m.steps[d].status \in {"done", "skipped"}

(* While a lone driver awaits an executor or the reassessor, what a crash  *)
(* would leave on disk is unreadable or is the mission as it stands.       *)
CheckpointIsCurrent ==
    ~overlapped =>
        \A t \in Terminals :
            pc[t] \in {"executing", "reassessing"} => disk \in {mem[t], Torn}

(* Lone drivers call the executor of a step at most maxAttempts times,     *)
(* however often the mission is crashed and resumed.                       *)
AttemptsAreCounted == ~overlapped => \A i \in DOMAIN runs : runs[i] <= MaxAttempts

(* The drive that was given a ceiling ends less than one step above it.    *)
SpendBound ==
    \A t \in Terminals :
        Active(t) /\ budget[t] # NoBudget => mem[t].spent < budget[t] + MaxCost

(* Both limits of a mission hold: attempts of a step, and money.           *)
LimitsHold == AttemptsAreCounted /\ SpendBound

(* A mission that ends because nothing is ready has no pending step left,  *)
(* unless a crash cut one of its steps.                                    *)
NoStrandedSteps ==
    \A t \in Terminals :
        pc[t] = "over" /\ why[t] = "nothing" =>
            LET s == mem[t].steps
            IN \/ \A i \in DOMAIN s : s[i].status # "pending"
               \/ \E i \in DOMAIN s : s[i].status = "running"

(* The steps a replan proposes always join the live plan: the cycle check  *)
(* of the splice never meets a cycle.                                      *)
SplicesAreAccepted == ~refused

(* Every drive comes to an end: retries, escalations and replans are       *)
(* bounded by maxSteps, skips by the plan.                                 *)
Terminates == \A t \in Terminals : Active(t) ~> ~Active(t)

(* Stated by mission-run.ts of a resumed mission: the drive picks up at    *)
(* the first unfinished step, so a completed mission left none unfinished. *)
InterruptedStepsRun ==
    \A m \in Copies :
        m.outcome = "completed" => \A i \in DOMAIN m.steps : m.steps[i].status # "running"

=============================================================================
