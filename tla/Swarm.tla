------------------------------- MODULE Swarm -------------------------------
(***************************************************************************)
(* Fan-out and fan-in over git worktrees: runSwarm and runSwarmStaged of   *)
(* packages/core/src/swarm/run-swarm.ts.  Each lane's agent works in a     *)
(* worktree and branch of its own; the lanes' diffs are replayed onto a    *)
(* merge worktree.  Staged, the lanes run in dependency waves, and each    *)
(* wave starts from the merged, committed and verified work of the waves   *)
(* before it.  Calls follow one another in one repository, whose branches  *)
(* and left-over worktrees they share.                                     *)
(*                                                                         *)
(* The content of a tree is the set of contributions it holds on top of    *)
(* the call's base: <<l, "work">>, lane l's whole diff, or <<l, "marks">>, *)
(* what a three-way merge of l that ended in conflicts left behind.        *)
(* Resets, staging and diffs succeed, as the code assumes; a commit runs   *)
(* the repository's hooks and may fail.                                    *)
(***************************************************************************)
EXTENDS Naturals, Sequences, FiniteSets

CONSTANTS
    Lanes,          \* lane ids
    Merge,          \* the name of the merge worktree
    Plans,          \* calls that may be made: flat or staged, with their waves
    DependsOn,      \* the lanes a lane names as its dependencies
    When,           \* a lane's condition
    Ceiling,        \* maxAttempts
    MaxConcurrency,
    Healer,         \* options.heal is given
    Gate,           \* options.verifyWave is given
    MaxCalls        \* model bound

Conditions == {"always", "on_success", "on_failure"}
PlanType == [staged : BOOLEAN, waves : Seq(Seq(Lanes))]

(* Each lane appears once, and a dependency that is in the plan at all is  *)
(* in an earlier wave: what topologicalWaves() returns.  Flat is one wave. *)
WellFormed(p) ==
    /\ p \in PlanType
    /\ p.waves # <<>>
    /\ ~p.staged => Len(p.waves) = 1
    /\ \A w \in DOMAIN p.waves : p.waves[w] # <<>>
    /\ \A w, v \in DOMAIN p.waves :
         \A i \in DOMAIN p.waves[w], j \in DOMAIN p.waves[v] :
            /\ p.waves[w][i] = p.waves[v][j] => w = v /\ i = j
            /\ p.staged /\ p.waves[v][j] \in DependsOn[p.waves[w][i]] => v < w

ASSUME LanesAssumption ==
    /\ IsFiniteSet(Lanes) /\ Merge \notin Lanes
    /\ DependsOn \in [Lanes -> SUBSET Lanes]
    /\ When \in [Lanes -> Conditions]
ASSUME PlansAssumption == \A p \in Plans : WellFormed(p)
ASSUME LimitsAssumption ==
    /\ Ceiling \in Nat \ {0} /\ MaxConcurrency \in Nat \ {0}
    /\ Healer \in BOOLEAN /\ Gate \in BOOLEAN
    /\ MaxCalls \in Nat

VARIABLES
    calls,     \* model bound: calls made
    pc,        \* where the call is
    ended,     \* how the last call ended
    plan,      \* the plan of the call
    wave,      \* the current wave
    cursor,    \* the next position of the wave to set up, or to merge
    index,     \* the global lane index
    setups,    \* the worktrees of the current wave, as <<index, lane>>
    stage,     \* what has become of each lane
    attempt,   \* the lane's attempt, a heal being one more than the ceiling
    edits,     \* the attempts whose edits are in the lane's worktree
    merging,   \* the content of the merge worktree
    tip,       \* the content of its HEAD
    pre,       \* the content of the wave's base
    conflicts, \* lanes reported as conflicting
    out,       \* the content of mergedDiff
    worktrees, \* worktrees of the repository, as <<index, name>>
    branches,  \* branches of the repository, likewise
    kept,      \* ghost: the worktrees that were there before the call
    lost       \* ghost: a commit of merged work failed

repoVars  == <<worktrees, branches>>
laneVars  == <<stage, attempt, edits>>
mergeVars == <<merging, tip, conflicts, lost>>
waveVars  == <<wave, cursor, index, setups, pre>>
callVars  == <<calls, plan, kept>>
endVars   == <<ended, out>>

vars == <<pc, repoVars, laneVars, mergeVars, waveVars, callVars, endVars>>

Fate == {"waiting", "skipped", "chosen", "ready", "working", "healing",
         "ran", "failed"}
Content == SUBSET (Lanes \X {"work", "marks"})
MergeTree == <<0, Merge>>

Init ==
    /\ calls = 0 /\ pc = "idle" /\ ended = "none"
    /\ plan = [staged |-> FALSE, waves |-> <<>>]
    /\ wave = 1 /\ cursor = 1 /\ index = 0 /\ setups = {}
    /\ stage = [l \in Lanes |-> "waiting"]
    /\ attempt = [l \in Lanes |-> 0]
    /\ edits = [l \in Lanes |-> {}]
    /\ merging = {} /\ tip = {} /\ pre = {} /\ conflicts = {} /\ out = {}
    /\ worktrees = {} /\ branches = {} /\ kept = {}
    /\ lost = FALSE

-----------------------------------------------------------------------------

Wave == plan.waves[wave]
InWave(l) == \E i \in DOMAIN Wave : Wave[i] = l
Planned(p) == {l \in Lanes : \E w \in DOMAIN p.waves : \E i \in DOMAIN p.waves[w] :
                               p.waves[w][i] = l}
Goto(where) == pc' = where
Active == pc \notin {"idle", "over"}

(* git worktree add -b: the branch and the path must be new.               *)
Free(w) == w \notin branches /\ w \notin worktrees
AddWorktree(w) ==
    /\ Free(w)
    /\ worktrees' = worktrees \cup {w}
    /\ branches' = branches \cup {w}

(* Why git refuses a worktree; it may have a reason of its own (the disk). *)
Refusal(w) == IF Free(w) THEN "git" ELSE "taken"

(* The call is over.  Worktrees are removed, their branches are not.       *)
Ends(how, removed) ==
    /\ Goto("over")
    /\ ended' = how
    /\ worktrees' = worktrees \ removed
    /\ UNCHANGED branches

-----------------------------------------------------------------------------
(* The call and its waves.                                                 *)

Begin(p) ==
    /\ ~Active
    /\ calls < MaxCalls
    /\ calls' = calls + 1
    /\ plan' = p /\ kept' = worktrees
    /\ wave' = 1 /\ cursor' = 1 /\ index' = 0 /\ setups' = {} /\ pre' = {}
    /\ stage' = [l \in Lanes |-> IF ~p.staged /\ l \in Planned(p)
                                 THEN "chosen" ELSE "waiting"]
    /\ attempt' = [l \in Lanes |-> 0]
    /\ edits' = [l \in Lanes |-> {}]
    /\ merging' = {} /\ tip' = {} /\ conflicts' = {} /\ lost' = FALSE
    /\ out' = {}

BeginFlat(p) ==
    /\ ~p.staged
    /\ Begin(p)
    /\ Goto("setup") /\ ended' = "none"
    /\ UNCHANGED repoVars

(* The merge worktree is added first; if git refuses, the call throws.     *)
BeginStaged(p) ==
    /\ p.staged
    /\ Begin(p)
    /\ \/ AddWorktree(MergeTree) /\ Goto("gating") /\ ended' = "none"
       \/ Ends(Refusal(MergeTree), {})

(* Mutant: one success is enough for on_success.                           *)
ShouldRunLax(l) ==
    CASE When[l] = "always" -> TRUE
      [] When[l] = "on_success" -> \E d \in DependsOn[l] : stage[d] = "ran"
      [] When[l] = "on_failure" -> \E d \in DependsOn[l] : stage[d] # "ran"

(* shouldRunLane: a dependency that is not in the plan does not count.     *)
Succeeded(l) == stage[l] = "ran"
Known(l) == DependsOn[l] \cap Planned(plan)
ShouldRun(l) ==
    CASE When[l] = "always" -> TRUE
      [] When[l] = "on_success" -> \A d \in Known(l) : Succeeded(d)
      [] When[l] = "on_failure" -> \E d \in Known(l) : ~Succeeded(d)

(* Mutant: the last wave's worktrees are left behind.                      *)
NextWaveUntidy ==
    \/ /\ wave < Len(plan.waves)
       /\ wave' = wave + 1
       /\ Goto("gating")
       /\ UNCHANGED <<repoVars, endVars>>
    \/ /\ wave = Len(plan.waves)
       /\ Ends("returned", setups \cup {MergeTree})
       /\ out' = tip
       /\ UNCHANGED wave

(* The next wave, or the end: mergedDiff is the tip against the base.      *)
NextWave ==
    \/ /\ wave < Len(plan.waves)
       /\ wave' = wave + 1
       /\ Goto("gating")
       /\ worktrees' = worktrees \ setups
       /\ UNCHANGED <<branches, endVars>>
    \/ /\ wave = Len(plan.waves)
       /\ Ends("returned", setups \cup {MergeTree})
       /\ out' = tip
       /\ UNCHANGED wave

(* Skipped lanes take their indexes before the others.                     *)
GateWave ==
    LET skipped == {l \in Lanes : InWave(l) /\ ~ShouldRun(l)}
        chosen  == {l \in Lanes : InWave(l) /\ ShouldRun(l)}
    IN /\ pc = "gating"
       /\ stage' = [l \in Lanes |-> IF l \in skipped THEN "skipped"
                                    ELSE IF l \in chosen THEN "chosen" ELSE stage[l]]
       /\ index' = index + Cardinality(skipped)
       /\ pre' = tip
       /\ cursor' = 1
       /\ \/ chosen # {} /\ Goto("setup") /\ UNCHANGED <<wave, repoVars, endVars>>
          \/ chosen = {} /\ NextWave
       /\ UNCHANGED <<setups, attempt, edits, mergeVars, callVars>>

SetUpLane ==
    /\ pc = "setup"
    /\ cursor <= Len(Wave)
    /\ cursor' = cursor + 1
    /\ LET l == Wave[cursor]
       IN \/ /\ stage[l] # "chosen"
             /\ UNCHANGED <<index, setups, stage, repoVars>>
          \/ /\ stage[l] = "chosen"
             /\ AddWorktree(<<index, l>>)
             /\ setups' = setups \cup {<<index, l>>}
             /\ stage' = [stage EXCEPT ![l] = "ready"]
             /\ index' = index + 1
    /\ UNCHANGED <<pc, wave, pre, attempt, edits, mergeVars, callVars, endVars>>

(* The worktrees this wave already has are not torn down.                  *)
SetUpFails ==
    /\ pc = "setup"
    /\ cursor <= Len(Wave)
    /\ stage[Wave[cursor]] = "chosen"
    /\ Ends(Refusal(<<index, Wave[cursor]>>), IF plan.staged THEN {MergeTree} ELSE {})
    /\ UNCHANGED <<out, laneVars, mergeVars, waveVars, callVars>>

SetUpDone ==
    /\ pc = "setup"
    /\ cursor > Len(Wave)
    /\ Goto("running")
    /\ UNCHANGED <<repoVars, laneVars, mergeVars, waveVars, callVars, endVars>>

-----------------------------------------------------------------------------
(* The lanes, in the pool.                                                 *)

Working == {l \in Lanes : stage[l] \in {"working", "healing"}}

(* A free worker takes the next lane of the wave.                          *)
StartLane ==
    /\ pc = "running"
    /\ Cardinality(Working) < MaxConcurrency
    /\ \E i \in DOMAIN Wave :
         /\ stage[Wave[i]] = "ready"
         /\ \A j \in 1 .. i - 1 : stage[Wave[j]] # "ready"
         /\ stage' = [stage EXCEPT ![Wave[i]] = "working"]
         /\ attempt' = [attempt EXCEPT ![Wave[i]] = 1]
    /\ UNCHANGED <<pc, edits, repoVars, mergeVars, waveVars, callVars, endVars>>

(* What an attempt may leave in its tree: it wrote something, or nothing.  *)
Wrote(l) == {edits[l], edits[l] \cup {attempt[l]}}

Settle(l, fate) ==
    /\ stage' = [stage EXCEPT ![l] = fate]
    /\ \E e \in Wrote(l) : edits' = [edits EXCEPT ![l] = e]
    /\ UNCHANGED attempt

LaneReturns(l) ==
    /\ pc = "running" /\ stage[l] = "working"
    /\ Settle(l, "ran")
    /\ UNCHANGED <<pc, repoVars, mergeVars, waveVars, callVars, endVars>>

(* Mutant: the worktree is not reset between attempts.                     *)
LeftAsIs(l) == edits[l] \cup {attempt[l]}

(* resetWorktree: what an attempt's tree is put back to.                   *)
Pristine(l) == {}

(* Mutant: one attempt too many.                                           *)
MayRetryOnce(l) == attempt[l] <= Ceiling

MayRetry(l) == attempt[l] < Ceiling

(* The attempt threw, or its diff did not meet the rubric.                 *)
LaneRejected(l) ==
    /\ pc = "running" /\ stage[l] = "working"
    /\ \/ /\ MayRetry(l) \/ Healer
          /\ edits' = [edits EXCEPT ![l] = Pristine(l)]
          /\ stage' = [stage EXCEPT ![l] = IF MayRetry(l) THEN "working" ELSE "healing"]
          /\ attempt' = [attempt EXCEPT ![l] = @ + 1]
       \/ /\ ~MayRetry(l) /\ ~Healer
          /\ Settle(l, "failed")
    /\ UNCHANGED <<pc, repoVars, mergeVars, waveVars, callVars, endVars>>

(* Mutant: a lane that could not be healed is dispatched again.            *)
HealReturnsAgain(l) ==
    /\ pc = "running" /\ stage[l] = "healing"
    /\ \E fate \in {"ran", "ready"} : Settle(l, fate)
    /\ UNCHANGED <<pc, repoVars, mergeVars, waveVars, callVars, endVars>>

(* One heal, which may throw; never a second.                              *)
HealReturns(l) ==
    /\ pc = "running" /\ stage[l] = "healing"
    /\ \E fate \in {"ran", "failed"} : Settle(l, fate)
    /\ UNCHANGED <<pc, repoVars, mergeVars, waveVars, callVars, endVars>>

(* Every lane of the wave has settled; flat, the merge worktree is added.  *)
LanesSettled ==
    /\ pc = "running"
    /\ \A i \in DOMAIN Wave : stage[Wave[i]] \in {"ran", "failed", "skipped"}
    /\ cursor' = 1
    /\ \/ plan.staged /\ Goto("merging") /\ UNCHANGED <<repoVars, ended>>
       \/ ~plan.staged /\ AddWorktree(MergeTree) /\ Goto("merging") /\ UNCHANGED ended
       \/ ~plan.staged /\ Ends(Refusal(MergeTree), setups)
    /\ UNCHANGED <<out, wave, index, setups, pre, laneVars, mergeVars, callVars>>

-----------------------------------------------------------------------------
(* Fan-in.                                                                 *)

Contributes(l) == stage[l] = "ran" /\ edits[l] # {}

(* A diff applies to the tree it was made against; to another, it may      *)
(* conflict even three-way, which can leave the tree with markers.         *)
MergeLane ==
    /\ pc = "merging"
    /\ cursor <= Len(Wave)
    /\ cursor' = cursor + 1
    /\ LET l == Wave[cursor]
       IN \/ /\ ~Contributes(l)
             /\ UNCHANGED <<merging, conflicts>>
          \/ /\ Contributes(l)
             /\ merging' = merging \cup {<<l, "work">>}
             /\ UNCHANGED conflicts
          \/ /\ Contributes(l)
             /\ merging # pre
             /\ merging' \in {merging, merging \cup {<<l, "marks">>}}
             /\ conflicts' = conflicts \cup {l}
    /\ UNCHANGED <<pc, tip, lost, wave, index, setups, pre, laneVars, repoVars,
                   callVars, endVars>>

ReturnFlat ==
    /\ pc = "merging" /\ ~plan.staged
    /\ cursor > Len(Wave)
    /\ out' = merging
    /\ Ends("returned", setups \cup {MergeTree})
    /\ UNCHANGED <<laneVars, mergeVars, waveVars, callVars>>

(* commitAll is best effort; a wave whose tip did not move is not verified. *)
CommitWave ==
    /\ pc = "merging" /\ plan.staged
    /\ cursor > Len(Wave)
    /\ \/ tip' = merging /\ UNCHANGED lost
       \/ merging # tip /\ lost' = TRUE /\ UNCHANGED tip
    /\ Goto(IF Gate /\ tip' # pre THEN "verifying" ELSE "closing")
    /\ UNCHANGED <<merging, conflicts, laneVars, waveVars, repoVars, callVars, endVars>>

(* Mutant: the merge is undone and its lanes still read as merged.         *)
RelabelNothing(l) == stage[l]

Relabel(l) == IF InWave(l) /\ Contributes(l) /\ l \notin conflicts
              THEN "failed" ELSE stage[l]

(* Mutant: the red wave's commit is left on the merge branch.              *)
VerifyFailsInWord ==
    /\ pc = "verifying"
    /\ stage' = [l \in Lanes |-> Relabel(l)]
    /\ Goto("closing")
    /\ UNCHANGED <<mergeVars, attempt, edits, waveVars, repoVars, callVars, endVars>>

(* Passed, or failed and advisory only.                                    *)
VerifyPasses ==
    /\ pc = "verifying"
    /\ Goto("closing")
    /\ UNCHANGED <<laneVars, mergeVars, waveVars, repoVars, callVars, endVars>>

VerifyFails ==
    /\ pc = "verifying"
    /\ merging' = pre /\ tip' = pre
    /\ stage' = [l \in Lanes |-> Relabel(l)]
    /\ Goto("closing")
    /\ UNCHANGED <<conflicts, lost, attempt, edits, waveVars, repoVars, callVars,
                   endVars>>

VerifyThrows ==
    /\ pc = "verifying"
    /\ Ends("gate", setups \cup {MergeTree})
    /\ UNCHANGED <<out, laneVars, mergeVars, waveVars, callVars>>

CloseWave ==
    /\ pc = "closing"
    /\ NextWave
    /\ setups' = {}
    /\ UNCHANGED <<cursor, index, pre, laneVars, mergeVars, callVars>>

-----------------------------------------------------------------------------
(* The process dies; the user deletes what earlier calls left behind.      *)

Crash ==
    /\ Active
    /\ Ends("crash", {})
    /\ UNCHANGED <<out, laneVars, mergeVars, waveVars, callVars>>

CleanUp ==
    /\ ~Active
    /\ worktrees' = {} /\ branches' = {}
    /\ UNCHANGED <<pc, laneVars, mergeVars, waveVars, callVars, endVars>>

Lane(l) == LaneReturns(l) \/ LaneRejected(l) \/ HealReturns(l)
Step ==
    \/ GateWave \/ SetUpLane \/ SetUpFails \/ SetUpDone
    \/ StartLane \/ (\E l \in Lanes : Lane(l)) \/ LanesSettled
    \/ MergeLane \/ ReturnFlat \/ CommitWave
    \/ VerifyPasses \/ VerifyFails \/ VerifyThrows \/ CloseWave

Next ==
    \/ \E p \in Plans : BeginFlat(p) \/ BeginStaged(p)
    \/ Step \/ Crash \/ CleanUp

(* Lanes, graders and gates answer: each is one bounded agent or command.  *)
Spec == Init /\ [][Next]_vars /\ WF_vars(Step)

-----------------------------------------------------------------------------
(* Properties.                                                             *)

PlaceOK ==
    /\ calls \in 0 .. MaxCalls
    /\ pc \in {"idle", "gating", "setup", "running", "merging", "verifying",
               "closing", "over"}
    /\ ended \in {"none", "returned", "taken", "git", "gate", "crash"}
    /\ plan \in Plans \/ pc = "idle"
    /\ wave \in Nat /\ cursor \in Nat \ {0} /\ index \in Nat
LanesOK ==
    /\ stage \in [Lanes -> Fate]
    /\ attempt \in [Lanes -> 0 .. Ceiling + 1]
    /\ edits \in [Lanes -> SUBSET (1 .. Ceiling + 1)]
TreesOK ==
    /\ {merging, tip, pre, out} \subseteq Content
    /\ conflicts \subseteq Lanes
    /\ {setups, worktrees, branches, kept} \subseteq SUBSET (Nat \X (Lanes \cup {Merge}))

(* Type invariant; no lane is attempted more than maxAttempts times and    *)
(* healed once.                                                            *)
TypeOK == PlaceOK /\ LanesOK /\ TreesOK /\ lost \in BOOLEAN

(* A lane's diff never holds the edits of an attempt that was rejected: it *)
(* is the last attempt's, or the heal's, alone.                            *)
DiffIsLastAttempts == \A l \in Lanes : edits[l] \subseteq {attempt[l]}

(* The lanes reported as merged.                                           *)
Merged == {l \in Lanes : Contributes(l) /\ l \notin conflicts}
WorkIn(content) == {l \in Lanes : <<l, "work">> \in content}

(* A wave starts from exactly the work of the merged lanes of the waves    *)
(* before it: nothing of a failed, conflicting or rolled back lane, and,   *)
(* unless a commit failed, all of the others.                              *)
DependentsSeeWork ==
    pc \in {"setup", "running"} =>
        /\ WorkIn(pre) \subseteq Merged
        /\ ~lost => WorkIn(pre) = {l \in Merged : ~InWave(l)}

(* The merged diff holds exactly the work of the lanes reported as merged, *)
(* or less if a commit failed.                                             *)
MergedIsComplete ==
    ended = "returned" =>
        /\ WorkIn(out) \subseteq Merged
        /\ ~lost => WorkIn(out) = Merged

(* What the lanes of a call are to those who made it.                      *)
CallStatus == IF Active THEN "open"
              ELSE IF ended \in {"none", "returned"} THEN ended ELSE "dropped"
Fates == [l \in Lanes |-> IF stage[l] \in {"chosen", "ready", "working", "healing"}
                          THEN "taken" ELSE stage[l]]
Dag == INSTANCE LaneDag WITH status <- CallStatus, judged <- plan.staged,
                             members <- Planned(plan), fate <- Fates

(* The call keeps what a fan-out promises of its lanes: each is taken up   *)
(* once, when its dependencies have settled, under its condition; it       *)
(* settles once; the gate takes a result back only before anything was     *)
(* built on it; and a call that returns has settled them all.              *)
LanesAreDriven == Dag!Spec

(* A call that got past its set-up, and did not crash, leaves no worktree. *)
TornDown == ended \in {"returned", "gate"} => worktrees \subseteq kept

(* Every call comes to an end.                                             *)
Terminates == Active ~> ~Active

(* run-swarm.ts of SwarmResult.conflicts: lanes whose diff conflicted are  *)
(* left out of mergedDiff.                                                 *)
ConflictsLeftOut == \A l \in conflicts : <<l, "marks">> \notin out

=============================================================================
