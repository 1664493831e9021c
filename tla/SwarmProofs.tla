---------------------------- MODULE SwarmProofs ----------------------------
(***************************************************************************)
(* Theorems about Swarm for every set of lanes, plan and bound: type       *)
(* correctness with the bound on attempts, every safety invariant of its   *)
(* run, the progress of the pool and of the call, and that Swarm           *)
(* implements LaneDag.                                                     *)
(*                                                                         *)
(* The inductive invariant ties a lane's edits and attempt to its stage;   *)
(* since a wave's lanes get their stage when the wave begins, it also says *)
(* that the lanes of the waves to come are still untouched.                *)
(***************************************************************************)
EXTENDS Swarm, FiniteSetTheorems, TLAPS

Where == Active => plan \in Plans /\ wave \in DOMAIN plan.waves

LaneOK(l) ==
    /\ stage[l] \in {"waiting", "skipped", "chosen", "ready"} => edits[l] = {}
    /\ stage[l] = "working" => attempt[l] \in 1 .. Ceiling
    /\ stage[l] = "healing" => attempt[l] = Ceiling + 1
    /\ edits[l] \subseteq {attempt[l]}

ToCome(v) == v > wave \/ (v = wave /\ pc = "gating")
Ahead ==
    Active =>
        \A v \in DOMAIN plan.waves : ToCome(v) =>
            \A i \in DOMAIN plan.waves[v] : stage[plan.waves[v][i]] = "waiting"

IInv ==
    /\ TypeOK
    /\ Where
    /\ \A l \in Lanes : LaneOK(l)
    /\ Ahead

-----------------------------------------------------------------------------

LEMMA PlanShape ==
  ASSUME NEW p \in Plans
  PROVE  /\ p \in PlanType
         /\ Len(p.waves) \in Nat \ {0}
         /\ ~p.staged => Len(p.waves) = 1
         /\ DOMAIN p.waves = 1 .. Len(p.waves)
         /\ \A w \in DOMAIN p.waves :
              /\ p.waves[w] \in Seq(Lanes)
              /\ \A i \in DOMAIN p.waves[w] : p.waves[w][i] \in Lanes
              /\ Len(p.waves[w]) \in Nat
              /\ DOMAIN p.waves[w] = 1 .. Len(p.waves[w])
         /\ \A w, v \in DOMAIN p.waves :
              \A i \in DOMAIN p.waves[w], j \in DOMAIN p.waves[v] :
                p.waves[w][i] = p.waves[v][j] => w = v
<1>1. WellFormed(p)
  BY PlansAssumption
<1>2. p \in PlanType /\ p.waves \in Seq(Seq(Lanes)) /\ p.waves # <<>>
  BY <1>1 DEF WellFormed, PlanType
<1>3. /\ Len(p.waves) \in Nat \ {0} /\ DOMAIN p.waves = 1 .. Len(p.waves)
      /\ ~p.staged => Len(p.waves) = 1
  BY <1>1, <1>2 DEF WellFormed
<1>4. ASSUME NEW w \in DOMAIN p.waves
      PROVE  /\ p.waves[w] \in Seq(Lanes)
             /\ \A i \in DOMAIN p.waves[w] : p.waves[w][i] \in Lanes
             /\ Len(p.waves[w]) \in Nat
             /\ DOMAIN p.waves[w] = 1 .. Len(p.waves[w])
  BY <1>2, <1>4
<1>5. \A w, v \in DOMAIN p.waves :
        \A i \in DOMAIN p.waves[w], j \in DOMAIN p.waves[v] :
          p.waves[w][i] = p.waves[v][j] => w = v
  BY <1>1 DEF WellFormed
<1> QED BY <1>2, <1>3, <1>4, <1>5

LEMMA WaveShape ==
  ASSUME Where, Active
  PROVE  /\ plan \in Plans /\ wave \in DOMAIN plan.waves
         /\ wave \in 1 .. Len(plan.waves) /\ Len(plan.waves) \in Nat
         /\ Len(Wave) \in Nat
         /\ DOMAIN Wave = 1 .. Len(Wave)
         /\ \A i \in DOMAIN Wave : Wave[i] \in Lanes
BY PlanShape DEF Where, Wave

LEMMA InitHolds == Init => IInv
<1> SUFFICES ASSUME Init PROVE IInv
  OBVIOUS
<1> USE DEF Init
<1>1. PlaceOK
  BY LimitsAssumption DEF PlaceOK
<1>2. LanesOK
  BY LimitsAssumption DEF LanesOK, Fate
<1>3. TreesOK /\ lost \in BOOLEAN
  BY DEF TreesOK, Content
<1>4. ~Active
  BY DEF Active
<1>5. \A l \in Lanes : LaneOK(l)
  BY DEF LaneOK
<1> QED BY <1>1, <1>2, <1>3, <1>4, <1>5 DEF IInv, TypeOK, Where, Ahead

-----------------------------------------------------------------------------
(* Steps that leave the lanes alone.                                       *)

LEMMA SameLanes ==
  ASSUME IInv, UNCHANGED laneVars
  PROVE  LanesOK' /\ \A l \in Lanes : LaneOK(l)'
BY DEF IInv, TypeOK, LanesOK, LaneOK, laneVars

LEMMA SameAhead ==
  ASSUME IInv, Active, UNCHANGED <<stage, plan>>, wave' = wave, pc' # "gating"
  PROVE  Ahead'
BY DEF IInv, Ahead, ToCome, Active

LEMMA OverAhead ==
  ASSUME pc' = "over"
  PROVE  Ahead' /\ Where'
BY DEF Ahead, Where, Active

-----------------------------------------------------------------------------
(* Beginning a call.                                                       *)

LEMMA TreeNames ==
  /\ MergeTree \in Nat \X (Lanes \cup {Merge})
  /\ \A i \in Nat, l \in Lanes : <<i, l>> \in Nat \X (Lanes \cup {Merge})
BY DEF MergeTree

LEMMA BeginStep ==
  ASSUME IInv, NEW p \in Plans, BeginFlat(p) \/ BeginStaged(p)
  PROVE  IInv'
<1> USE DEF Begin
<1>0. Begin(p)
  BY DEF BeginFlat, BeginStaged
<1>1. p \in PlanType /\ 1 \in DOMAIN p.waves
  BY PlanShape
<1>2. /\ pc' \in {"setup", "gating", "over"}
      /\ ended' \in {"none", "taken", "git"}
      /\ worktrees' \in SUBSET (Nat \X (Lanes \cup {Merge}))
      /\ branches' \in SUBSET (Nat \X (Lanes \cup {Merge}))
  <2>1. worktrees \in SUBSET (Nat \X (Lanes \cup {Merge})) /\ branches \in SUBSET (Nat \X (Lanes \cup {Merge}))
    BY DEF IInv, TypeOK, TreesOK
  <2>2. CASE BeginFlat(p)
    BY <2>1, <2>2 DEF BeginFlat, Goto, repoVars
  <2>3. CASE BeginStaged(p)
    BY <2>1, <2>3, TreeNames DEF BeginStaged, AddWorktree, Goto, Ends, Refusal
  <2> QED BY <2>2, <2>3
<1>3. PlaceOK'
  BY <1>0, <1>2, LimitsAssumption DEF PlaceOK, IInv, TypeOK
<1>4. LanesOK'
  BY <1>0, LimitsAssumption DEF LanesOK, Fate
<1>5. TreesOK' /\ lost' \in BOOLEAN
  <2>1. kept' \in SUBSET (Nat \X (Lanes \cup {Merge}))
    BY <1>0 DEF IInv, TypeOK, TreesOK
  <2> QED BY <1>0, <1>2, <2>1 DEF TreesOK, Content
<1>6. Where'
  BY <1>0, <1>1 DEF Where
<1>7. ASSUME NEW l \in Lanes PROVE LaneOK(l)'
  BY <1>0 DEF LaneOK
<1>8. Ahead'
  <2> SUFFICES ASSUME NEW v \in DOMAIN plan'.waves, ToCome(v)',
                      NEW i \in DOMAIN plan'.waves[v]
               PROVE  stage'[plan'.waves[v][i]] = "waiting"
    BY DEF Ahead
  <2>1. p.waves[v][i] \in Lanes
    BY <1>0, PlanShape
  <2>2. CASE p.staged
    BY <1>0, <2>1, <2>2
  <2>3. CASE ~p.staged
    <3>1. pc' = "setup" /\ wave' = 1
      BY <2>3, <1>0 DEF BeginFlat, BeginStaged, Goto
    <3>2. v = 1
      BY <2>3, <1>0, PlanShape
    <3> QED BY <3>1, <3>2 DEF ToCome
  <2> QED BY <2>2, <2>3
<1> QED BY <1>3, <1>4, <1>5, <1>6, <1>7, <1>8 DEF IInv, TypeOK

-----------------------------------------------------------------------------
(* The waves.                                                              *)

LEMMA SubsetCount ==
  ASSUME NEW S \in SUBSET Lanes
  PROVE  Cardinality(S) \in Nat
BY LanesAssumption, FS_Subset, FS_CardinalityType

(* What a step to the next wave, or to the end, changes.                   *)
LEMMA NextWaveFacts ==
  ASSUME IInv, Active, NextWave
  PROVE  /\ pc' \in {"gating", "over"}
         /\ ended' \in {"none", "returned", "taken", "git", "gate", "crash"}
         /\ wave' \in Nat
         /\ pc' = "gating" => wave' = wave + 1 /\ wave' \in DOMAIN plan.waves
         /\ worktrees' \in SUBSET (Nat \X (Lanes \cup {Merge}))
         /\ branches' \in SUBSET (Nat \X (Lanes \cup {Merge}))
         /\ out' \in Content
<1>1. /\ wave \in Nat /\ wave \in 1 .. Len(plan.waves)
      /\ plan \in Plans
      /\ DOMAIN plan.waves = 1 .. Len(plan.waves) /\ Len(plan.waves) \in Nat
  BY WaveShape, PlanShape DEF IInv, TypeOK, PlaceOK
<1>2. /\ worktrees \in SUBSET (Nat \X (Lanes \cup {Merge}))
      /\ branches \in SUBSET (Nat \X (Lanes \cup {Merge}))
      /\ out \in Content /\ tip \in Content
  BY DEF IInv, TypeOK, TreesOK
<1>3. ended \in {"none", "returned", "taken", "git", "gate", "crash"}
  BY DEF IInv, TypeOK, PlaceOK
<1>4. CASE wave < Len(plan.waves)
  BY <1>1, <1>2, <1>3, <1>4 DEF NextWave, Goto, endVars
<1>5. CASE ~(wave < Len(plan.waves))
  BY <1>1, <1>2, <1>5 DEF NextWave, Goto, Ends
<1> QED BY <1>4, <1>5

LEMMA GateStep ==
  ASSUME IInv, GateWave
  PROVE  IInv'
<1> DEFINE skipped == {l \in Lanes : InWave(l) /\ ~ShouldRun(l)}
           chosen  == {l \in Lanes : InWave(l) /\ ShouldRun(l)}
<1>1. /\ pc = "gating" /\ Active
      /\ stage' = [l \in Lanes |-> IF l \in skipped THEN "skipped"
                                   ELSE IF l \in chosen THEN "chosen" ELSE stage[l]]
      /\ index' = index + Cardinality(skipped)
      /\ pre' = tip /\ cursor' = 1
      /\ UNCHANGED <<setups, attempt, edits, mergeVars, callVars>>
      /\ \/ Goto("setup") /\ UNCHANGED <<wave, repoVars, endVars>>
         \/ NextWave
  BY DEF GateWave, Active
<1>2. \A l \in skipped \cup chosen : stage[l] = "waiting"
  <2> SUFFICES ASSUME NEW l \in Lanes, InWave(l) PROVE stage[l] = "waiting"
    OBVIOUS
  <2>1. wave \in DOMAIN plan.waves /\ ToCome(wave)
    BY <1>1 DEF IInv, Where, ToCome
  <2> QED BY <2>1, <1>1 DEF IInv, Ahead, InWave, Wave
<1>3. Cardinality(skipped) \in Nat
  BY SubsetCount
<1> HIDE DEF skipped, chosen
<1>4. /\ pc' \in {"setup", "gating", "over"}
      /\ ended' \in {"none", "returned", "taken", "git", "gate", "crash"}
      /\ wave' \in Nat
      /\ pc' = "setup" => wave' = wave
      /\ pc' = "gating" => wave' = wave + 1 /\ wave' \in DOMAIN plan.waves
      /\ worktrees' \in SUBSET (Nat \X (Lanes \cup {Merge}))
      /\ branches' \in SUBSET (Nat \X (Lanes \cup {Merge}))
      /\ out' \in Content
  <2>1. CASE Goto("setup") /\ UNCHANGED <<wave, repoVars, endVars>>
    BY <2>1 DEF Goto, repoVars, endVars, IInv, TypeOK, PlaceOK, TreesOK
  <2>2. CASE NextWave
    BY <2>2, <1>1, NextWaveFacts
  <2> QED BY <1>1, <2>1, <2>2
<1>5. plan' = plan /\ calls' = calls /\ kept' = kept
  BY <1>1 DEF callVars
<1>6. PlaceOK'
  BY <1>1, <1>3, <1>4, <1>5 DEF IInv, TypeOK, PlaceOK, Active
<1>7. LanesOK'
  BY <1>1 DEF IInv, TypeOK, LanesOK, Fate
<1>8. TreesOK' /\ lost' \in BOOLEAN
  BY <1>1, <1>4, <1>5 DEF IInv, TypeOK, TreesOK, mergeVars
<1>9. ASSUME NEW l \in Lanes PROVE LaneOK(l)'
  <2>1. LaneOK(l)
    BY DEF IInv
  <2> QED BY <1>1, <1>2, <2>1 DEF LaneOK
<1>10. Where'
  BY <1>1, <1>4, <1>5 DEF IInv, Where, Active
<1>11. Ahead'
  <2> SUFFICES ASSUME pc' # "over",
                      NEW v \in DOMAIN plan.waves, ToCome(v)', NEW i \in DOMAIN plan.waves[v]
               PROVE  stage'[plan.waves[v][i]] = "waiting"
    BY <1>5 DEF Ahead, Active
  <2>1. plan \in Plans /\ wave \in DOMAIN plan.waves /\ wave \in Nat /\ v \in Nat
    BY <1>1, PlanShape DEF IInv, Where, TypeOK, PlaceOK
  <2>2. v > wave
    BY <2>1, <1>4 DEF ToCome
  <2>3. plan.waves[v][i] \in Lanes /\ stage[plan.waves[v][i]] = "waiting"
    BY <2>1, <2>2, <1>1, PlanShape DEF IInv, Ahead, ToCome
  <2>4. ~InWave(plan.waves[v][i])
    BY <2>1, <2>2, PlanShape DEF InWave, Wave
  <2>5. plan.waves[v][i] \notin skipped \cup chosen
    BY <2>4 DEF skipped, chosen
  <2> QED BY <1>1, <2>3, <2>5
<1> QED BY <1>6, <1>7, <1>8, <1>9, <1>10, <1>11 DEF IInv, TypeOK

LEMMA SetUpStep ==
  ASSUME IInv, SetUpLane \/ SetUpFails \/ SetUpDone
  PROVE  IInv'
<1>1. pc = "setup" /\ Active /\ plan \in Plans
  BY DEF SetUpLane, SetUpFails, SetUpDone, Active, IInv, Where
<1>2. CASE SetUpLane
  <2> DEFINE l == Wave[cursor]
  <2>1. cursor \in Nat \ {0} /\ cursor' = cursor + 1 /\ index \in Nat
    BY <1>2 DEF SetUpLane, IInv, TypeOK, PlaceOK
  <2>2. l \in Lanes
    BY <1>1, <1>2, <2>1, WaveShape DEF SetUpLane, IInv
  <2>3. UNCHANGED <<pc, wave, pre, attempt, edits, mergeVars, callVars, endVars>>
    BY <1>2 DEF SetUpLane
  <2>4. CASE UNCHANGED <<index, setups, stage, repoVars>>
    <3>1. PlaceOK'
      BY <2>1, <2>3, <2>4, <1>1 DEF IInv, TypeOK, PlaceOK, callVars, endVars, Active
    <3>2. TreesOK' /\ lost' \in BOOLEAN
      BY <2>3, <2>4 DEF IInv, TypeOK, TreesOK, callVars, endVars, mergeVars, repoVars
    <3>3. Where'
      BY <2>3, <1>1 DEF IInv, Where, Active, callVars
    <3>4. LanesOK' /\ \A k \in Lanes : LaneOK(k)'
      BY <2>3, <2>4, SameLanes DEF laneVars
    <3>5. Ahead'
      BY <2>3, <2>4, <1>1, SameAhead DEF callVars
    <3> QED BY <3>1, <3>2, <3>3, <3>4, <3>5 DEF IInv, TypeOK
  <2>5. CASE /\ stage[l] = "chosen"
             /\ AddWorktree(<<index, l>>)
             /\ setups' = setups \cup {<<index, l>>}
             /\ stage' = [stage EXCEPT ![l] = "ready"]
             /\ index' = index + 1
    <3>0. l \in Lanes
      BY <2>2
    <3> HIDE DEF l
    <3>1. PlaceOK'
      BY <2>1, <2>3, <2>5, <1>1 DEF IInv, TypeOK, PlaceOK, callVars, endVars, Active
    <3>2. TreesOK' /\ lost' \in BOOLEAN
      BY <2>1, <2>3, <2>5, <3>0, TreeNames
         DEF IInv, TypeOK, TreesOK, callVars, endVars, mergeVars, AddWorktree
    <3>3. Where'
      BY <2>3, <1>1 DEF IInv, Where, Active, callVars
    <3>4. LanesOK'
      BY <2>3, <2>5, <3>0 DEF IInv, TypeOK, LanesOK, Fate
    <3>5. ASSUME NEW k \in Lanes PROVE LaneOK(k)'
      BY <2>3, <2>5, <3>0 DEF IInv, LaneOK, TypeOK, LanesOK
    <3>6. Ahead'
      BY <2>3, <2>5, <1>1 DEF IInv, Ahead, ToCome, Active, callVars, TypeOK, LanesOK
    <3> QED BY <3>1, <3>2, <3>3, <3>4, <3>5, <3>6 DEF IInv, TypeOK
  <2> QED BY <1>2, <2>4, <2>5 DEF SetUpLane
<1>3. CASE SetUpFails
  <2>1. /\ pc' = "over" /\ ended' \in {"git", "taken"}
        /\ worktrees' \in SUBSET worktrees /\ branches' = branches
        /\ UNCHANGED <<out, laneVars, mergeVars, waveVars, callVars>>
    BY <1>3 DEF SetUpFails, Ends, Goto, Refusal
  <2>2. PlaceOK' /\ TreesOK' /\ lost' \in BOOLEAN
    BY <2>1, <1>1 DEF IInv, TypeOK, PlaceOK, TreesOK, mergeVars, waveVars, callVars
  <2> QED BY <2>1, <2>2, SameLanes, OverAhead DEF IInv, TypeOK
<1>4. CASE SetUpDone
  <2>1. /\ pc' = "running"
        /\ UNCHANGED <<repoVars, laneVars, mergeVars, waveVars, callVars, endVars>>
    BY <1>4 DEF SetUpDone, Goto
  <2>2. PlaceOK' /\ TreesOK' /\ lost' \in BOOLEAN /\ Where'
    BY <2>1, <1>1 DEF IInv, TypeOK, PlaceOK, TreesOK, Where, Active, mergeVars, waveVars,
                      callVars, repoVars, endVars
  <2>3. Ahead'
    BY <2>1, <1>1, SameAhead DEF laneVars, waveVars, callVars
  <2> QED BY <2>1, <2>2, <2>3, SameLanes DEF IInv, TypeOK
<1> QED BY <1>2, <1>3, <1>4

-----------------------------------------------------------------------------
(* The lanes.  A step of lane k that is no longer waiting.                 *)

LEMMA OneLane ==
  ASSUME IInv, Active, NEW k \in Lanes, NEW fate \in Fate, NEW e, NEW n,
         stage[k] # "waiting",
         stage' = [stage EXCEPT ![k] = fate],
         edits' = [edits EXCEPT ![k] = e],
         attempt' = [attempt EXCEPT ![k] = n],
         n \in 1 .. Ceiling + 1,
         e \subseteq {n},
         fate \in {"ran", "failed"}
           \/ (fate = "working" /\ n \in 1 .. Ceiling)
           \/ (fate = "healing" /\ n = Ceiling + 1),
         UNCHANGED <<pc, repoVars, mergeVars, waveVars, callVars, endVars>>
  PROVE  IInv'
<1>1. Ceiling \in Nat \ {0}
  BY LimitsAssumption
<1>2. LanesOK'
  BY <1>1 DEF IInv, TypeOK, LanesOK
<1>3. ASSUME NEW l \in Lanes PROVE LaneOK(l)'
  BY DEF IInv, TypeOK, LanesOK, LaneOK
<1>4. Ahead'
  BY DEF IInv, Ahead, ToCome, Active, waveVars, callVars, TypeOK, LanesOK
<1>5. PlaceOK' /\ TreesOK' /\ lost' \in BOOLEAN /\ Where'
  BY DEF IInv, TypeOK, PlaceOK, TreesOK, Where, Active, mergeVars, waveVars,
         callVars, repoVars, endVars
<1> QED BY <1>2, <1>3, <1>4, <1>5 DEF IInv, TypeOK

(* How a lane may settle.                                                  *)
LEMMA SettleFacts ==
  ASSUME IInv, NEW l \in Lanes, stage[l] \in {"working", "healing"},
         NEW fate \in Fate, Settle(l, fate)
  PROVE  \E e : /\ stage' = [stage EXCEPT ![l] = fate]
                /\ edits' = [edits EXCEPT ![l] = e]
                /\ attempt' = [attempt EXCEPT ![l] = attempt[l]]
                /\ attempt[l] \in 1 .. Ceiling + 1
                /\ e \subseteq {attempt[l]}
<1>1. Ceiling \in Nat \ {0}
  BY LimitsAssumption
<1>2. LaneOK(l) /\ LanesOK
  BY DEF IInv, TypeOK
<1>3. attempt[l] \in 1 .. Ceiling + 1
  BY <1>1, <1>2 DEF LaneOK
<1>4. attempt' = [attempt EXCEPT ![l] = attempt[l]]
  BY <1>2 DEF Settle, LanesOK
<1>5. PICK e \in Wrote(l) : edits' = [edits EXCEPT ![l] = e]
  BY DEF Settle
<1>6. e \subseteq {attempt[l]}
  BY <1>2, <1>5 DEF Wrote, LaneOK
<1> QED BY <1>3, <1>4, <1>5, <1>6 DEF Settle

LEMMA StartStep ==
  ASSUME IInv, StartLane
  PROVE  IInv'
<1>1. pc = "running" /\ Active
  BY DEF StartLane, Active
<1>2. PICK i \in DOMAIN Wave :
        /\ stage[Wave[i]] = "ready"
        /\ stage' = [stage EXCEPT ![Wave[i]] = "working"]
        /\ attempt' = [attempt EXCEPT ![Wave[i]] = 1]
  BY DEF StartLane
<1>3. PICK k \in Lanes : k = Wave[i] /\ stage[k] = "ready"
  BY <1>1, <1>2, WaveShape DEF IInv
<1>4. edits[k] = {}
  BY <1>3 DEF IInv, LaneOK
<1>5. edits' = [edits EXCEPT ![k] = {}]
  BY <1>3, <1>4 DEF StartLane, IInv, TypeOK, LanesOK
<1>6. UNCHANGED <<pc, repoVars, mergeVars, waveVars, callVars, endVars>>
  BY DEF StartLane
<1>7. ASSUME NEW n, n = 1, NEW e, e = {}, NEW fate, fate = "working"
      PROVE  IInv'
  <2>1. /\ n \in 1 .. Ceiling /\ n \in 1 .. Ceiling + 1 /\ e \subseteq {n}
        /\ fate \in Fate
    BY <1>7, LimitsAssumption DEF Fate
  <2>2. /\ stage' = [stage EXCEPT ![k] = fate]
        /\ attempt' = [attempt EXCEPT ![k] = n]
        /\ edits' = [edits EXCEPT ![k] = e]
        /\ stage[k] # "waiting"
    BY <1>2, <1>3, <1>5, <1>7
  <2> QED BY <1>1, <1>6, <1>7, <2>1, <2>2, OneLane
<1> QED BY <1>7

LEMMA SettleStep ==
  ASSUME IInv, Active, NEW l \in Lanes, stage[l] \in {"working", "healing"},
         NEW fate \in {"ran", "failed"}, Settle(l, fate),
         UNCHANGED <<pc, repoVars, mergeVars, waveVars, callVars, endVars>>
  PROVE  IInv'
<1>1. fate \in Fate
  BY DEF Fate
<1>2. PICK e : /\ stage' = [stage EXCEPT ![l] = fate]
               /\ edits' = [edits EXCEPT ![l] = e]
               /\ attempt' = [attempt EXCEPT ![l] = attempt[l]]
               /\ attempt[l] \in 1 .. Ceiling + 1
               /\ e \subseteq {attempt[l]}
  BY <1>1, SettleFacts
<1>3. stage[l] # "waiting"
  OBVIOUS
<1> QED BY <1>1, <1>2, <1>3, OneLane

LEMMA LaneStep ==
  ASSUME IInv, NEW l \in Lanes, Lane(l)
  PROVE  IInv'
<1>1. /\ Active /\ stage[l] \in {"working", "healing"}
      /\ UNCHANGED <<pc, repoVars, mergeVars, waveVars, callVars, endVars>>
  BY DEF Lane, LaneReturns, LaneRejected, HealReturns, Active
<1>2. CASE \E fate \in {"ran", "failed"} : Settle(l, fate)
  BY <1>1, <1>2, SettleStep
<1>3. CASE /\ stage[l] = "working"
           /\ MayRetry(l) \/ Healer
           /\ edits' = [edits EXCEPT ![l] = Pristine(l)]
           /\ stage' = [stage EXCEPT ![l] = IF MayRetry(l) THEN "working" ELSE "healing"]
           /\ attempt' = [attempt EXCEPT ![l] = @ + 1]
  <2>1. /\ Ceiling \in Nat /\ attempt[l] \in 1 .. Ceiling /\ attempt \in [Lanes -> 0 .. Ceiling + 1]
    BY <1>3, LimitsAssumption DEF IInv, LaneOK, TypeOK, LanesOK
  <2>2. attempt' = [attempt EXCEPT ![l] = attempt[l] + 1]
    BY <1>3, <2>1
  <2>3. edits' = [edits EXCEPT ![l] = {}] /\ {} \subseteq {attempt[l] + 1}
    BY <1>3 DEF Pristine
  <2>4. attempt[l] + 1 \in 1 .. Ceiling + 1 /\ stage[l] # "waiting"
    BY <1>3, <2>1
  <2>5. CASE MayRetry(l)
    <3>1. attempt[l] + 1 \in 1 .. Ceiling
      BY <2>1, <2>5 DEF MayRetry
    <3>2. stage' = [stage EXCEPT ![l] = "working"] /\ "working" \in Fate
      BY <1>3, <2>5 DEF Fate
    <3> QED BY <1>1, <2>2, <2>3, <2>4, <3>1, <3>2, OneLane
  <2>6. CASE ~MayRetry(l)
    <3>1. attempt[l] + 1 = Ceiling + 1
      BY <2>1, <2>6 DEF MayRetry
    <3>2. stage' = [stage EXCEPT ![l] = "healing"] /\ "healing" \in Fate
      BY <1>3, <2>6 DEF Fate
    <3> QED BY <1>1, <2>2, <2>3, <2>4, <3>1, <3>2, OneLane
  <2> QED BY <2>5, <2>6
<1> QED BY <1>2, <1>3 DEF Lane, LaneReturns, LaneRejected, HealReturns

LEMMA SettledStep ==
  ASSUME IInv, LanesSettled
  PROVE  IInv'
<1>1. /\ Active /\ cursor' = 1
      /\ UNCHANGED <<out, wave, index, setups, pre, laneVars, mergeVars, callVars>>
  BY DEF LanesSettled, Active
<1>2. /\ pc' \in {"merging", "over"}
      /\ ended' \in {"none", "returned", "taken", "git", "gate", "crash"}
      /\ worktrees' \in SUBSET (Nat \X (Lanes \cup {Merge}))
      /\ branches' \in SUBSET (Nat \X (Lanes \cup {Merge}))
  BY TreeNames DEF LanesSettled, AddWorktree, Ends, Refusal, Goto, repoVars,
                   IInv, TypeOK, TreesOK, PlaceOK
<1>3. PlaceOK' /\ TreesOK' /\ lost' \in BOOLEAN /\ Where'
  BY <1>1, <1>2 DEF IInv, TypeOK, PlaceOK, TreesOK, Where, Active, callVars, mergeVars
<1>4. Ahead'
  BY <1>1, <1>2, SameAhead DEF laneVars, callVars
<1> QED BY <1>1, <1>3, <1>4, SameLanes DEF IInv, TypeOK

-----------------------------------------------------------------------------
(* Fan-in.                                                                 *)

LEMMA MergeStep ==
  ASSUME IInv, MergeLane
  PROVE  IInv'
<1>1. /\ Active /\ pc = "merging" /\ cursor' = cursor + 1
      /\ UNCHANGED <<pc, tip, lost, wave, index, setups, pre, laneVars, repoVars,
                     callVars, endVars>>
  BY DEF MergeLane, Active
<1>2. Wave[cursor] \in Lanes
  <2>1. cursor \in Nat \ {0} /\ cursor <= Len(Wave)
    BY DEF MergeLane, IInv, TypeOK, PlaceOK
  <2> QED BY <1>1, <2>1, WaveShape DEF IInv
<1>3. merging' \in Content /\ conflicts' \subseteq Lanes
  <2>1. merging \in Content /\ conflicts \subseteq Lanes
    BY DEF IInv, TypeOK, TreesOK
  <2>2. \/ merging' = merging
        \/ merging' = merging \cup {<<Wave[cursor], "work">>}
        \/ merging' = merging \cup {<<Wave[cursor], "marks">>}
    BY DEF MergeLane
  <2>3. conflicts' \in {conflicts, conflicts \cup {Wave[cursor]}}
    BY DEF MergeLane
  <2>4. merging' \in Content
    BY <1>2, <2>1, <2>2 DEF Content
  <2> QED BY <1>2, <2>1, <2>3, <2>4
<1>4. PlaceOK'
  BY <1>1 DEF IInv, TypeOK, PlaceOK, callVars, endVars
<1>5. TreesOK' /\ lost' \in BOOLEAN
  BY <1>1, <1>3 DEF IInv, TypeOK, TreesOK, callVars, endVars, repoVars
<1>6. Where' /\ Ahead'
  BY <1>1, SameAhead DEF IInv, Where, Active, laneVars, callVars
<1> QED BY <1>1, <1>4, <1>5, <1>6, SameLanes DEF IInv, TypeOK

LEMMA CommitStep ==
  ASSUME IInv, CommitWave
  PROVE  IInv'
<1>1. /\ Active /\ pc' \in {"verifying", "closing"}
      /\ tip' \in {tip, merging} /\ lost' \in BOOLEAN
      /\ UNCHANGED <<merging, conflicts, laneVars, waveVars, repoVars, callVars, endVars>>
  BY DEF CommitWave, Active, Goto, IInv, TypeOK
<1>2. PlaceOK' /\ TreesOK'
  BY <1>1 DEF IInv, TypeOK, PlaceOK, TreesOK, waveVars, repoVars, callVars, endVars, Active
<1>3. Where' /\ Ahead'
  BY <1>1, SameAhead DEF IInv, Where, Active, laneVars, callVars, waveVars
<1> QED BY <1>1, <1>2, <1>3, SameLanes DEF IInv, TypeOK

(* Undoing a wave only turns lanes that ran into failed ones.              *)
LEMMA RelabelFacts ==
  ASSUME IInv, stage' = [l \in Lanes |-> Relabel(l)], UNCHANGED <<attempt, edits>>,
         UNCHANGED <<plan, wave>>, Active, pc' # "gating"
  PROVE  LanesOK' /\ (\A l \in Lanes : LaneOK(l)') /\ Ahead'
<1>1. ASSUME NEW l \in Lanes
      PROVE  /\ stage'[l] \in Fate
             /\ stage'[l] \in {stage[l], "failed"}
             /\ stage[l] # "ran" => stage'[l] = stage[l]
  BY <1>1 DEF Relabel, Contributes, IInv, TypeOK, LanesOK, Fate
<1>2. LanesOK'
  BY <1>1 DEF IInv, TypeOK, LanesOK
<1>3. ASSUME NEW l \in Lanes PROVE LaneOK(l)'
  BY <1>1, <1>3 DEF IInv, LaneOK
<1>4. Ahead'
  <2> SUFFICES ASSUME NEW v \in DOMAIN plan.waves, ToCome(v)', NEW i \in DOMAIN plan.waves[v]
               PROVE  stage'[plan.waves[v][i]] = "waiting"
    BY DEF Ahead
  <2>1. plan.waves[v][i] \in Lanes
    BY PlanShape DEF IInv, Where
  <2>2. stage[plan.waves[v][i]] = "waiting"
    BY DEF IInv, Ahead, ToCome
  <2> QED BY <1>1, <2>1, <2>2
<1> QED BY <1>2, <1>3, <1>4

LEMMA VerifyStep ==
  ASSUME IInv, VerifyPasses \/ VerifyFails
  PROVE  IInv'
<1>1. /\ Active /\ pc' = "closing" /\ merging' \in {merging, pre} /\ tip' \in {tip, pre}
      /\ UNCHANGED <<conflicts, lost, attempt, edits, waveVars, repoVars, callVars, endVars>>
  BY DEF VerifyPasses, VerifyFails, Active, Goto, mergeVars, laneVars
<1>2. PlaceOK' /\ TreesOK' /\ lost' \in BOOLEAN /\ Where'
  BY <1>1 DEF IInv, TypeOK, PlaceOK, TreesOK, Where, waveVars, repoVars, callVars, endVars,
              Active
<1>3. LanesOK' /\ (\A l \in Lanes : LaneOK(l)') /\ Ahead'
  <2>1. CASE VerifyPasses
    BY <1>1, <2>1, SameLanes, SameAhead DEF VerifyPasses, laneVars, waveVars, callVars
  <2>2. CASE VerifyFails
    <3>1. stage' = [l \in Lanes |-> Relabel(l)] /\ UNCHANGED <<plan, wave>>
      BY <2>2 DEF VerifyFails, waveVars, callVars
    <3> QED BY <1>1, <3>1, RelabelFacts
  <2> QED BY <2>1, <2>2
<1> QED BY <1>2, <1>3 DEF IInv, TypeOK

(* Steps that end the call.                                                *)
LEMMA EndStep ==
  ASSUME IInv, ReturnFlat \/ VerifyThrows \/ Crash
  PROVE  IInv'
<1>1. /\ Active /\ pc' = "over" /\ ended' \in {"returned", "gate", "crash"}
      /\ worktrees' \in SUBSET worktrees /\ branches' = branches
      /\ out' \in {out, merging}
      /\ UNCHANGED <<laneVars, mergeVars, waveVars, callVars>>
  BY DEF ReturnFlat, VerifyThrows, Crash, Active, Ends, Goto
<1>2. PlaceOK' /\ TreesOK' /\ lost' \in BOOLEAN
  BY <1>1 DEF IInv, TypeOK, PlaceOK, TreesOK, mergeVars, waveVars, callVars, Active
<1> QED BY <1>1, <1>2, SameLanes, OverAhead DEF IInv, TypeOK

LEMMA CloseStep ==
  ASSUME IInv, CloseWave
  PROVE  IInv'
<1>1. /\ pc = "closing" /\ Active /\ NextWave /\ setups' = {}
      /\ UNCHANGED <<cursor, index, pre, laneVars, mergeVars, callVars>>
  BY DEF CloseWave, Active
<1>2. /\ pc' \in {"gating", "over"}
      /\ ended' \in {"none", "returned", "taken", "git", "gate", "crash"}
      /\ wave' \in Nat
      /\ pc' = "gating" => wave' = wave + 1 /\ wave' \in DOMAIN plan.waves
      /\ worktrees' \in SUBSET (Nat \X (Lanes \cup {Merge}))
      /\ branches' \in SUBSET (Nat \X (Lanes \cup {Merge}))
      /\ out' \in Content
  BY <1>1, NextWaveFacts
<1>3. PlaceOK' /\ TreesOK' /\ lost' \in BOOLEAN /\ Where'
  BY <1>1, <1>2 DEF IInv, TypeOK, PlaceOK, TreesOK, Where, mergeVars, callVars, Active
<1>4. Ahead'
  <2> SUFFICES ASSUME pc' # "over",
                      NEW v \in DOMAIN plan.waves, ToCome(v)', NEW i \in DOMAIN plan.waves[v]
               PROVE  stage[plan.waves[v][i]] = "waiting"
    BY <1>1 DEF Ahead, Active, callVars, laneVars
  <2>1. plan \in Plans /\ wave \in Nat /\ v \in Nat
    BY <1>1, PlanShape DEF IInv, Where, TypeOK, PlaceOK
  <2>2. v > wave
    BY <2>1, <1>2 DEF ToCome
  <2> QED BY <2>1, <2>2, <1>1 DEF IInv, Ahead, ToCome
<1> QED BY <1>1, <1>3, <1>4, SameLanes DEF IInv, TypeOK

LEMMA CleanUpStep ==
  ASSUME IInv, CleanUp
  PROVE  IInv'
<1>1. /\ ~Active /\ worktrees' = {} /\ branches' = {}
      /\ UNCHANGED <<pc, laneVars, mergeVars, waveVars, callVars, endVars>>
  BY DEF CleanUp
<1>2. PlaceOK' /\ TreesOK' /\ lost' \in BOOLEAN
  BY <1>1 DEF IInv, TypeOK, PlaceOK, TreesOK, mergeVars, waveVars, callVars, endVars
<1>3. ~Active'
  BY <1>1 DEF Active
<1> QED BY <1>1, <1>2, <1>3, SameLanes DEF IInv, TypeOK, Where, Ahead

-----------------------------------------------------------------------------

LEMMA StutterStep ==
  ASSUME IInv, UNCHANGED vars
  PROVE  IInv'
<1>1. PlaceOK' /\ TreesOK' /\ lost' \in BOOLEAN /\ Where' /\ Ahead'
  BY DEF vars, repoVars, laneVars, mergeVars, waveVars, callVars, endVars, IInv, TypeOK,
         PlaceOK, TreesOK, Where, Ahead, ToCome, Active
<1> QED BY <1>1, SameLanes DEF vars, IInv, TypeOK

LEMMA StepPreserves == IInv /\ [Next]_vars => IInv'
<1> SUFFICES ASSUME IInv, [Next]_vars PROVE IInv'
  OBVIOUS
<1>1. CASE \E p \in Plans : BeginFlat(p) \/ BeginStaged(p)
  BY <1>1, BeginStep
<1>2. CASE Step
  <2>1. CASE GateWave
    BY <2>1, GateStep
  <2>2. CASE SetUpLane \/ SetUpFails \/ SetUpDone
    BY <2>2, SetUpStep
  <2>3. CASE StartLane
    BY <2>3, StartStep
  <2>4. CASE \E l \in Lanes : Lane(l)
    BY <2>4, LaneStep
  <2>5. CASE LanesSettled
    BY <2>5, SettledStep
  <2>6. CASE MergeLane
    BY <2>6, MergeStep
  <2>7. CASE CommitWave
    BY <2>7, CommitStep
  <2>8. CASE VerifyPasses \/ VerifyFails
    BY <2>8, VerifyStep
  <2>9. CASE ReturnFlat \/ VerifyThrows
    BY <2>9, EndStep
  <2>10. CASE CloseWave
    BY <2>10, CloseStep
  <2> QED BY <1>2, <2>1, <2>2, <2>3, <2>4, <2>5, <2>6, <2>7, <2>8, <2>9, <2>10 DEF Step
<1>3. CASE Crash
  BY <1>3, EndStep
<1>4. CASE CleanUp
  BY <1>4, CleanUpStep
<1>5. CASE UNCHANGED vars
  BY <1>5, StutterStep
<1> QED BY <1>1, <1>2, <1>3, <1>4, <1>5 DEF Next

LEMMA Inductive == Spec => []IInv
<1> QED BY InitHolds, StepPreserves, PTL DEF Spec

(* Type correctness: whatever fails, and however calls and crashes follow  *)
(* one another, no lane is attempted more than maxAttempts times and       *)
(* healed once (runOneLane), and only lanes of the call are reported.      *)
THEOREM SwarmTypes == Spec => []TypeOK
<1>1. IInv => TypeOK
  BY DEF IInv
<1> QED BY <1>1, Inductive, PTL

(* The diff captured of a lane (captureLane) never holds the edits of an   *)
(* attempt that was thrown away: it is the last attempt's, or the heal's.  *)
THEOREM LastAttemptOnly == Spec => []DiffIsLastAttempts
<1>1. IInv => DiffIsLastAttempts
  BY DEF IInv, LaneOK, DiffIsLastAttempts
<1> QED BY <1>1, Inductive, PTL

-----------------------------------------------------------------------------
(* The merged work, the conditions and the worktrees.                      *)

(* Lanes in hand are of the current wave, which is then set up or running. *)
Unsettled == {"chosen", "ready", "working", "healing"}
Busy ==
    Active => \A l \in Lanes :
        stage[l] \in Unsettled => InWave(l) /\ pc \in {"setup", "running"}

(* Lanes of the wave that the fan-in has yet to come to.                   *)
Open(l) ==
    \/ pc \in {"gating", "setup", "running"} /\ InWave(l)
    \/ pc = "merging" /\ \E i \in DOMAIN Wave : i >= cursor /\ Wave[i] = l

(* Contents hold the work of merged lanes alone, the wave's base and, up   *)
(* to the commit, the tip none of the wave's own.                          *)
Sound ==
    /\ WorkIn(merging) \subseteq Merged
    /\ WorkIn(tip) \subseteq Merged
    /\ WorkIn(pre) \subseteq Merged
    /\ pc # "gating" => \A l \in WorkIn(pre) : ~InWave(l)
    /\ pc \in {"gating", "setup", "running", "merging"} =>
          \A l \in WorkIn(tip) : ~InWave(l)
    /\ \A l \in Lanes : Open(l) => l \notin WorkIn(merging) /\ l \notin conflicts
    /\ \A l \in conflicts : stage[l] # "waiting"

(* Unless a commit failed, they hold all of it.                            *)
Complete ==
    /\ WorkIn(merging) = {l \in Merged : ~Open(l)}
    /\ pc \in {"gating", "verifying", "closing"} => merging = tip
    /\ pc # "gating" => WorkIn(pre) = {l \in Merged : ~InWave(l)}

(* A lane that is past waiting is of a wave that was reached.              *)
Reached(l) ==
    \E v \in DOMAIN plan.waves : v <= wave /\ \E i \in DOMAIN plan.waves[v] :
        plan.waves[v][i] = l

Contents ==
    /\ Active => Sound /\ (~lost => Complete) /\ ended = "none"
    /\ MergedIsComplete

(* A conditional lane ran only if its condition holds of the results its   *)
(* dependencies ended with, waves undone by the gate included.             *)
ConditionsHold ==
    \A l \in Lanes :
        plan.staged /\ stage[l] \notin {"waiting", "skipped"} /\ Active =>
            CASE When[l] = "always" -> TRUE
              [] When[l] = "on_success" -> \A d \in Known(l) : stage[d] = "ran"
              [] When[l] = "on_failure" -> \E d \in Known(l) : stage[d] # "ran"

Judged ==
    /\ Active => \A l \in Lanes : stage[l] # "waiting" => Reached(l)
    /\ ConditionsHold

Trees ==
    /\ Active => worktrees \subseteq kept \cup setups \cup {MergeTree}
    /\ TornDown

(* What the lanes' steps leave alone: whatever is outside their wave.      *)
LEMMA LaneShape ==
  ASSUME IInv, Busy,
         SetUpLane \/ SetUpDone \/ StartLane \/ \E l \in Lanes : Lane(l)
  PROVE  /\ pc \in {"setup", "running"} /\ pc' \in {"setup", "running"}
         /\ UNCHANGED <<wave, pre, mergeVars, callVars, endVars>>
         /\ \A l \in Lanes : InWave(l)' <=> InWave(l)
         /\ \A l \in Lanes : ~InWave(l) => stage'[l] = stage[l] /\ edits'[l] = edits[l]
         /\ \A l \in Lanes :
               stage[l] \in {"waiting", "skipped"} => stage'[l] = stage[l]
         /\ \A l \in Lanes : stage'[l] # stage[l] => stage[l] \in Unsettled
         /\ worktrees' \subseteq worktrees \cup setups'
         /\ setups \subseteq setups'
<1>1. LanesOK
  BY DEF IInv, TypeOK
<1>2. CASE SetUpLane
  <2> DEFINE k == Wave[cursor]
  <2>1. /\ pc = "setup" /\ Active
        /\ UNCHANGED <<pc, wave, pre, edits, mergeVars, callVars, endVars>>
    BY <1>2 DEF SetUpLane, Active
  <2>2. InWave(k) /\ k \in Lanes
    <3>1. cursor \in DOMAIN Wave
      BY <1>2, <2>1, WaveShape DEF SetUpLane, IInv, TypeOK, PlaceOK
    <3> QED BY <3>1, <2>1, WaveShape DEF InWave, IInv
  <2>3. \/ UNCHANGED <<setups, stage, worktrees>>
        \/ /\ stage[k] = "chosen" /\ stage' = [stage EXCEPT ![k] = "ready"]
           /\ setups' = setups \cup {<<index, k>>}
           /\ worktrees' = worktrees \cup {<<index, k>>}
    BY <1>2 DEF SetUpLane, AddWorktree, repoVars
  <2> HIDE DEF k
  <2>4. \A l \in Lanes : l # k => stage'[l] = stage[l]
    BY <1>1, <2>2, <2>3 DEF LanesOK
  <2>5. stage'[k] = stage[k] \/ stage[k] = "chosen"
    BY <1>1, <2>2, <2>3 DEF LanesOK
  <2>6. \A l \in Lanes : InWave(l)' <=> InWave(l)
    BY <2>1 DEF InWave, Wave, callVars
  <2> QED BY <2>1, <2>2, <2>3, <2>4, <2>5, <2>6 DEF Unsettled
<1>3. CASE SetUpDone
  BY <1>3 DEF SetUpDone, Goto, InWave, Wave, callVars, waveVars, laneVars, repoVars
<1>4. CASE StartLane
  <2>1. /\ pc = "running" /\ Active
        /\ UNCHANGED <<pc, edits, repoVars, mergeVars, waveVars, callVars, endVars>>
    BY <1>4 DEF StartLane, Active
  <2>2. PICK k \in Lanes : /\ InWave(k) /\ stage[k] = "ready"
                           /\ stage' = [stage EXCEPT ![k] = "working"]
    BY <1>4, <2>1, WaveShape DEF StartLane, InWave, IInv
  <2>3. \A l \in Lanes : InWave(l)' <=> InWave(l)
    BY <2>1 DEF InWave, Wave, callVars, waveVars
  <2> QED BY <1>1, <2>1, <2>2, <2>3 DEF LanesOK, Unsettled, repoVars, waveVars
<1>5. CASE \E l \in Lanes : Lane(l)
  <2>1. PICK k \in Lanes : Lane(k)
    BY <1>5
  <2>2. /\ pc = "running" /\ Active /\ stage[k] \in {"working", "healing"}
        /\ UNCHANGED <<pc, repoVars, mergeVars, waveVars, callVars, endVars>>
    BY <2>1 DEF Lane, LaneReturns, LaneRejected, HealReturns, Active
  <2>3. InWave(k)
    BY <2>2 DEF Busy, Unsettled
  <2>4. \A l \in Lanes \ {k} : stage'[l] = stage[l] /\ edits'[l] = edits[l]
    BY <1>1, <2>1 DEF Lane, LaneReturns, LaneRejected, HealReturns, Settle, LanesOK
  <2>5. \A l \in Lanes : InWave(l)' <=> InWave(l)
    BY <2>2 DEF InWave, Wave, callVars, waveVars
  <2> QED BY <2>2, <2>3, <2>4, <2>5 DEF Unsettled, repoVars, waveVars
<1> QED BY <1>2, <1>3, <1>4, <1>5

LEMMA LaneContents ==
  ASSUME IInv, Busy, Contents,
         SetUpLane \/ SetUpDone \/ StartLane \/ \E l \in Lanes : Lane(l)
  PROVE  Contents'
<1>1. /\ pc \in {"setup", "running"} /\ pc' \in {"setup", "running"}
      /\ UNCHANGED <<wave, pre, merging, tip, conflicts, lost, plan, ended, out>>
      /\ \A l \in Lanes : InWave(l)' <=> InWave(l)
      /\ \A l \in Lanes : ~InWave(l) => stage'[l] = stage[l] /\ edits'[l] = edits[l]
  BY LaneShape DEF mergeVars, callVars, endVars
<1>2. Active /\ Sound /\ (~lost => Complete) /\ ended = "none"
  BY <1>1 DEF Contents, Active
<1>3. \A l \in Lanes : ~InWave(l) => (l \in Merged' <=> l \in Merged)
  BY <1>1 DEF Merged, Contributes
<1>4. /\ WorkIn(merging)' = WorkIn(merging) /\ WorkIn(tip)' = WorkIn(tip)
      /\ WorkIn(pre)' = WorkIn(pre)
  BY <1>1 DEF WorkIn
<1>5. \A l \in Lanes : (Open(l)' <=> InWave(l)) /\ (Open(l) <=> InWave(l))
  BY <1>1 DEF Open
<1>6. Merged \subseteq Lanes /\ Merged' \subseteq Lanes /\ conflicts \subseteq Lanes
  BY DEF Merged, IInv, TypeOK, TreesOK
<1>7. /\ \A l \in WorkIn(merging) : l \in Lanes /\ ~InWave(l)
      /\ \A l \in WorkIn(tip) : l \in Lanes /\ ~InWave(l)
      /\ \A l \in WorkIn(pre) : l \in Lanes /\ ~InWave(l)
      /\ \A l \in conflicts : ~InWave(l)
  BY <1>1, <1>2, <1>5, <1>6 DEF Sound, WorkIn
<1>8. Sound'
  BY <1>1, <1>2, <1>3, <1>4, <1>5, <1>6, <1>7 DEF Sound
<1>9. ~lost' => Complete'
  <2> SUFFICES ASSUME ~lost PROVE Complete'
    BY <1>1
  <2>1. {l \in Merged' : ~InWave(l)'} = {l \in Merged : ~InWave(l)}
    BY <1>1, <1>3, <1>6
  <2>2. /\ {l \in Merged' : ~Open(l)'} = {l \in Merged' : ~InWave(l)'}
        /\ {l \in Merged : ~Open(l)} = {l \in Merged : ~InWave(l)}
    BY <1>1, <1>5, <1>6
  <2> QED BY <1>1, <1>2, <1>4, <2>1, <2>2 DEF Complete
<1>10. ended' # "returned"
  BY <1>1, <1>2
<1> QED BY <1>1, <1>2, <1>8, <1>9, <1>10 DEF Contents, MergedIsComplete

(* The wave's lanes were untouched when it is gated, and no lane that was  *)
(* touched changes.                                                        *)
LEMMA GateShape ==
  ASSUME IInv, GateWave
  PROVE  /\ pc = "gating" /\ Active
         /\ \A l \in Lanes : InWave(l) => stage[l] = "waiting"
         /\ \A l \in Lanes :
               InWave(l) => stage'[l] = (IF ShouldRun(l) THEN "chosen" ELSE "skipped")
         /\ \A l \in Lanes : ~InWave(l) => stage'[l] = stage[l]
         /\ pre' = tip /\ UNCHANGED <<edits, mergeVars, callVars>>
         /\ \/ pc' = "setup" /\ UNCHANGED <<wave, endVars, worktrees>>
            \/ NextWave /\ \A l \in Lanes : stage'[l] # "chosen" \/ stage[l] = "chosen"
<1> DEFINE skipped == {l \in Lanes : InWave(l) /\ ~ShouldRun(l)}
           chosen  == {l \in Lanes : InWave(l) /\ ShouldRun(l)}
<1>1. /\ pc = "gating" /\ Active
      /\ stage' = [l \in Lanes |-> IF l \in skipped THEN "skipped"
                                   ELSE IF l \in chosen THEN "chosen" ELSE stage[l]]
      /\ pre' = tip /\ UNCHANGED <<edits, mergeVars, callVars>>
      /\ \/ pc' = "setup" /\ UNCHANGED <<wave, endVars, worktrees>>
         \/ NextWave /\ chosen = {}
  BY DEF GateWave, Active, Goto, repoVars
<1>2. ASSUME NEW l \in Lanes, InWave(l) PROVE stage[l] = "waiting"
  <2>1. wave \in DOMAIN plan.waves /\ ToCome(wave)
    BY <1>1 DEF IInv, Where, ToCome
  <2> QED BY <2>1, <1>1, <1>2 DEF IInv, Ahead, InWave, Wave
<1>3. \A l \in Lanes :
         /\ l \in skipped <=> InWave(l) /\ ~ShouldRun(l)
         /\ l \in chosen <=> InWave(l) /\ ShouldRun(l)
  OBVIOUS
<1> HIDE DEF skipped, chosen
<1> QED BY <1>1, <1>2, <1>3

LEMMA BusyStep == IInv /\ Busy /\ [Next]_vars => Busy'
<1> SUFFICES ASSUME IInv, Busy, [Next]_vars PROVE Busy'
  OBVIOUS
<1>1. CASE pc' \in {"idle", "over"}
  BY <1>1 DEF Busy, Active
<1>2. ASSUME NEW p \in Plans, BeginFlat(p) \/ BeginStaged(p) PROVE Busy'
  <2>1. Begin(p)
    BY <1>2 DEF BeginFlat, BeginStaged
  <2>2. SUFFICES ASSUME NEW l \in Lanes, stage'[l] \in Unsettled, Active'
                 PROVE  InWave(l)' /\ pc' \in {"setup", "running"}
    BY DEF Busy
  <2>3. ~p.staged /\ l \in Planned(p) /\ plan' = p /\ wave' = 1
    BY <2>1, <2>2 DEF Begin, Unsettled
  <2>4. pc' = "setup"
    BY <1>2, <2>3 DEF BeginFlat, BeginStaged, Goto
  <2>5. PICK w \in DOMAIN p.waves : \E i \in DOMAIN p.waves[w] : p.waves[w][i] = l
    BY <2>3 DEF Planned
  <2>6. w = 1
    BY <2>3, <2>5, PlanShape
  <2> QED BY <2>3, <2>4, <2>5, <2>6 DEF InWave, Wave
<1>3. CASE GateWave
  <2> SUFFICES ASSUME NEW l \in Lanes, stage'[l] \in Unsettled
               PROVE  InWave(l)' /\ pc' \in {"setup", "running"}
    BY DEF Busy
  <2>1. stage[l] \notin Unsettled
    BY <1>3, GateShape DEF Busy
  <2>2. InWave(l) /\ stage'[l] = "chosen" /\ stage[l] # "chosen"
    BY <1>3, <2>1, GateShape DEF Unsettled
  <2>3. pc' = "setup" /\ UNCHANGED <<wave, plan>>
    BY <1>3, <2>2, GateShape DEF callVars
  <2> QED BY <2>2, <2>3 DEF InWave, Wave
<1>4. CASE SetUpLane \/ SetUpDone \/ StartLane \/ \E l \in Lanes : Lane(l)
  <2>1. /\ pc \in {"setup", "running"} /\ pc' \in {"setup", "running"}
        /\ \A l \in Lanes : InWave(l)' <=> InWave(l)
        /\ \A l \in Lanes : stage'[l] # stage[l] => stage[l] \in Unsettled
    BY <1>4, LaneShape
  <2> QED BY <2>1 DEF Busy, Active
<1>5. CASE LanesSettled
  <2>1. /\ pc = "running" /\ stage' = stage
        /\ \A i \in DOMAIN Wave : stage[Wave[i]] \in {"ran", "failed", "skipped"}
    BY <1>5 DEF LanesSettled, laneVars
  <2>2. \A l \in Lanes : stage[l] \notin Unsettled
    BY <2>1 DEF Busy, Active, InWave, Unsettled
  <2> QED BY <2>1, <2>2 DEF Busy
<1>6. CASE MergeLane \/ CommitWave \/ VerifyPasses \/ CloseWave
  <2>1. pc \in {"merging", "verifying", "closing"} /\ stage' = stage
    BY <1>6 DEF MergeLane, CommitWave, VerifyPasses, CloseWave, laneVars
  <2> QED BY <2>1 DEF Busy, Active
<1>7. CASE VerifyFails
  <2>1. pc = "verifying" /\ stage' = [l \in Lanes |-> Relabel(l)]
    BY <1>7 DEF VerifyFails
  <2>2. \A l \in Lanes : stage'[l] \in {stage[l], "failed"}
    BY <2>1 DEF Relabel
  <2> QED BY <2>1, <2>2 DEF Busy, Active, Unsettled
<1>8. CASE SetUpFails \/ ReturnFlat \/ VerifyThrows \/ Crash
  BY <1>8, <1>1 DEF SetUpFails, ReturnFlat, VerifyThrows, Crash, Ends, Goto
<1>9. CASE CleanUp \/ UNCHANGED vars
  BY <1>9 DEF CleanUp, vars, Busy, Active, InWave, Wave, laneVars, waveVars, callVars
<1> QED BY <1>2, <1>3, <1>4, <1>5, <1>6, <1>7, <1>8, <1>9 DEF Next, Step

(* To the next wave, or the end of a staged call.                          *)
LEMMA NextContents ==
  ASSUME IInv, IInv', Active, NextWave, UNCHANGED <<mergeVars, plan>>,
         ended = "none",
         WorkIn(merging) \subseteq Merged', WorkIn(tip) \subseteq Merged',
         WorkIn(pre)' \subseteq Merged',
         \A l \in conflicts : stage'[l] # "waiting",
         ~lost => merging = tip /\ WorkIn(tip) = Merged'
  PROVE  Contents'
<1>1. UNCHANGED <<merging, tip, conflicts, lost>>
  BY DEF mergeVars
<1>2. WorkIn(merging)' = WorkIn(merging) /\ WorkIn(tip)' = WorkIn(tip)
  BY <1>1 DEF WorkIn
<1>3. CASE pc' = "gating" /\ ended' = ended
  <2>1. \A l \in Lanes : InWave(l)' => stage'[l] = "waiting"
    <3>1. PICK w \in DOMAIN plan'.waves : w = wave' /\ ToCome(w)' /\ Active'
      BY <1>3 DEF IInv, Where, ToCome, Active
    <3> QED BY <3>1 DEF IInv, Ahead, InWave, Wave
  <2>2. \A l \in Lanes : Open(l)' <=> InWave(l)'
    BY <1>3 DEF Open
  <2>3. \A l \in Merged' : l \in Lanes /\ ~InWave(l)' /\ ~Open(l)'
    BY <2>1, <2>2 DEF Merged, Contributes
  <2>4. Sound'
    BY <1>1, <1>2, <1>3, <2>1, <2>2, <2>3 DEF Sound
  <2>5. ~lost' => Complete'
    BY <1>1, <1>2, <1>3, <2>3 DEF Complete
  <2> QED BY <1>3, <2>4, <2>5 DEF Contents, MergedIsComplete
<1>4. CASE pc' = "over" /\ out' = tip
  <2>1. WorkIn(out)' = WorkIn(tip)
    BY <1>4 DEF WorkIn
  <2>2. MergedIsComplete'
    BY <1>1, <2>1 DEF MergedIsComplete
  <2> QED BY <1>4, <2>2 DEF Contents, Active
<1> QED BY <1>3, <1>4 DEF NextWave, Goto, Ends, endVars

LEMMA GateContents ==
  ASSUME IInv, IInv', Contents, GateWave
  PROVE  Contents'
<1>1. /\ pc = "gating" /\ Active /\ pre' = tip
      /\ UNCHANGED <<edits, merging, tip, conflicts, lost, plan>>
      /\ \A l \in Lanes : InWave(l) => stage[l] = "waiting"
      /\ \A l \in Lanes : InWave(l) => stage'[l] \in {"chosen", "skipped"}
      /\ \A l \in Lanes : ~InWave(l) => stage'[l] = stage[l]
  BY GateShape DEF mergeVars, callVars
<1>2. Sound /\ (~lost => Complete) /\ ended = "none"
  BY <1>1 DEF Contents
<1>3. Merged' = Merged
  <2>1. \A l \in Lanes : Contributes(l)' <=> Contributes(l)
    BY <1>1 DEF Contributes
  <2> QED BY <1>1, <2>1 DEF Merged
<1>4. \A l \in Merged : l \in Lanes /\ ~InWave(l)
  BY <1>1 DEF Merged, Contributes
<1>5. /\ WorkIn(merging)' = WorkIn(merging) /\ WorkIn(tip)' = WorkIn(tip)
      /\ WorkIn(pre)' = WorkIn(tip)
  BY <1>1 DEF WorkIn
<1>6. conflicts \subseteq Lanes
  BY DEF IInv, TypeOK, TreesOK
<1>7. \A l \in conflicts : ~InWave(l) /\ stage'[l] # "waiting"
  BY <1>1, <1>2, <1>6 DEF Sound
<1>8. \A l \in Lanes : Open(l) <=> InWave(l)
  BY <1>1 DEF Open
<1>9. ~lost => merging = tip /\ WorkIn(tip) = Merged
  BY <1>1, <1>2, <1>4, <1>8 DEF Complete
<1>10. CASE NextWave
  BY <1>1, <1>2, <1>3, <1>5, <1>7, <1>9, <1>10, NextContents DEF Sound, mergeVars
<1>11. CASE pc' = "setup" /\ UNCHANGED <<wave, endVars>>
  <2>1. \A l \in Lanes : (InWave(l)' <=> InWave(l)) /\ (Open(l)' <=> InWave(l))
    BY <1>1, <1>11 DEF Open, InWave, Wave
  <2>2. Sound'
    BY <1>1, <1>2, <1>3, <1>4, <1>5, <1>7, <1>11, <2>1 DEF Sound
  <2>3. ~lost' => Complete'
    <3>1. Merged = {l \in Merged : ~Open(l)'} /\ Merged = {l \in Merged : ~InWave(l)'}
      BY <1>4, <2>1
    <3> QED BY <1>1, <1>3, <1>5, <1>9, <1>11, <3>1 DEF Complete
  <2>4. ended' = "none"
    BY <1>2, <1>11 DEF endVars
  <2> QED BY <2>2, <2>3, <2>4 DEF Contents, MergedIsComplete
<1> QED BY <1>10, <1>11, GateShape

LEMMA WavePositions ==
  ASSUME Where, Active
  PROVE  \A i, j \in DOMAIN Wave : Wave[i] = Wave[j] => i = j
BY PlansAssumption DEF Where, Wave, WellFormed

LEMMA MergeContents ==
  ASSUME IInv, Contents, MergeLane
  PROVE  Contents'
<1>1. /\ pc = "merging" /\ Active /\ cursor' = cursor + 1 /\ cursor <= Len(Wave)
      /\ UNCHANGED <<pc, tip, lost, wave, pre, stage, edits, plan, ended>>
  BY DEF MergeLane, Active, laneVars, callVars, endVars
<1>p. cursor \in DOMAIN Wave /\ DOMAIN Wave \subseteq Nat /\ Wave[cursor] \in Lanes
  BY <1>1, WaveShape DEF IInv, TypeOK, PlaceOK
<1>2. PICK k \in Lanes : k = Wave[cursor]
  BY <1>p
<1>3. Sound /\ (~lost => Complete) /\ ended = "none"
  BY <1>1 DEF Contents
<1>4. /\ InWave(k) /\ Open(k)
      /\ \A l \in Lanes : InWave(l)' <=> InWave(l)
      /\ \A l \in Lanes : Contributes(l)' <=> Contributes(l)
  BY <1>1, <1>p, <1>2 DEF InWave, Open, Wave, Contributes
<1>5. ~Open(k)'
  <2>1. \A i \in DOMAIN Wave : Wave[i] = k => i = cursor
    BY <1>1, <1>p, <1>2, WavePositions DEF IInv
  <2>2. Wave' = Wave
    BY <1>1 DEF Wave
  <2>3. \A i \in DOMAIN Wave : Wave[i] = k => ~(i >= cursor')
    BY <1>1, <1>p, <2>1
  <2> QED BY <1>1, <2>2, <2>3 DEF Open
<1>6. \A l \in Lanes : l # k => (Open(l)' <=> Open(l))
  <2> SUFFICES ASSUME NEW l \in Lanes, l # k, NEW i \in DOMAIN Wave, Wave[i] = l
               PROVE  i >= cursor + 1 <=> i >= cursor
    BY <1>1 DEF Open, Wave
  <2>1. i # cursor
    BY <1>2
  <2> QED BY <1>p, <2>1
<1>7. k \notin WorkIn(merging) /\ k \notin conflicts
  BY <1>2, <1>3, <1>4 DEF Sound
<1>8. \/ ~Contributes(k) /\ merging' = merging /\ conflicts' = conflicts
      \/ /\ Contributes(k) /\ conflicts' = conflicts
         /\ merging' = merging \cup {<<k, "work">>}
      \/ /\ Contributes(k) /\ conflicts' = conflicts \cup {k}
         /\ merging' \in {merging, merging \cup {<<k, "marks">>}}
  BY <1>2 DEF MergeLane
<1>9. /\ WorkIn(tip)' = WorkIn(tip) /\ WorkIn(pre)' = WorkIn(pre)
      /\ k \notin WorkIn(tip) /\ k \notin WorkIn(pre)
  BY <1>1, <1>3, <1>4 DEF Sound, WorkIn
<1>10. \A l \in Lanes : l # k =>
          /\ l \in Merged' <=> l \in Merged
          /\ l \in WorkIn(merging)' <=> l \in WorkIn(merging)
  BY <1>4, <1>8 DEF Merged, WorkIn
<1>11. (k \in Merged' <=> k \in WorkIn(merging)') /\ (k \in conflicts' => stage[k] # "waiting")
  BY <1>2, <1>4, <1>7, <1>8 DEF Merged, WorkIn, Contributes
<1>12. \A l \in Lanes : l # k => (l \in conflicts' <=> l \in conflicts)
  BY <1>8
<1>13. /\ Merged \subseteq Lanes /\ Merged' \subseteq Lanes
       /\ WorkIn(merging) \subseteq Lanes /\ WorkIn(merging)' \subseteq Lanes
       /\ WorkIn(tip) \subseteq Lanes /\ WorkIn(pre) \subseteq Lanes
       /\ conflicts \subseteq Lanes /\ conflicts' \subseteq Lanes
  BY <1>2, <1>8 DEF Merged, WorkIn, IInv, TypeOK, TreesOK
<1>14. Sound'
  <2>1. WorkIn(merging)' \subseteq Merged'
    BY <1>3, <1>10, <1>11, <1>13 DEF Sound
  <2>2. WorkIn(tip)' \subseteq Merged' /\ WorkIn(pre)' \subseteq Merged'
    BY <1>3, <1>9, <1>10, <1>13 DEF Sound
  <2>3. /\ \A l \in WorkIn(pre)' : ~InWave(l)'
        /\ \A l \in WorkIn(tip)' : ~InWave(l)'
    BY <1>1, <1>3, <1>4, <1>9, <1>13 DEF Sound
  <2>4. \A l \in Lanes : Open(l)' => l \notin WorkIn(merging)' /\ l \notin conflicts'
    BY <1>3, <1>5, <1>6, <1>10, <1>12 DEF Sound
  <2>5. \A l \in conflicts' : stage'[l] # "waiting"
    BY <1>1, <1>3, <1>11, <1>12, <1>13 DEF Sound
  <2> QED BY <2>1, <2>2, <2>3, <2>4, <2>5 DEF Sound
<1>15. ~lost' => Complete'
  <2> SUFFICES ASSUME ~lost PROVE Complete'
    BY <1>1
  <2>1. Complete
    BY <1>3
  <2>2. WorkIn(merging)' = {l \in Merged' : ~Open(l)'}
    <3>1. ASSUME NEW l \in Lanes, l # k
          PROVE  l \in WorkIn(merging)' <=> l \in Merged' /\ ~Open(l)'
      BY <2>1, <3>1, <1>6, <1>10 DEF Complete
    <3>2. k \in WorkIn(merging)' <=> k \in Merged' /\ ~Open(k)'
      BY <1>5, <1>11
    <3> QED BY <3>1, <3>2, <1>13
  <2>3. WorkIn(pre)' = {l \in Merged' : ~InWave(l)'}
    <3>1. WorkIn(pre) = {l \in Merged : ~InWave(l)}
      BY <2>1, <1>1 DEF Complete
    <3> QED BY <3>1, <1>4, <1>9, <1>10, <1>13
  <2> QED BY <2>2, <2>3, <1>1 DEF Complete
<1> QED BY <1>1, <1>3, <1>14, <1>15 DEF Contents, MergedIsComplete

LEMMA SettledContents ==
  ASSUME IInv, Contents, LanesSettled
  PROVE  Contents'
<1>1. /\ pc = "running" /\ Active /\ cursor' = 1
      /\ UNCHANGED <<out, wave, pre, stage, edits, merging, tip, conflicts, lost, plan>>
      /\ \/ pc' = "merging" /\ ended' = ended
         \/ pc' = "over" /\ ended' \in {"taken", "git"}
  BY DEF LanesSettled, Active, laneVars, mergeVars, callVars, Goto, Ends, Refusal
<1>2. Sound /\ (~lost => Complete) /\ ended = "none"
  BY <1>1 DEF Contents
<1>3. /\ Merged' = Merged /\ \A l \in Lanes : InWave(l)' <=> InWave(l)
      /\ WorkIn(merging)' = WorkIn(merging) /\ WorkIn(tip)' = WorkIn(tip)
      /\ WorkIn(pre)' = WorkIn(pre)
  BY <1>1 DEF Merged, Contributes, InWave, Wave, WorkIn
<1>4. CASE pc' = "merging" /\ ended' = ended
  <2>1. \A i \in DOMAIN Wave : i >= 1
    BY <1>1, WaveShape DEF IInv
  <2>2. \A l \in Lanes : Open(l)' <=> Open(l)
    BY <1>1, <1>4, <2>1 DEF Open, InWave, Wave
  <2>3. Merged \subseteq Lanes /\ WorkIn(pre) \subseteq Lanes /\ WorkIn(tip) \subseteq Lanes
    BY DEF Merged, WorkIn
  <2>4. Sound'
    BY <1>1, <1>2, <1>3, <1>4, <2>2, <2>3 DEF Sound
  <2>5. ~lost' => Complete'
    <3> SUFFICES ASSUME ~lost PROVE Complete'
      BY <1>1
    <3>1. /\ {l \in Merged' : ~Open(l)'} = {l \in Merged : ~Open(l)}
          /\ {l \in Merged' : ~InWave(l)'} = {l \in Merged : ~InWave(l)}
      BY <1>3, <2>2, <2>3
    <3> QED BY <1>1, <1>2, <1>3, <1>4, <3>1 DEF Complete
  <2> QED BY <1>2, <1>4, <2>4, <2>5 DEF Contents, MergedIsComplete
<1>5. CASE pc' = "over" /\ ended' \in {"taken", "git"}
  BY <1>5 DEF Contents, MergedIsComplete, Active
<1> QED BY <1>1, <1>4, <1>5

LEMMA CommitContents ==
  ASSUME IInv, Contents, CommitWave
  PROVE  Contents'
<1>1. /\ pc = "merging" /\ Active /\ cursor > Len(Wave) /\ pc' \in {"verifying", "closing"}
      /\ \/ tip' = merging /\ lost' = lost
         \/ lost' = TRUE /\ tip' = tip
      /\ UNCHANGED <<merging, conflicts, stage, edits, wave, cursor, pre, plan, ended, out>>
  BY DEF CommitWave, Active, Goto, laneVars, waveVars, callVars, endVars
<1>2. Sound /\ (~lost => Complete) /\ ended = "none"
  BY <1>1 DEF Contents
<1>3. /\ Merged' = Merged /\ \A l \in Lanes : InWave(l)' <=> InWave(l)
      /\ WorkIn(merging)' = WorkIn(merging) /\ WorkIn(pre)' = WorkIn(pre)
      /\ WorkIn(tip)' \in {WorkIn(tip), WorkIn(merging)}
  BY <1>1 DEF Merged, Contributes, InWave, Wave, WorkIn
<1>4. \A l \in Lanes : ~Open(l) /\ ~Open(l)'
  <2>1. \A i \in DOMAIN Wave : ~(i >= cursor)
    BY <1>1, WaveShape DEF IInv, TypeOK, PlaceOK
  <2> QED BY <1>1, <2>1 DEF Open
<1>5. Merged \subseteq Lanes /\ WorkIn(pre) \subseteq Lanes
  BY DEF Merged, WorkIn
<1>6. Sound'
  BY <1>1, <1>2, <1>3, <1>4, <1>5 DEF Sound
<1>7. ~lost' => Complete'
  <2> SUFFICES ASSUME ~lost' PROVE Complete'
    OBVIOUS
  <2>1. ~lost /\ tip' = merging /\ Complete
    BY <1>1, <1>2
  <2>2. /\ {l \in Merged' : ~Open(l)'} = {l \in Merged : ~Open(l)}
        /\ {l \in Merged' : ~InWave(l)'} = {l \in Merged : ~InWave(l)}
    BY <1>3, <1>4, <1>5
  <2> QED BY <1>1, <1>3, <2>1, <2>2 DEF Complete
<1> QED BY <1>1, <1>2, <1>6, <1>7 DEF Contents, MergedIsComplete

(* A red wave's merged lanes become failed, and the contents go back to    *)
(* the wave's base.                                                        *)
LEMMA VerifyContents ==
  ASSUME IInv, Contents, VerifyPasses \/ VerifyFails
  PROVE  Contents'
<1>1. /\ pc = "verifying" /\ Active /\ pc' = "closing"
      /\ UNCHANGED <<conflicts, lost, edits, wave, cursor, pre, plan, ended, out>>
  BY DEF VerifyPasses, VerifyFails, Active, Goto, laneVars, mergeVars, waveVars, callVars,
         endVars
<1>2. Sound /\ (~lost => Complete) /\ ended = "none"
  BY <1>1 DEF Contents
<1>3. \A l \in Lanes : (InWave(l)' <=> InWave(l)) /\ ~Open(l) /\ ~Open(l)'
  BY <1>1 DEF InWave, Wave, Open
<1>4. Merged \subseteq Lanes /\ WorkIn(pre) \subseteq Lanes /\ Merged' \subseteq Lanes
  BY DEF Merged, WorkIn
<1>5. WorkIn(pre)' = WorkIn(pre)
  BY <1>1 DEF WorkIn
<1>6. CASE VerifyPasses
  <2>1. UNCHANGED <<stage, merging, tip>>
    BY <1>6 DEF VerifyPasses, laneVars, mergeVars
  <2>2. /\ Merged' = Merged
        /\ WorkIn(merging)' = WorkIn(merging) /\ WorkIn(tip)' = WorkIn(tip)
    BY <1>1, <2>1 DEF Merged, Contributes, WorkIn
  <2>3. Sound'
    BY <1>1, <1>2, <1>3, <1>4, <1>5, <2>1, <2>2 DEF Sound
  <2>4. ~lost' => Complete'
    <3>1. /\ {l \in Merged' : ~Open(l)'} = {l \in Merged : ~Open(l)}
          /\ {l \in Merged' : ~InWave(l)'} = {l \in Merged : ~InWave(l)}
      BY <1>3, <1>4, <2>2
    <3> QED BY <1>1, <1>2, <1>5, <2>1, <2>2, <3>1 DEF Complete
  <2> QED BY <1>1, <1>2, <2>3, <2>4 DEF Contents, MergedIsComplete
<1>7. CASE VerifyFails
  <2>1. /\ merging' = pre /\ tip' = pre
        /\ \A l \in Lanes : stage'[l] = Relabel(l)
    BY <1>7 DEF VerifyFails
  <2>2. \A l \in Lanes : l \in Merged' <=> l \in Merged /\ ~InWave(l)
    BY <1>1, <2>1 DEF Merged, Contributes, Relabel
  <2>3. WorkIn(merging)' = WorkIn(pre) /\ WorkIn(tip)' = WorkIn(pre)
    BY <2>1 DEF WorkIn
  <2>4. \A l \in WorkIn(pre) : l \in Lanes /\ l \in Merged /\ ~InWave(l)
    BY <1>1, <1>2, <1>4 DEF Sound
  <2>5. \A l \in conflicts' : stage'[l] # "waiting"
    <3>1. \A l \in Lanes : stage'[l] \in {stage[l], "failed"}
      BY <2>1 DEF Relabel
    <3>2. conflicts \subseteq Lanes
      BY DEF IInv, TypeOK, TreesOK
    <3> QED BY <1>1, <1>2, <3>1, <3>2 DEF Sound
  <2>6. Sound'
    BY <1>1, <1>3, <1>5, <2>2, <2>3, <2>4, <2>5 DEF Sound
  <2>7. ~lost' => Complete'
    <3> SUFFICES ASSUME ~lost PROVE Complete'
      BY <1>1
    <3>1. WorkIn(pre) = {l \in Merged : ~InWave(l)}
      BY <1>1, <1>2 DEF Complete
    <3>2. /\ {l \in Merged' : ~Open(l)'} = WorkIn(pre)
          /\ {l \in Merged' : ~InWave(l)'} = WorkIn(pre)
      BY <1>3, <1>4, <2>2, <3>1
    <3>3. merging' = tip'
      BY <2>1
    <3> QED BY <1>5, <2>3, <3>2, <3>3 DEF Complete
  <2> QED BY <1>1, <1>2, <2>6, <2>7 DEF Contents, MergedIsComplete
<1> QED BY <1>6, <1>7

LEMMA CloseContents ==
  ASSUME IInv, IInv', Contents, CloseWave
  PROVE  Contents'
<1>1. /\ pc = "closing" /\ Active /\ NextWave
      /\ UNCHANGED <<pre, stage, edits, mergeVars, plan>>
      /\ UNCHANGED <<conflicts, tip, merging, lost>>
  BY DEF CloseWave, Active, laneVars, callVars, mergeVars
<1>2. Sound /\ (~lost => Complete) /\ ended = "none"
  BY <1>1 DEF Contents
<1>3. Merged' = Merged /\ WorkIn(pre)' = WorkIn(pre)
  BY <1>1 DEF Merged, Contributes, WorkIn
<1>4. \A l \in Lanes : ~Open(l)
  BY <1>1 DEF Open
<1>5. ~lost => merging = tip /\ WorkIn(tip) = Merged
  <2>1. Merged \subseteq Lanes
    BY DEF Merged
  <2> QED BY <1>1, <1>2, <1>4, <2>1 DEF Complete
<1> QED BY <1>1, <1>2, <1>3, <1>5, NextContents DEF Sound

LEMMA FlatContents ==
  ASSUME IInv, Contents, ReturnFlat
  PROVE  Contents'
<1>1. /\ pc = "merging" /\ Active /\ cursor > Len(Wave) /\ pc' = "over" /\ out' = merging
      /\ UNCHANGED <<lost, conflicts, stage, edits>>
  BY DEF ReturnFlat, Active, Ends, Goto, laneVars, mergeVars
<1>2. Sound /\ (~lost => Complete)
  BY <1>1 DEF Contents
<1>3. Merged' = Merged /\ WorkIn(out)' = WorkIn(merging) /\ Merged \subseteq Lanes
  BY <1>1 DEF Merged, Contributes, WorkIn
<1>4. \A l \in Lanes : ~Open(l)
  <2>1. \A i \in DOMAIN Wave : ~(i >= cursor)
    BY <1>1, WaveShape DEF IInv, TypeOK, PlaceOK
  <2> QED BY <1>1, <2>1 DEF Open
<1>5. ~lost => WorkIn(merging) = Merged
  BY <1>2, <1>3, <1>4 DEF Complete
<1>6. MergedIsComplete'
  BY <1>1, <1>2, <1>3, <1>5 DEF Sound, MergedIsComplete
<1> QED BY <1>1, <1>6 DEF Contents, Active

LEMMA BeginContents ==
  ASSUME IInv, NEW p \in Plans, BeginFlat(p) \/ BeginStaged(p)
  PROVE  Contents'
<1>1. Begin(p)
  BY DEF BeginFlat, BeginStaged
<1>2. /\ merging' = {} /\ tip' = {} /\ pre' = {} /\ conflicts' = {}
      /\ \A l \in Lanes : stage'[l] # "ran"
  BY <1>1 DEF Begin
<1>3. \/ pc' \in {"setup", "gating"} /\ ended' = "none"
      \/ pc' = "over" /\ ended' \in {"taken", "git"}
  BY DEF BeginFlat, BeginStaged, Goto, Ends, Refusal
<1>4. Merged' = {}
  BY <1>2 DEF Merged, Contributes
<1>5. WorkIn(merging)' = {} /\ WorkIn(tip)' = {} /\ WorkIn(pre)' = {}
  BY <1>2 DEF WorkIn
<1>6. Sound'
  BY <1>2, <1>5 DEF Sound
<1>7. Complete'
  <2>1. {l \in Merged' : ~Open(l)'} = {} /\ {l \in Merged' : ~InWave(l)'} = {}
    BY <1>4
  <2> QED BY <1>2, <1>5, <2>1 DEF Complete
<1> QED BY <1>3, <1>6, <1>7 DEF Contents, MergedIsComplete, Active

LEMMA ContentsStep == IInv /\ IInv' /\ Busy /\ Contents /\ [Next]_vars => Contents'
<1> SUFFICES ASSUME IInv, IInv', Busy, Contents, [Next]_vars PROVE Contents'
  OBVIOUS
<1>1. CASE SetUpFails \/ VerifyThrows \/ Crash
  <2>1. pc' = "over" /\ ended' # "returned"
    BY <1>1 DEF SetUpFails, VerifyThrows, Crash, Ends, Goto, Refusal
  <2> QED BY <2>1 DEF Contents, MergedIsComplete, Active
<1>2. CASE CleanUp \/ UNCHANGED vars
  <2>1. UNCHANGED <<pc, ended, stage, edits, merging, tip, conflicts, lost, wave, cursor,
                    pre, plan, out>>
    BY <1>2 DEF CleanUp, vars, laneVars, mergeVars, waveVars, callVars, endVars
  <2>2. Merged' = Merged /\ \A c : WorkIn(c)' = WorkIn(c)
    BY <2>1 DEF Merged, Contributes, WorkIn
  <2>3. \A l : (InWave(l)' <=> InWave(l)) /\ (Open(l)' <=> Open(l))
    BY <2>1 DEF InWave, Wave, Open
  <2> QED BY <2>1, <2>2, <2>3
          DEF Contents, MergedIsComplete, Sound, Complete, Active, WorkIn
<1> QED BY <1>1, <1>2, LaneContents, GateContents, SettledContents, MergeContents,
           CommitContents, VerifyContents, CloseContents, FlatContents, BeginContents
        DEF Next, Step

(* A lane that was reached depends on earlier waves only.                  *)
LEMMA EarlierDeps ==
  ASSUME Where, Active, plan.staged, wave \in Nat,
         NEW l \in Lanes, Reached(l), NEW d \in Known(l)
  PROVE  ~InWave(d)
<1> SUFFICES ASSUME InWave(d) PROVE FALSE
  OBVIOUS
<1>1. plan \in Plans /\ wave \in DOMAIN plan.waves /\ DOMAIN plan.waves \subseteq Nat
  BY PlanShape DEF Where
<1>2. PICK v \in DOMAIN plan.waves : v <= wave /\ \E i \in DOMAIN plan.waves[v] :
                                        plan.waves[v][i] = l
  BY DEF Reached
<1>3. PICK i \in DOMAIN plan.waves[v] : plan.waves[v][i] = l
  BY <1>2
<1>4. PICK j \in DOMAIN plan.waves[wave] : plan.waves[wave][j] = d
  BY DEF InWave, Wave
<1>5. d \in DependsOn[l]
  BY DEF Known
<1>6. wave < v
  BY <1>1, <1>3, <1>4, <1>5, PlansAssumption DEF WellFormed
<1> QED BY <1>1, <1>2, <1>6

(* Stages change in the current wave only, and a lane is past waiting only *)
(* if its condition held as the step began.                                *)
LEMMA JudgedOn ==
  ASSUME IInv, Active, Judged, UNCHANGED plan, wave' \in Nat, wave <= wave',
         \A l \in Lanes : ~InWave(l) => stage'[l] = stage[l],
         \A l \in Lanes : plan.staged /\ stage'[l] \notin {"waiting", "skipped"}
                             => ShouldRun(l)
  PROVE  Judged'
<1>1. Where /\ wave \in Nat /\ wave \in DOMAIN plan.waves /\ DOMAIN plan.waves \subseteq Nat
  BY PlanShape DEF IInv, TypeOK, PlaceOK, Where
<1>2. ASSUME NEW l \in Lanes, stage'[l] # "waiting" PROVE Reached(l) /\ Reached(l)'
  <2>1. Reached(l)
    <3>1. CASE InWave(l)
      BY <1>1, <3>1 DEF Reached, InWave, Wave
    <3>2. CASE ~InWave(l)
      BY <1>2, <3>2 DEF Judged
    <3> QED BY <3>1, <3>2
  <2>2. Reached(l)'
    <3>1. PICK v \in DOMAIN plan.waves : v <= wave /\ \E i \in DOMAIN plan.waves[v] :
                                            plan.waves[v][i] = l
      BY <2>1 DEF Reached
    <3>2. v <= wave'
      BY <1>1, <3>1
    <3> QED BY <3>1, <3>2 DEF Reached
  <2> QED BY <2>1, <2>2
<1>3. ASSUME NEW l \in Lanes, plan.staged, stage'[l] \notin {"waiting", "skipped"}
      PROVE  ShouldRun(l)'
  <2>1. Known(l)' = Known(l) /\ Known(l) \subseteq Lanes
    BY DEF Known, Planned
  <2>2. \A d \in Known(l) : stage'[d] = stage[d]
    BY <1>1, <1>2, <1>3, <2>1, EarlierDeps
  <2>3. ShouldRun(l)
    BY <1>3
  <2> QED BY <2>1, <2>2, <2>3 DEF ShouldRun, Succeeded
<1>4. ConditionsHold'
  BY <1>3 DEF ConditionsHold, ShouldRun, Succeeded
<1> QED BY <1>2, <1>4 DEF Judged

LEMMA OverJudged == ASSUME pc' \in {"idle", "over"} PROVE Judged'
BY DEF Judged, ConditionsHold, Active

(* A step that only takes a lane from one stage past waiting to another.   *)
LEMMA KeptJudged ==
  ASSUME IInv, Active, Judged, UNCHANGED plan, wave' \in Nat, wave <= wave',
         \A l \in Lanes : ~InWave(l) => stage'[l] = stage[l],
         \A l \in Lanes : stage[l] \in {"waiting", "skipped"} => stage'[l] = stage[l]
  PROVE  Judged'
<1>1. \A l \in Lanes : plan.staged /\ stage[l] \notin {"waiting", "skipped"} => ShouldRun(l)
  BY DEF Judged, ConditionsHold, ShouldRun, Succeeded
<1>2. \A l \in Lanes : plan.staged /\ stage'[l] \notin {"waiting", "skipped"} => ShouldRun(l)
  BY <1>1
<1> QED BY <1>2, JudgedOn

LEMMA JudgedStep == IInv /\ IInv' /\ Busy /\ Judged /\ [Next]_vars => Judged'
<1> SUFFICES ASSUME IInv, IInv', Busy, Judged, [Next]_vars PROVE Judged'
  OBVIOUS
<1>0. wave \in Nat /\ wave' \in Nat
  BY DEF IInv, TypeOK, PlaceOK
<1>1. ASSUME NEW p \in Plans, BeginFlat(p) \/ BeginStaged(p) PROVE Judged'
  <2>1. Begin(p)
    BY <1>1 DEF BeginFlat, BeginStaged
  <2>2. ASSUME NEW l \in Lanes, stage'[l] # "waiting" PROVE ~p.staged /\ Reached(l)'
    <3>1. ~p.staged /\ l \in Planned(p)
      BY <2>1, <2>2 DEF Begin
    <3>2. PICK w \in DOMAIN p.waves : \E i \in DOMAIN p.waves[w] : p.waves[w][i] = l
      BY <3>1 DEF Planned
    <3>3. w = 1
      BY <3>1, <3>2, PlanShape
    <3>4. plan' = p /\ wave' = 1
      BY <2>1 DEF Begin
    <3> QED BY <3>1, <3>2, <3>3, <3>4 DEF Reached
  <2>3. plan' = p
    BY <2>1 DEF Begin
  <2> QED BY <2>2, <2>3 DEF Judged, ConditionsHold
<1>2. CASE GateWave
  <2>1. CASE pc' = "over"
    BY <2>1, OverJudged
  <2>2. CASE pc' # "over"
    <3>1. wave <= wave'
      BY <1>0, <1>2, <2>2, GateShape DEF NextWave, Ends, Goto
    <3>2. \A l \in Lanes : plan.staged /\ stage[l] \notin {"waiting", "skipped"}
                              => ShouldRun(l)
      BY <1>2, GateShape DEF Judged, ConditionsHold, ShouldRun, Succeeded
    <3>3. /\ Active /\ UNCHANGED plan
          /\ \A l \in Lanes : ~InWave(l) => stage'[l] = stage[l]
          /\ \A l \in Lanes :
               InWave(l) => stage'[l] = (IF ShouldRun(l) THEN "chosen" ELSE "skipped")
      BY <1>2, GateShape DEF callVars
    <3>4. \A l \in Lanes : plan.staged /\ stage'[l] \notin {"waiting", "skipped"}
                              => ShouldRun(l)
      BY <3>2, <3>3
    <3> QED BY <1>0, <3>1, <3>3, <3>4, JudgedOn
  <2> QED BY <2>1, <2>2
<1>3. CASE SetUpLane \/ SetUpDone \/ StartLane \/ \E l \in Lanes : Lane(l)
  <2>1. /\ Active /\ UNCHANGED <<wave, plan>>
        /\ \A l \in Lanes : ~InWave(l) => stage'[l] = stage[l]
        /\ \A l \in Lanes : stage[l] \in {"waiting", "skipped"} => stage'[l] = stage[l]
    BY <1>3, LaneShape DEF Active, callVars
  <2> QED BY <1>0, <2>1, KeptJudged
<1>4. CASE LanesSettled \/ MergeLane \/ CommitWave \/ VerifyPasses
  <2>1. Active /\ UNCHANGED <<wave, plan, stage>>
    BY <1>4 DEF LanesSettled, MergeLane, CommitWave, VerifyPasses, Active, laneVars,
                waveVars, callVars
  <2> QED BY <1>0, <2>1, KeptJudged
<1>5. CASE VerifyFails
  <2>1. /\ Active /\ UNCHANGED <<wave, plan>> /\ \A l \in Lanes : stage'[l] = Relabel(l)
    BY <1>5 DEF VerifyFails, Active, waveVars, callVars
  <2>2. /\ \A l \in Lanes : ~InWave(l) => stage'[l] = stage[l]
        /\ \A l \in Lanes : stage[l] \in {"waiting", "skipped"} => stage'[l] = stage[l]
    BY <2>1 DEF Relabel, Contributes
  <2> QED BY <1>0, <2>1, <2>2, KeptJudged
<1>6. CASE CloseWave
  <2>1. Active /\ UNCHANGED <<plan, stage>> /\ (pc' = "over" \/ wave' = wave + 1)
    BY <1>6 DEF CloseWave, NextWave, Active, Ends, Goto, laneVars, callVars
  <2> QED BY <1>0, <2>1, KeptJudged, OverJudged
<1>7. CASE SetUpFails \/ ReturnFlat \/ VerifyThrows \/ Crash
  BY <1>7, OverJudged DEF SetUpFails, ReturnFlat, VerifyThrows, Crash, Ends, Goto
<1>8. CASE CleanUp \/ UNCHANGED vars
  <2>1. UNCHANGED <<pc, wave, plan, stage>>
    BY <1>8 DEF CleanUp, vars, laneVars, waveVars, callVars
  <2> QED BY <2>1 DEF Judged, ConditionsHold, Active, Reached, Known
<1> QED BY <1>1, <1>2, <1>3, <1>4, <1>5, <1>6, <1>7, <1>8 DEF Next, Step

LEMMA TreesStep == IInv /\ Busy /\ Contents /\ Trees /\ [Next]_vars => Trees'
<1> SUFFICES ASSUME IInv, Busy, Contents, Trees, [Next]_vars PROVE Trees'
  OBVIOUS
<1>0. Active => ended = "none" /\ worktrees \subseteq kept \cup setups \cup {MergeTree}
  BY DEF Contents, Trees
<1>1. ASSUME NEW p \in Plans, BeginFlat(p) \/ BeginStaged(p) PROVE Trees'
  <2>1. kept' = worktrees /\ setups' = {}
    BY <1>1 DEF BeginFlat, BeginStaged, Begin
  <2>2. worktrees' \subseteq worktrees \cup {MergeTree} /\ ended' \in {"none", "taken", "git"}
    BY <1>1 DEF BeginFlat, BeginStaged, AddWorktree, Ends, Refusal, repoVars
  <2> QED BY <2>1, <2>2 DEF Trees, TornDown
<1>2. ASSUME Active, NextWave, UNCHANGED kept, setups' \in {setups, {}} PROVE Trees'
  <2>1. CASE worktrees' = worktrees \ setups /\ ended' = ended
    BY <1>0, <1>2, <2>1 DEF Trees, TornDown
  <2>2. CASE worktrees' = worktrees \ (setups \cup {MergeTree}) /\ pc' = "over"
    BY <1>0, <1>2, <2>2 DEF Trees, TornDown, Active
  <2> QED BY <1>2, <2>1, <2>2 DEF NextWave, Ends, Goto, endVars
<1>3. CASE GateWave
  <2>1. /\ Active /\ UNCHANGED <<kept, setups>>
        /\ NextWave \/ UNCHANGED <<worktrees, ended>>
    BY <1>3 DEF GateWave, Active, repoVars, endVars, callVars
  <2> QED BY <1>0, <1>2, <2>1 DEF Trees, TornDown
<1>4. CASE CloseWave
  BY <1>2, <1>4 DEF CloseWave, Active, callVars
<1>5. CASE SetUpLane \/ SetUpDone \/ StartLane \/ \E l \in Lanes : Lane(l)
  <2>1. /\ Active /\ UNCHANGED <<kept, ended>> /\ setups \subseteq setups'
        /\ worktrees' \subseteq worktrees \cup setups'
    BY <1>5, LaneShape DEF Active, callVars, endVars
  <2> QED BY <1>0, <2>1 DEF Trees, TornDown
<1>6. CASE LanesSettled
  <2>1. Active /\ UNCHANGED <<kept, setups>>
    BY <1>6 DEF LanesSettled, Active, callVars
  <2>2. \/ worktrees' \subseteq worktrees \cup {MergeTree} /\ ended' = ended
        \/ pc' = "over" /\ ended' \in {"taken", "git"}
    BY <1>6 DEF LanesSettled, AddWorktree, Ends, Goto, Refusal, repoVars
  <2> QED BY <1>0, <2>1, <2>2 DEF Trees, TornDown, Active
<1>7. CASE MergeLane \/ CommitWave \/ VerifyPasses \/ VerifyFails
  <2>1. Active /\ UNCHANGED <<kept, setups, worktrees, ended>>
    BY <1>7 DEF MergeLane, CommitWave, VerifyPasses, VerifyFails, Active, callVars,
                waveVars, repoVars, endVars
  <2> QED BY <1>0, <2>1 DEF Trees, TornDown
<1>8. CASE ReturnFlat \/ VerifyThrows
  <2>1. Active /\ pc' = "over" /\ UNCHANGED kept
        /\ worktrees' = worktrees \ (setups \cup {MergeTree})
    BY <1>8 DEF ReturnFlat, VerifyThrows, Active, Ends, Goto, callVars
  <2> QED BY <1>0, <2>1 DEF Trees, TornDown, Active
<1>9. CASE SetUpFails \/ Crash
  <2>1. pc' = "over" /\ ended' \in {"taken", "git", "crash"}
    BY <1>9 DEF SetUpFails, Crash, Ends, Goto, Refusal
  <2> QED BY <2>1 DEF Trees, TornDown, Active
<1>10. CASE CleanUp
  <2>1. ~Active /\ pc' = pc /\ worktrees' = {}
    BY <1>10 DEF CleanUp
  <2> QED BY <2>1 DEF Trees, TornDown, Active
<1>11. CASE UNCHANGED vars
  BY <1>11 DEF vars, repoVars, callVars, waveVars, endVars, Trees, TornDown, Active
<1> QED BY <1>1, <1>3, <1>4, <1>5, <1>6, <1>7, <1>8, <1>9, <1>10, <1>11 DEF Next, Step

SwarmInv == IInv /\ Busy /\ Contents /\ Judged /\ Trees

LEMMA SwarmInductive == Spec => []SwarmInv
<1>1. Init => SwarmInv
  <2> SUFFICES ASSUME Init PROVE SwarmInv
    OBVIOUS
  <2>1. ~Active /\ ended = "none"
    BY DEF Init, Active
  <2> QED BY <2>1, InitHolds DEF SwarmInv, Busy, Contents, MergedIsComplete, Judged,
                                 ConditionsHold, Trees, TornDown
<1>2. SwarmInv /\ [Next]_vars => SwarmInv'
  BY StepPreserves, BusyStep, ContentsStep, JudgedStep, TreesStep DEF SwarmInv
<1> QED BY <1>1, <1>2, PTL DEF Spec

(* A staged wave starts from the work of the merged lanes of the waves     *)
(* before it and nothing else, however lanes fail, conflict, are healed    *)
(* or are undone by the gate; from all of it unless a commit failed.       *)
THEOREM WavesBuildOn == Spec => []DependentsSeeWork
<1>1. SwarmInv => DependentsSeeWork
  <2> SUFFICES ASSUME SwarmInv, pc \in {"setup", "running"} PROVE DependentsSeeWork
    BY DEF DependentsSeeWork
  <2>1. Sound /\ (~lost => Complete)
    BY DEF SwarmInv, Contents, Active
  <2> QED BY <2>1 DEF Sound, Complete, DependentsSeeWork
<1> QED BY <1>1, SwarmInductive, PTL

(* mergedDiff holds the work of the lanes reported as merged and of no     *)
(* other; all of it unless a commit failed.                                *)
THEOREM DiffIsMerged == Spec => []MergedIsComplete
<1>1. SwarmInv => MergedIsComplete
  BY DEF SwarmInv, Contents
<1> QED BY <1>1, SwarmInductive, PTL

(* A lane runs on the final results of its dependencies: no later lane,    *)
(* merge or gate changes what shouldRunLane was told of them.              *)
THEOREM ConditionsStand == Spec => []ConditionsHold
<1>1. SwarmInv => ConditionsHold
  BY DEF SwarmInv, Judged
<1> QED BY <1>1, SwarmInductive, PTL

(* A call that returns, or whose gate throws, leaves none of its worktrees *)
(* behind.                                                                 *)
THEOREM NoTreeLeft == Spec => []TornDown
<1>1. SwarmInv => TornDown
  BY DEF SwarmInv, Trees
<1> QED BY <1>1, SwarmInductive, PTL

-----------------------------------------------------------------------------
(* The pool.                                                               *)

Finished(l) == stage[l] \in {"ran", "failed", "skipped"}

(* mapLimited never has more lanes at work than maxConcurrency, and never  *)
(* stalls: as long as the lanes of the wave have not all settled, one is   *)
(* at work, or one is ready and a worker is free to take it.               *)
PoolServes ==
    /\ Cardinality(Working) <= MaxConcurrency
    /\ pc = "running" =>
         \/ Working # {}
         \/ /\ Cardinality(Working) < MaxConcurrency
            /\ \E i \in DOMAIN Wave : stage[Wave[i]] = "ready"
         \/ \A i \in DOMAIN Wave : Finished(Wave[i])

(* The lanes of the wave that the set-up has passed are in hand.           *)
InHand ==
    /\ pc = "setup" => \A i \in DOMAIN Wave :
          stage[Wave[i]] # "waiting" /\ (i < cursor => stage[Wave[i]] # "chosen")
    /\ pc = "running" => \A i \in DOMAIN Wave : stage[Wave[i]] \notin {"waiting", "chosen"}

LEMMA WorkingCount ==
  ASSUME NEW S \in SUBSET Lanes, NEW T \in SUBSET S
  PROVE  /\ IsFiniteSet(S) /\ Cardinality(S) \in Nat /\ Cardinality(T) \in Nat
         /\ Cardinality(T) <= Cardinality(S)
<1>1. IsFiniteSet(S)
  BY LanesAssumption, FS_Subset
<1> QED BY <1>1, FS_Subset, FS_CardinalityType

LEMMA CountStep ==
  IInv /\ [Next]_vars /\ Cardinality(Working) <= MaxConcurrency
    => Cardinality(Working)' <= MaxConcurrency
<1> SUFFICES ASSUME IInv, [Next]_vars, Cardinality(Working) <= MaxConcurrency
             PROVE  Cardinality(Working)' <= MaxConcurrency
  OBVIOUS
<1>0. MaxConcurrency \in Nat /\ stage \in [Lanes -> Fate] /\ Working \in SUBSET Lanes
      /\ Cardinality(Working) \in Nat
  BY LimitsAssumption, WorkingCount DEF IInv, TypeOK, LanesOK, Working
<1>1. ASSUME Working' \subseteq Working PROVE Cardinality(Working)' <= MaxConcurrency
  <2>1. Cardinality(Working') \in Nat /\ Cardinality(Working') <= Cardinality(Working)
    BY <1>0, <1>1, WorkingCount
  <2> QED BY <1>0, <2>1
<1>2. CASE StartLane
  <2>1. PICK i \in DOMAIN Wave :
          /\ Cardinality(Working) < MaxConcurrency
          /\ stage' = [stage EXCEPT ![Wave[i]] = "working"]
    BY <1>2 DEF StartLane
  <2>2. Wave[i] \in Lanes
    BY <1>2, WaveShape DEF StartLane, Active, IInv
  <2>3. Working' \subseteq Working \cup {Wave[i]}
    BY <1>0, <2>1 DEF Working
  <2>4. CASE Wave[i] \in Working
    BY <1>1, <2>3, <2>4
  <2>5. CASE Wave[i] \notin Working
    <3>1. /\ IsFiniteSet(Working) /\ IsFiniteSet(Working \cup {Wave[i]})
          /\ Cardinality(Working \cup {Wave[i]}) = Cardinality(Working) + 1
      BY <1>0, <2>5, WorkingCount, FS_AddElement
    <3>2. Cardinality(Working') \in Nat
          /\ Cardinality(Working') <= Cardinality(Working \cup {Wave[i]})
      BY <1>0, <2>2, <2>3, WorkingCount
    <3> QED BY <1>0, <2>1, <3>1, <3>2
  <2> QED BY <2>4, <2>5
<1>3. CASE ~StartLane
  <2>1. \A l \in Lanes : stage'[l] \in {"working", "healing"}
                           => stage[l] \in {"working", "healing"}
    <3>1. ASSUME NEW p \in Plans, Begin(p)
          PROVE  \A l \in Lanes : stage'[l] \notin {"working", "healing"}
      BY <3>1 DEF Begin
    <3>2. CASE GateWave
      BY <3>2, GateShape
    <3>3. CASE SetUpLane
      BY <3>3, <1>0 DEF SetUpLane
    <3>4. ASSUME NEW l \in Lanes, Lane(l)
          PROVE  \A k \in Lanes : stage'[k] # stage[k] => stage[k] \in {"working", "healing"}
      BY <3>4, <1>0 DEF Lane, LaneReturns, LaneRejected, HealReturns, Settle
    <3>5. CASE VerifyFails
      BY <3>5 DEF VerifyFails, Relabel
    <3>6. CASE UNCHANGED stage
      BY <3>6
    <3> QED BY <1>3, <3>1, <3>2, <3>3, <3>4, <3>5, <3>6
        DEF Next, Step, BeginFlat, BeginStaged, SetUpFails, SetUpDone, LanesSettled, MergeLane,
            ReturnFlat, CommitWave, VerifyPasses, VerifyThrows, CloseWave, Crash, CleanUp,
            vars, laneVars
  <2> QED BY <1>1, <2>1 DEF Working
<1> QED BY <1>2, <1>3

LEMMA InHandStep == IInv /\ InHand /\ [Next]_vars => InHand'
<1> SUFFICES ASSUME IInv, InHand, [Next]_vars PROVE InHand'
  OBVIOUS
<1>0. stage \in [Lanes -> Fate] /\ cursor \in Nat
  BY DEF IInv, TypeOK, LanesOK, PlaceOK
<1>1. CASE pc' \notin {"setup", "running"}
  BY <1>1 DEF InHand
<1>2. ASSUME NEW p \in Plans, BeginFlat(p) PROVE InHand'
  <2>1. /\ plan' = p /\ wave' = 1 /\ cursor' = 1 /\ pc' = "setup" /\ ~p.staged
        /\ stage' = [l \in Lanes |-> IF ~p.staged /\ l \in Planned(p)
                                     THEN "chosen" ELSE "waiting"]
    BY <1>2 DEF BeginFlat, Begin, Goto
  <2>2. 1 \in DOMAIN p.waves /\ DOMAIN p.waves[1] \subseteq Nat \ {0}
        /\ \A i \in DOMAIN p.waves[1] : p.waves[1][i] \in Lanes
    BY PlanShape
  <2>3. \A i \in DOMAIN p.waves[1] : stage'[p.waves[1][i]] = "chosen" /\ ~(i < 1)
    BY <2>1, <2>2 DEF Planned
  <2> QED BY <2>1, <2>3 DEF InHand, Wave
<1>3. CASE GateWave /\ pc' = "setup"
  <2>1. /\ UNCHANGED <<wave, plan>> /\ cursor' = 1
        /\ \A l \in Lanes : InWave(l) => stage'[l] \in {"chosen", "skipped"}
    <3>1. UNCHANGED wave
      BY <1>3, GateShape, NextWaveFacts
    <3> QED BY <1>3, <3>1, GateShape DEF GateWave, callVars
  <2>2. \A i \in DOMAIN Wave : Wave[i] \in Lanes /\ i \in Nat \ {0}
    BY <1>3, GateShape, WaveShape DEF IInv
  <2>3. \A i \in DOMAIN Wave : stage'[Wave[i]] \in {"chosen", "skipped"} /\ ~(i < 1)
    BY <2>1, <2>2 DEF InWave
  <2> QED BY <1>3, <2>1, <2>3 DEF InHand, Wave
<1>4. CASE SetUpLane
  <2>1. /\ pc = "setup" /\ Active /\ UNCHANGED <<pc, wave, plan>> /\ cursor' = cursor + 1
        /\ cursor <= Len(Wave)
        /\ \/ stage[Wave[cursor]] # "chosen" /\ stage' = stage
           \/ stage' = [stage EXCEPT ![Wave[cursor]] = "ready"]
    BY <1>4 DEF SetUpLane, Active, callVars
  <2>2. \A i \in DOMAIN Wave : Wave[i] \in Lanes /\ i \in Nat
    BY <2>1, WaveShape DEF IInv
  <2>3. ASSUME NEW i \in DOMAIN Wave
        PROVE  stage'[Wave[i]] # "waiting" /\ (i < cursor + 1 => stage'[Wave[i]] # "chosen")
    <3>1. CASE i = cursor
      BY <1>0, <2>1, <2>2, <2>3, <3>1 DEF InHand
    <3>2. CASE i # cursor
      <4>1. i < cursor + 1 => i < cursor
        BY <1>0, <2>2, <2>3, <3>2
      <4> QED BY <1>0, <2>1, <2>2, <2>3, <4>1 DEF InHand
    <3> QED BY <3>1, <3>2
  <2> QED BY <2>1, <2>3 DEF InHand, Wave
<1>5. CASE SetUpDone
  <2>1. /\ pc = "setup" /\ Active /\ pc' = "running" /\ UNCHANGED <<wave, plan, stage>>
        /\ cursor > Len(Wave)
    BY <1>5 DEF SetUpDone, Active, Goto, waveVars, callVars, laneVars
  <2>2. \A i \in DOMAIN Wave : i < cursor
    BY <1>0, <2>1, WaveShape DEF IInv
  <2> QED BY <2>1, <2>2 DEF InHand, Wave
<1>6. CASE StartLane
  <2>1. /\ pc = "running" /\ Active /\ UNCHANGED <<pc, wave, plan>>
        /\ \A l \in Lanes : stage'[l] \in {stage[l], "working"}
    BY <1>0, <1>6 DEF StartLane, Active, waveVars, callVars
  <2>2. \A i \in DOMAIN Wave : Wave[i] \in Lanes
    BY <2>1, WaveShape DEF IInv
  <2> QED BY <2>1, <2>2 DEF InHand, Wave
<1>7. ASSUME NEW l \in Lanes, Lane(l) PROVE InHand'
  <2>1. /\ pc = "running" /\ Active /\ UNCHANGED <<pc, wave, plan>>
        /\ \A k \in Lanes : stage'[k] \in {stage[k], "working", "healing", "ran", "failed"}
    BY <1>0, <1>7 DEF Lane, LaneReturns, LaneRejected, HealReturns, Settle, Active, waveVars, callVars
  <2>2. \A i \in DOMAIN Wave : Wave[i] \in Lanes
    BY <2>1, WaveShape DEF IInv
  <2> QED BY <2>1, <2>2 DEF InHand, Wave
<1>8. CASE CleanUp \/ UNCHANGED vars
  BY <1>8 DEF CleanUp, Active, vars, InHand, Wave, laneVars, waveVars, callVars
<1>9. CASE pc' \in {"setup", "running"}
  <2>1. ~NextWave
    BY <1>9 DEF NextWave, Goto, Ends
  <2>2. \A p \in Plans : ~BeginStaged(p)
    BY <1>9 DEF BeginStaged, Goto, Ends
  <2>3. ~SetUpFails /\ ~ReturnFlat /\ ~VerifyThrows /\ ~Crash /\ ~LanesSettled
    BY <1>9 DEF SetUpFails, ReturnFlat, VerifyThrows, Crash, LanesSettled, Ends, Goto
  <2>4. ~MergeLane /\ ~CommitWave /\ ~VerifyPasses /\ ~VerifyFails /\ ~CloseWave
    BY <1>9, <2>1 DEF MergeLane, CommitWave, VerifyPasses, VerifyFails, CloseWave, Goto
  <2>5. GateWave => pc' = "setup"
    BY <2>1, GateShape
  <2> QED BY <1>2, <1>3, <1>4, <1>5, <1>6, <1>7, <1>8, <2>2, <2>3, <2>4, <2>5 DEF Next, Step
<1> QED BY <1>1, <1>9

LEMMA PoolInvariance == Spec => [](IInv /\ InHand /\ Cardinality(Working) <= MaxConcurrency)
<1>1. Init => InHand /\ Cardinality(Working) <= MaxConcurrency
  <2> SUFFICES ASSUME Init PROVE InHand /\ Cardinality(Working) <= MaxConcurrency
    OBVIOUS
  <2>1. Working = {}
    BY DEF Init, Working
  <2> QED BY <2>1, FS_EmptySet, LimitsAssumption DEF Init, InHand
<1>2. IInv /\ (InHand /\ Cardinality(Working) <= MaxConcurrency) /\ [Next]_vars
        => (InHand /\ Cardinality(Working) <= MaxConcurrency)'
  BY InHandStep, CountStep
<1> QED BY <1>1, <1>2, Inductive, PTL DEF Spec

(* The pool keeps its bound and never stalls, for any number of lanes and  *)
(* workers.                                                                *)
THEOREM PoolNeverStalls == Spec => []PoolServes
<1>1. IInv /\ InHand /\ Cardinality(Working) <= MaxConcurrency => PoolServes
  <2> SUFFICES ASSUME IInv, InHand, pc = "running", Working = {},
                      ~ \A i \in DOMAIN Wave : Finished(Wave[i])
               PROVE  /\ Cardinality(Working) < MaxConcurrency
                      /\ \E i \in DOMAIN Wave : stage[Wave[i]] = "ready"
    BY DEF PoolServes
  <2>1. Cardinality(Working) < MaxConcurrency
    BY FS_EmptySet, LimitsAssumption
  <2>2. PICK i \in DOMAIN Wave : ~Finished(Wave[i])
    OBVIOUS
  <2>3. Wave[i] \in Lanes /\ stage[Wave[i]] \in Fate
    BY WaveShape DEF IInv, Active, TypeOK, LanesOK
  <2>4. stage[Wave[i]] = "ready"
    BY <2>2, <2>3 DEF InHand, Finished, Working, Fate
  <2> QED BY <2>1, <2>4
<1> QED BY <1>1, PoolInvariance, PTL

-----------------------------------------------------------------------------
(* A call comes to its end within the steps of its plan.                   *)

(* The steps of a wave, in their order, and the attempts a lane has left.  *)
Rank == [gating |-> 1, setup |-> 2, running |-> 3, merging |-> 4, verifying |-> 5,
         closing |-> 6]
Remaining(l) ==
    CASE stage[l] = "ready" -> Ceiling + 2
      [] stage[l] = "working" -> Ceiling + 2 - attempt[l]
      [] stage[l] = "healing" -> 1
      [] OTHER -> 0

Advances ==
    /\ plan' = plan
    /\ \/ wave < wave'
       \/ wave' = wave /\ Rank[pc] < Rank[pc']
       \/ wave' = wave /\ pc' = pc /\ cursor < cursor'
       \/ /\ wave' = wave /\ pc' = pc /\ cursor' = cursor
          /\ \E l \in Lanes : /\ Remaining(l)' < Remaining(l)
                              /\ \A k \in Lanes \ {l} : Remaining(k)' = Remaining(k)

(* Every step of a call takes it forward: to a later wave, to a later part *)
(* of its wave, to the next lane to set up or to merge, or a lane to fewer *)
(* attempts left.  No retry, heal, rollback or skipped wave takes it back. *)
CallAdvances == [][Active /\ Active' => Advances]_vars

(* What it counts up is bounded by its plan, and what it counts down is    *)
(* never negative.                                                         *)
WithinPlan ==
    /\ Active => wave <= Len(plan.waves)
    /\ pc \in {"setup", "merging"} => cursor <= Len(Wave) + 1
    /\ \A l \in Lanes : Remaining(l) \in 0 .. Ceiling + 2

LEMMA LaneRemaining ==
  ASSUME IInv, NEW l \in Lanes PROVE Remaining(l) \in 0 .. Ceiling + 2
BY LimitsAssumption DEF IInv, LaneOK, Remaining

LEMMA StageRemaining ==
  ASSUME NEW l \in Lanes, stage'[l] = stage[l], attempt'[l] = attempt[l]
  PROVE  Remaining(l)' = Remaining(l)
BY DEF Remaining

LEMMA AdvanceStep == IInv /\ [Next]_vars => [Active /\ Active' => Advances]_vars
<1> SUFFICES ASSUME IInv, Next, Active, Active' PROVE Advances
  BY DEF Active
<1>0. /\ stage \in [Lanes -> Fate] /\ attempt \in [Lanes -> 0 .. Ceiling + 1]
      /\ cursor \in Nat /\ wave \in Nat /\ Ceiling \in Nat \ {0}
  BY LimitsAssumption DEF IInv, TypeOK, LanesOK, PlaceOK
<1>1. pc' # "over" /\ \A how, S : ~Ends(how, S)
  BY DEF Active, Ends, Goto
<1>2. \A p \in Plans : ~BeginFlat(p) /\ ~BeginStaged(p)
  BY DEF BeginFlat, BeginStaged, Begin
<1>3. ~Crash /\ ~CleanUp /\ ~SetUpFails /\ ~ReturnFlat /\ ~VerifyThrows
  BY <1>1 DEF Crash, CleanUp, SetUpFails, ReturnFlat, VerifyThrows
<1>4. CASE GateWave
  BY <1>0, <1>1, <1>4 DEF GateWave, NextWave, Goto, callVars, Advances, Rank
<1>5. CASE SetUpLane
  BY <1>0, <1>5 DEF SetUpLane, callVars, Advances
<1>6. CASE SetUpDone
  BY <1>0, <1>6 DEF SetUpDone, Goto, waveVars, callVars, Advances, Rank
<1>7. CASE StartLane
  <2>1. PICK k \in Lanes : /\ stage[k] = "ready"
                           /\ stage' = [stage EXCEPT ![k] = "working"]
                           /\ attempt' = [attempt EXCEPT ![k] = 1]
    BY <1>7, WaveShape DEF StartLane, IInv
  <2>2. stage'[k] = "working" /\ attempt'[k] = 1
    BY <1>0, <2>1
  <2>3. Remaining(k) = Ceiling + 2 /\ Remaining(k)' = Ceiling + 1
    BY <1>0, <2>1, <2>2 DEF Remaining
  <2>4. \A l \in Lanes \ {k} : stage'[l] = stage[l] /\ attempt'[l] = attempt[l]
    BY <1>0, <2>1
  <2>5. \A l \in Lanes \ {k} : Remaining(l)' = Remaining(l)
    BY <2>4, StageRemaining
  <2>6. UNCHANGED <<plan, wave, pc, cursor>>
    BY <1>7 DEF StartLane, waveVars, callVars
  <2>7. Remaining(k)' < Remaining(k)
    BY <1>0, <2>3
  <2> QED BY <2>5, <2>6, <2>7 DEF Advances
<1>8. ASSUME NEW l \in Lanes, Lane(l) PROVE Advances
  <2>1. UNCHANGED <<plan, wave, pc, cursor>> /\ LaneOK(l)
    BY <1>8 DEF Lane, LaneReturns, LaneRejected, HealReturns, waveVars, callVars, IInv
  <2>2. Remaining(l)' < Remaining(l)
    <3>1. ASSUME NEW fate \in {"ran", "failed"}, Settle(l, fate),
                 stage[l] \in {"working", "healing"}
          PROVE  Remaining(l)' < Remaining(l)
      <4>1. Remaining(l)' = 0
        BY <1>0, <3>1 DEF Settle, Remaining
      <4>2. Remaining(l) >= 1
        BY <1>0, <2>1, <3>1 DEF Remaining, LaneOK
      <4> QED BY <1>0, <4>1, <4>2, LaneRemaining
    <3>2. ASSUME stage[l] = "working",
                 stage' = [stage EXCEPT ![l] = IF MayRetry(l) THEN "working" ELSE "healing"],
                 attempt' = [attempt EXCEPT ![l] = @ + 1]
          PROVE  Remaining(l)' < Remaining(l)
      <4>1. attempt[l] \in 1 .. Ceiling /\ attempt'[l] = attempt[l] + 1
            /\ Remaining(l) = Ceiling + 2 - attempt[l]
        BY <1>0, <2>1, <3>2 DEF LaneOK, Remaining
      <4>2. CASE MayRetry(l)
        <5>1. Remaining(l)' = Ceiling + 2 - attempt'[l]
          BY <1>0, <3>2, <4>2 DEF Remaining
        <5> QED BY <1>0, <4>1, <5>1
      <4>3. CASE ~MayRetry(l)
        <5>1. Remaining(l)' = 1
          BY <1>0, <3>2, <4>3 DEF Remaining
        <5> QED BY <1>0, <4>1, <5>1
      <4> QED BY <4>2, <4>3
    <3> QED BY <1>8, <3>1, <3>2 DEF Lane, LaneReturns, LaneRejected, HealReturns
  <2>3. \A k \in Lanes \ {l} : stage'[k] = stage[k] /\ attempt'[k] = attempt[k]
    BY <1>0, <1>8 DEF Lane, LaneReturns, LaneRejected, HealReturns, Settle
  <2>4. \A k \in Lanes \ {l} : Remaining(k)' = Remaining(k)
    BY <2>3, StageRemaining
  <2> QED BY <2>1, <2>2, <2>4 DEF Advances
<1>9. CASE LanesSettled
  BY <1>0, <1>1, <1>9 DEF LanesSettled, Goto, callVars, Advances, Rank
<1>10. CASE MergeLane
  BY <1>0, <1>10 DEF MergeLane, callVars, Advances
<1>11. CASE CommitWave \/ VerifyPasses \/ VerifyFails
  BY <1>0, <1>11 DEF CommitWave, VerifyPasses, VerifyFails, Goto, waveVars, callVars, Advances, Rank
<1>12. CASE CloseWave
  BY <1>0, <1>1, <1>12 DEF CloseWave, NextWave, callVars, Advances
<1> QED BY <1>2, <1>3, <1>4, <1>5, <1>6, <1>7, <1>8, <1>9, <1>10, <1>11, <1>12 DEF Next, Step

(* No call goes in circles, whatever its lanes, gate and git do.           *)
THEOREM CallsAdvance == Spec => CallAdvances
<1> QED BY Inductive, AdvanceStep, PTL DEF Spec, CallAdvances

LEMMA CursorStep ==
  IInv /\ IInv' /\ (pc \in {"setup", "merging"} => cursor <= Len(Wave) + 1) /\ [Next]_vars
    => (pc \in {"setup", "merging"} => cursor <= Len(Wave) + 1)'
<1> SUFFICES ASSUME IInv, IInv', pc \in {"setup", "merging"} => cursor <= Len(Wave) + 1,
                    [Next]_vars, pc' \in {"setup", "merging"}
             PROVE  cursor' <= Len(Wave)' + 1
  OBVIOUS
<1>1. Len(Wave)' \in Nat /\ cursor \in Nat /\ cursor' \in Nat
  <2>1. Active' /\ Where'
    BY DEF Active, IInv
  <2>2. Where /\ Active => Len(Wave) \in Nat
    BY WaveShape
  <2>3. (Where /\ Active)' => (Len(Wave) \in Nat)'
    BY PlanShape, <2>1 DEF Where, Wave
  <2> QED BY <2>1, <2>3 DEF IInv, TypeOK, PlaceOK
<1>2. CASE cursor' = 1
  BY <1>1, <1>2
<1>3. CASE SetUpLane \/ MergeLane
  <2>1. UNCHANGED <<wave, plan>> /\ cursor <= Len(Wave) /\ cursor' = cursor + 1
    BY <1>3 DEF SetUpLane, MergeLane, callVars
  <2>2. Len(Wave)' = Len(Wave)
    BY <2>1 DEF Wave
  <2> QED BY <1>1, <2>1, <2>2
<1>4. CASE UNCHANGED <<pc, wave, plan, cursor>>
  BY <1>4 DEF Wave
<1>5. ~NextWave /\ \A how, S : ~Ends(how, S)
  BY DEF NextWave, Goto, Ends
<1>6. CASE Next
  <2>1. ~SetUpFails /\ ~SetUpDone /\ ~ReturnFlat /\ ~CommitWave /\ ~VerifyPasses
        /\ ~VerifyFails /\ ~VerifyThrows /\ ~CloseWave /\ ~Crash
    BY <1>5 DEF SetUpFails, SetUpDone, ReturnFlat, CommitWave, VerifyPasses, VerifyFails,
         VerifyThrows, CloseWave, Crash, Goto
  <2>2. \A p \in Plans : BeginFlat(p) \/ BeginStaged(p) => cursor' = 1
    BY DEF BeginFlat, BeginStaged, Begin
  <2>3. GateWave \/ LanesSettled => cursor' = 1
    BY DEF GateWave, LanesSettled
  <2>4. StartLane \/ CleanUp \/ (\E l \in Lanes : Lane(l)) => UNCHANGED <<pc, wave, plan, cursor>>
    BY DEF StartLane, CleanUp, Lane, LaneReturns, LaneRejected, HealReturns, waveVars, callVars
  <2> QED BY <1>2, <1>3, <1>4, <1>6, <2>1, <2>2, <2>3, <2>4 DEF Next, Step
<1>7. CASE UNCHANGED vars
  BY <1>4, <1>7 DEF vars, waveVars, callVars
<1> QED BY <1>6, <1>7

(* So a call has only so many steps to take.                               *)
THEOREM CallsStayWithinPlan == Spec => []WithinPlan
<1>1. Init => (pc \in {"setup", "merging"} => cursor <= Len(Wave) + 1)
  BY DEF Init
<1>2. IInv /\ (pc \in {"setup", "merging"} => cursor <= Len(Wave) + 1) => WithinPlan
  BY WaveShape, LaneRemaining DEF IInv, WithinPlan
<1> QED BY <1>1, <1>2, CursorStep, Inductive, PTL DEF Spec

-----------------------------------------------------------------------------
(* What a fan-out promises of its lanes.                                   *)

(* Only staged calls are gated and verified; the lanes of a wave that was  *)
(* fanned in have settled.                                                 *)
Final == {"skipped", "ran", "failed"}
FannedIn == {"merging", "verifying", "closing"}
Past(v) == v < wave \/ (v = wave /\ pc \in FannedIn)
Behind ==
    /\ pc \in {"gating", "verifying", "closing"} => plan.staged
    /\ Active => \A v \in DOMAIN plan.waves : Past(v) =>
                    \A i \in DOMAIN plan.waves[v] : stage[plan.waves[v][i]] \in Final

LEMMA BehindOn ==
  ASSUME IInv, Behind, Active, UNCHANGED <<plan, wave>>,
         \A l \in Lanes : ~InWave(l) => stage'[l] = stage[l],
         pc' \in FannedIn => \A l \in Lanes : InWave(l) => stage'[l] \in Final,
         pc' \in {"gating", "verifying", "closing"} => plan.staged
  PROVE  Behind'
<1>1. plan \in Plans /\ wave \in DOMAIN plan.waves /\ DOMAIN plan.waves \subseteq Nat
  BY PlanShape DEF IInv, Where
<1>2. SUFFICES ASSUME NEW v \in DOMAIN plan.waves, Past(v)', NEW i \in DOMAIN plan.waves[v]
               PROVE  stage'[plan.waves[v][i]] \in Final
  BY DEF Behind
<1>3. plan.waves[v][i] \in Lanes
  BY <1>1, PlanShape
<1>4. CASE v = wave
  <2>1. pc' \in FannedIn
    BY <1>1, <1>2, <1>4 DEF Past
  <2>2. InWave(plan.waves[v][i])
    BY <1>4 DEF InWave, Wave
  <2> QED BY <1>3, <2>1, <2>2
<1>5. CASE v < wave
  <2>1. ~InWave(plan.waves[v][i])
    BY <1>1, <1>5, PlanShape DEF InWave, Wave
  <2>2. stage[plan.waves[v][i]] \in Final
    BY <1>5 DEF Behind, Past
  <2> QED BY <1>3, <2>1, <2>2
<1> QED BY <1>2, <1>4, <1>5 DEF Past

LEMMA BehindNext ==
  ASSUME IInv, Behind, Active, NextWave, plan.staged, UNCHANGED plan,
         \A l \in Lanes : ~InWave(l) => stage'[l] = stage[l],
         \A l \in Lanes : InWave(l) => stage'[l] \in Final
  PROVE  Behind'
<1>1. /\ plan \in Plans /\ wave \in DOMAIN plan.waves /\ DOMAIN plan.waves \subseteq Nat
      /\ wave \in Nat
  BY PlanShape DEF IInv, Where
<1>2. CASE pc' = "over"
  BY <1>2 DEF Behind, Active
<1>3. CASE pc' = "gating" /\ wave' = wave + 1
  <2>1. SUFFICES ASSUME NEW v \in DOMAIN plan.waves, v < wave', NEW i \in DOMAIN plan.waves[v]
                 PROVE  stage'[plan.waves[v][i]] \in Final
    BY <1>1, <1>3 DEF Behind, Past, FannedIn
  <2>2. plan.waves[v][i] \in Lanes
    BY <1>1, PlanShape
  <2>3. CASE v = wave
    BY <2>2, <2>3 DEF InWave, Wave
  <2>4. CASE v < wave
    <3>1. stage[plan.waves[v][i]] \in Final
      BY <2>4 DEF Behind, Past
    <3> QED BY <2>2, <3>1
  <2> QED BY <1>1, <1>3, <2>1, <2>3, <2>4
<1> QED BY <1>2, <1>3 DEF NextWave, Ends, Goto

LEMMA BehindStep == IInv /\ Busy /\ Behind /\ [Next]_vars => Behind'
<1> SUFFICES ASSUME IInv, Busy, Behind, [Next]_vars PROVE Behind'
  OBVIOUS
<1>0. ASSUME pc \in FannedIn PROVE \A l \in Lanes : InWave(l) => stage[l] \in Final
  BY <1>0 DEF Behind, IInv, Where, Past, Active, FannedIn, InWave, Wave
<1>1. ASSUME NEW p \in Plans, BeginFlat(p) \/ BeginStaged(p) PROVE Behind'
  <2>1. plan' = p /\ wave' = 1
    BY <1>1 DEF BeginFlat, BeginStaged, Begin
  <2>2. pc' \in {"setup", "gating", "over"} /\ (pc' = "gating" => p.staged)
    BY <1>1 DEF BeginFlat, BeginStaged, Goto, Ends
  <2>3. \A v \in DOMAIN p.waves : ~(v < 1)
    BY PlanShape
  <2> QED BY <2>1, <2>2, <2>3 DEF Behind, Past, FannedIn
<1>2. CASE GateWave
  <2>1. /\ Active /\ plan.staged /\ UNCHANGED plan
        /\ \A l \in Lanes : ~InWave(l) => stage'[l] = stage[l]
    BY <1>2, GateShape DEF Behind, callVars
  <2>2. CASE NextWave /\ \A l \in Lanes : stage'[l] # "chosen" \/ stage[l] = "chosen"
    <3>1. \A l \in Lanes : InWave(l) => stage'[l] \in Final
      BY <1>2, <2>2, GateShape DEF Final
    <3> QED BY <2>1, <2>2, <3>1, BehindNext
  <2>3. CASE pc' = "setup" /\ UNCHANGED wave
    BY <2>1, <2>3, BehindOn DEF FannedIn
  <2> QED BY <1>2, <2>2, <2>3, GateShape
<1>3. CASE SetUpLane \/ SetUpDone \/ StartLane \/ \E l \in Lanes : Lane(l)
  <2>1. /\ pc \in {"setup", "running"} /\ pc' \in {"setup", "running"}
        /\ UNCHANGED <<plan, wave>>
        /\ \A l \in Lanes : ~InWave(l) => stage'[l] = stage[l]
    BY <1>3, LaneShape DEF callVars
  <2> QED BY <2>1, BehindOn DEF Active, FannedIn
<1>4. CASE LanesSettled
  <2>1. /\ pc = "running" /\ UNCHANGED <<plan, wave, stage>> /\ pc' \in {"merging", "over"}
        /\ \A i \in DOMAIN Wave : stage[Wave[i]] \in Final
    BY <1>4 DEF LanesSettled, laneVars, callVars, Goto, Ends, Final
  <2> QED BY <2>1, BehindOn DEF Active, InWave
<1>5. CASE MergeLane \/ CommitWave \/ VerifyPasses
  <2>1. /\ pc \in FannedIn /\ UNCHANGED <<plan, wave, stage>>
        /\ pc' \in {"verifying", "closing"} => plan.staged
        /\ pc' # "gating"
    BY <1>5 DEF MergeLane, CommitWave, VerifyPasses, laneVars, callVars, waveVars, Goto,
                Behind, FannedIn
  <2> QED BY <1>0, <2>1, BehindOn DEF Active, FannedIn
<1>6. CASE VerifyFails
  <2>1. /\ pc = "verifying" /\ UNCHANGED <<plan, wave>> /\ pc' = "closing"
        /\ \A l \in Lanes : stage'[l] = Relabel(l)
    BY <1>6 DEF VerifyFails, callVars, waveVars, Goto
  <2>2. \A l \in Lanes : stage'[l] = stage[l] \/ (InWave(l) /\ stage'[l] \in Final)
    BY <2>1 DEF Relabel, Final
  <2>3. \A l \in Lanes : InWave(l) => stage'[l] \in Final
    BY <1>0, <2>1, <2>2 DEF FannedIn
  <2> QED BY <2>1, <2>2, <2>3, BehindOn DEF Behind, Active
<1>7. CASE CloseWave
  <2>1. pc = "closing" /\ NextWave /\ UNCHANGED <<plan, stage>>
    BY <1>7 DEF CloseWave, laneVars, callVars
  <2> QED BY <1>0, <2>1, BehindNext DEF Behind, Active, FannedIn
<1>8. CASE SetUpFails \/ ReturnFlat \/ VerifyThrows \/ Crash
  <2>1. pc' = "over"
    BY <1>8 DEF SetUpFails, ReturnFlat, VerifyThrows, Crash, Ends, Goto
  <2> QED BY <2>1 DEF Behind, Active
<1>9. CASE CleanUp \/ UNCHANGED vars
  <2>1. UNCHANGED <<pc, wave, plan, stage>>
    BY <1>9 DEF CleanUp, vars, laneVars, waveVars, callVars
  <2> QED BY <2>1 DEF Behind, Active, Past
<1> QED BY <1>1, <1>2, <1>3, <1>4, <1>5, <1>6, <1>7, <1>8, <1>9 DEF Next, Step

LEMMA FateShape ==
  /\ \A l \in Lanes : Fates[l] = IF stage[l] \in Unsettled THEN "taken" ELSE stage[l]
  /\ \A l \in Lanes : Fates'[l] = IF stage'[l] \in Unsettled THEN "taken" ELSE stage'[l]
  /\ Fates = [l \in Lanes |-> Fates[l]] /\ Fates' = [l \in Lanes |-> Fates'[l]]
BY DEF Fates, Unsettled

(* A dependency of a lane in the wave is of a wave that was fanned in.     *)
LEMMA WaveNeeds ==
  ASSUME IInv, Behind, Active, plan.staged, NEW l \in Lanes, InWave(l),
         NEW d \in Known(l)
  PROVE  d \in Lanes /\ stage[d] \in Final
<1>1. plan \in Plans /\ wave \in DOMAIN plan.waves
  BY DEF IInv, Where
<1>2. PICK i \in DOMAIN plan.waves[wave] : plan.waves[wave][i] = l
  BY DEF InWave, Wave
<1>3. d \in Lanes /\ d \in DependsOn[l]
  BY DEF Known, Planned
<1>4. PICK v \in DOMAIN plan.waves : \E j \in DOMAIN plan.waves[v] : plan.waves[v][j] = d
  BY DEF Known, Planned
<1>5. PICK j \in DOMAIN plan.waves[v] : plan.waves[v][j] = d
  BY <1>4
<1>6. v < wave
  BY <1>1, <1>2, <1>3, <1>5, PlansAssumption DEF WellFormed
<1> QED BY <1>3, <1>5, <1>6 DEF Behind, Past

(* A lane that needs one of the current wave is still to come.             *)
LEMMA NeedersWait ==
  ASSUME IInv, Active, plan.staged, NEW l \in Lanes, InWave(l),
         NEW m \in Planned(plan), l \in Known(m)
  PROVE  stage[m] = "waiting"
<1>1. plan \in Plans /\ wave \in DOMAIN plan.waves
  BY DEF IInv, Where
<1>2. PICK i \in DOMAIN plan.waves[wave] : plan.waves[wave][i] = l
  BY DEF InWave, Wave
<1>3. m \in Lanes /\ l \in DependsOn[m]
  BY DEF Known, Planned
<1>4. PICK v \in DOMAIN plan.waves : \E j \in DOMAIN plan.waves[v] : plan.waves[v][j] = m
  BY DEF Planned
<1>5. PICK j \in DOMAIN plan.waves[v] : plan.waves[v][j] = m
  BY <1>4
<1>6. wave < v
  BY <1>1, <1>2, <1>3, <1>5, PlansAssumption DEF WellFormed
<1>7. v \in Nat /\ wave \in Nat
  BY <1>1, PlanShape
<1> QED BY <1>5, <1>6, <1>7 DEF IInv, Ahead, ToCome

(* In the last wave, once its lanes have settled all of the call's have.   *)
LEMMA AllSettled ==
  ASSUME IInv, Behind, Active, wave = Len(plan.waves),
         \A l \in Lanes : ~InWave(l) => stage'[l] = stage[l],
         \A l \in Lanes : InWave(l) => stage'[l] \in Final
  PROVE  \A l \in Planned(plan) : Fates'[l] \in Final
<1>1. plan \in Plans /\ wave \in DOMAIN plan.waves /\ DOMAIN plan.waves = 1 .. wave
  BY PlanShape DEF IInv, Where
<1>2. SUFFICES ASSUME NEW l \in Planned(plan) PROVE stage'[l] \in Final
  BY FateShape DEF Planned, Final, Unsettled
<1>3. l \in Lanes
  BY DEF Planned
<1>4. PICK v \in DOMAIN plan.waves : \E i \in DOMAIN plan.waves[v] : plan.waves[v][i] = l
  BY DEF Planned
<1>5. CASE v = wave
  BY <1>3, <1>4, <1>5 DEF InWave, Wave
<1>6. CASE v < wave
  <2>1. stage[l] \in Final
    BY <1>4, <1>6 DEF Behind, Past
  <2>2. ~InWave(l)
    BY <1>1, <1>4, <1>6, PlanShape DEF InWave, Wave
  <2> QED BY <1>3, <2>1, <2>2
<1> QED BY <1>1, <1>4, <1>5, <1>6, PlanShape

LEMMA CallMaps ==
  ASSUME NEW p \in Plans, BeginFlat(p) \/ BeginStaged(p)
  PROVE  Dag!Next
<1>1. /\ plan' = p /\ ~Active
      /\ stage' = [l \in Lanes |-> IF ~p.staged /\ l \in Planned(p)
                                   THEN "chosen" ELSE "waiting"]
  BY DEF BeginFlat, BeginStaged, Begin
<1>2. Fates' = [l \in Lanes |-> IF ~p.staged /\ l \in Planned(p)
                                THEN "taken" ELSE "waiting"]
  BY <1>1 DEF Fates
<1>3. CallStatus # "open"
  BY <1>1 DEF CallStatus
<1>4. CallStatus' = "open" \/ (p.staged /\ CallStatus' = "dropped")
  BY DEF BeginFlat, BeginStaged, Goto, Ends, Refusal, CallStatus, Active
<1>5. p.staged \in BOOLEAN
  BY PlanShape DEF PlanType
<1>6. Planned(p) \in SUBSET Lanes /\ Planned(plan)' = Planned(p)
  BY <1>1 DEF Planned
<1>7. Dag!Call(Planned(p), p.staged)
  BY <1>1, <1>2, <1>3, <1>4, <1>6 DEF Dag!Call
<1> QED BY <1>5, <1>6, <1>7 DEF Dag!Next

LEMMA GateMaps ==
  ASSUME IInv, Behind, Contents, GateWave
  PROVE  Dag!Next
<1> DEFINE S == {l \in Lanes : InWave(l)}
<1>1. /\ Active /\ plan.staged /\ UNCHANGED plan /\ ended = "none"
      /\ \A l \in S : stage[l] = "waiting"
      /\ \A l \in S : stage'[l] = (IF ShouldRun(l) THEN "chosen" ELSE "skipped")
      /\ \A l \in Lanes \ S : stage'[l] = stage[l]
  BY GateShape DEF Behind, Contents, callVars
<1>2. S \subseteq Planned(plan) /\ S \in SUBSET Lanes
  BY <1>1 DEF Planned, IInv, Where, InWave, Wave
<1>3. ASSUME NEW l \in S
      PROVE  /\ Dag!Needs(l) = Known(l)
             /\ \A d \in Known(l) : Fates[d] = stage[d] /\ Fates[d] \in Final
  BY <1>1, WaveNeeds, FateShape DEF Dag!Needs, Known, Final, Unsettled
<1>4. ASSUME NEW l \in S PROVE Dag!Holds(l) <=> ShouldRun(l)
  <2>1. When[l] \in Conditions
    BY LanesAssumption
  <2> QED BY <1>3, <2>1 DEF Dag!Holds, ShouldRun, Succeeded, Conditions
<1>5. \A l \in S : Fates[l] = "waiting" /\ \A d \in Dag!Needs(l) : Fates[d] \in Dag!Settled
  BY <1>1, <1>3, FateShape DEF Final, Dag!Settled, Unsettled
<1>6. Fates' = [l \in Lanes |-> IF l \notin S THEN Fates[l]
                                ELSE IF Dag!Holds(l) THEN "taken" ELSE "skipped"]
  <2>1. \A l \in Lanes : Fates'[l] = IF l \notin S THEN Fates[l]
                                ELSE IF Dag!Holds(l) THEN "taken" ELSE "skipped"
    BY <1>1, <1>4, FateShape DEF Unsettled
  <2> QED BY <2>1, FateShape
<1>7. \/ CallStatus' = CallStatus
      \/ CallStatus' = "returned" /\ \A l \in Planned(plan) : Fates'[l] \in Dag!Settled
  <2>1. CASE pc' \in {"setup", "gating"}
    BY <1>1, <2>1 DEF CallStatus, Active
  <2>2. CASE pc' = "over"
    <3>1. NextWave /\ \A l \in S : stage'[l] \in Final
      BY <1>1, <2>2, GateShape DEF Final
    <3>2. wave = Len(plan.waves) /\ CallStatus' = "returned"
      BY <2>2, <3>1 DEF NextWave, Ends, Goto, CallStatus, Active
    <3> QED BY <1>1, <3>1, <3>2, AllSettled DEF Final, Dag!Settled
  <2> QED BY <2>1, <2>2, GateShape DEF NextWave, Ends, Goto
<1>8. CallStatus = "open" /\ Planned(plan)' = Planned(plan) /\ plan'.staged = plan.staged
  BY <1>1 DEF CallStatus, Planned
<1> HIDE DEF S
<1>9. Dag!TakeUp(S)
  BY <1>1, <1>2, <1>5, <1>6, <1>7, <1>8 DEF Dag!TakeUp
<1> QED BY <1>2, <1>9 DEF Dag!Next

LEMMA SettleMaps ==
  ASSUME IInv, NEW l \in Lanes, Lane(l)
  PROVE  Dag!Next \/ UNCHANGED <<CallStatus, plan, Fates>>
<1>1. /\ Active /\ Active' /\ UNCHANGED plan
      /\ stage[l] \in Unsettled
  BY DEF Lane, LaneReturns, LaneRejected, HealReturns, Active, callVars, Unsettled
<1>2. stage \in [Lanes -> Fate]
  BY DEF IInv, TypeOK, LanesOK
<1>3. CASE \E f \in {"ran", "failed"} : stage' = [stage EXCEPT ![l] = f]
  <2>1. PICK f \in {"ran", "failed"} : stage' = [stage EXCEPT ![l] = f]
    BY <1>3
  <2>2. \A k \in Lanes : Fates'[k] = IF k = l THEN f ELSE Fates[k]
    BY <1>2, <2>1, FateShape DEF Unsettled
  <2>3. Fates' = [Fates EXCEPT ![l] = f] /\ Fates[l] = "taken"
    BY <1>1, <2>2, FateShape
  <2>4. CallStatus = "open" /\ CallStatus' = "open" /\ Planned(plan)' = Planned(plan)
    BY <1>1 DEF CallStatus, Planned
  <2>5. Dag!Settle(l)
    BY <1>1, <2>3, <2>4 DEF Dag!Settle
  <2> QED BY <2>5 DEF Dag!Next
<1>4. CASE \E s \in Unsettled : stage' = [stage EXCEPT ![l] = s]
  <2>1. \A k \in Lanes : Fates'[k] = Fates[k]
    BY <1>1, <1>2, <1>4, FateShape DEF Unsettled
  <2> QED BY <1>1, <2>1, FateShape DEF CallStatus
<1> QED BY <1>3, <1>4 DEF Lane, LaneReturns, LaneRejected, HealReturns, Settle, Unsettled

LEMMA UndoMaps ==
  ASSUME IInv, Behind, VerifyFails
  PROVE  Dag!Next
<1> DEFINE S == {l \in Lanes : InWave(l) /\ Contributes(l) /\ l \notin conflicts}
<1>1. /\ Active /\ Active' /\ plan.staged /\ UNCHANGED plan
      /\ \A l \in Lanes : stage'[l] = IF l \in S THEN "failed" ELSE stage[l]
  BY DEF VerifyFails, Relabel, Active, Goto, callVars, Behind
<1>2. \A l \in S : Fates[l] = "ran"
  BY FateShape DEF Contributes, Unsettled
<1>3. ASSUME NEW m \in Planned(plan), Dag!Needs(m) \cap S # {}
      PROVE  Fates[m] = "waiting"
  <2>1. PICK l \in S : l \in Known(m)
    BY <1>3 DEF Dag!Needs, Known
  <2>2. stage[m] = "waiting" /\ m \in Lanes
    BY <1>1, <2>1, NeedersWait DEF Planned
  <2> QED BY <2>2, FateShape DEF Unsettled
<1>4. Fates' = [l \in Lanes |-> IF l \in S THEN "failed" ELSE Fates[l]]
  <2>1. \A l \in Lanes : Fates'[l] = IF l \in S THEN "failed" ELSE Fates[l]
    BY <1>1, FateShape DEF Unsettled
  <2> QED BY <2>1, FateShape
<1>5. CallStatus = "open" /\ CallStatus' = "open" /\ Planned(plan)' = Planned(plan)
  BY <1>1 DEF CallStatus, Planned
<1>6. S \in SUBSET Lanes
  OBVIOUS
<1> HIDE DEF S
<1>7. Dag!Undo(S)
  BY <1>1, <1>2, <1>3, <1>4, <1>5 DEF Dag!Undo
<1> QED BY <1>6, <1>7 DEF Dag!Next

(* Steps of the call that its lanes do not show.                           *)
LEMMA QuietMaps ==
  ASSUME IInv, Contents, UNCHANGED <<plan, stage>>,
         \/ Active /\ Active'
         \/ UNCHANGED <<pc, ended>>
         \/ Active /\ pc' = "over" /\ ended' \in {"taken", "git", "gate", "crash"}
         \/ /\ Active /\ pc' = "over" /\ ended' = "returned"
            /\ \A l \in Planned(plan) : Fates'[l] \in Final
  PROVE  Dag!Next \/ UNCHANGED <<CallStatus, plan, Fates>>
<1>1. Fates' = Fates /\ Planned(plan)' = Planned(plan)
  BY DEF Fates, Planned
<1>2. CASE (Active /\ Active') \/ UNCHANGED <<pc, ended>>
  BY <1>1, <1>2 DEF CallStatus, Active
<1>3. CASE Active /\ pc' = "over" /\ ended' \in {"taken", "git", "gate", "crash"}
  <2>1. CallStatus = "open" /\ CallStatus' = "dropped"
    BY <1>3 DEF CallStatus, Active
  <2>2. Dag!Drop
    BY <1>1, <2>1 DEF Dag!Drop
  <2> QED BY <2>2 DEF Dag!Next
<1>4. CASE /\ Active /\ pc' = "over" /\ ended' = "returned"
           /\ \A l \in Planned(plan) : Fates'[l] \in Final
  <2>1. CallStatus = "open" /\ CallStatus' = "returned"
    BY <1>4 DEF CallStatus, Active
  <2>2. Dag!Return
    BY <1>1, <1>4, <2>1 DEF Dag!Return, Dag!Settled, Final
  <2> QED BY <2>2 DEF Dag!Next
<1> QED BY <1>2, <1>3, <1>4

LEMMA StepMaps ==
  IInv /\ Contents /\ Behind /\ [Next]_vars
    => Dag!Next \/ UNCHANGED <<CallStatus, plan, Fates>>
<1> SUFFICES ASSUME IInv, Contents, Behind, [Next]_vars
             PROVE  Dag!Next \/ UNCHANGED <<CallStatus, plan, Fates>>
  OBVIOUS
<1>0. pc \in FannedIn => \A l \in Lanes : InWave(l) => stage[l] \in Final
  BY DEF Behind, IInv, Where, Past, Active, FannedIn, InWave, Wave
<1>1. CASE \E p \in Plans : BeginFlat(p) \/ BeginStaged(p)
  BY <1>1, CallMaps
<1>2. CASE GateWave
  BY <1>2, GateMaps
<1>3. CASE SetUpLane
  <2>1. Active /\ Active' /\ UNCHANGED plan
    BY <1>3 DEF SetUpLane, Active, callVars
  <2>2. stage \in [Lanes -> Fate]
    BY DEF IInv, TypeOK, LanesOK
  <2>3. \A l \in Lanes : Fates'[l] = Fates[l]
    BY <1>3, <2>2, FateShape DEF SetUpLane, Unsettled
  <2> QED BY <2>1, <2>3, FateShape DEF CallStatus
<1>4. CASE StartLane
  <2>1. Active /\ Active' /\ UNCHANGED plan
    BY <1>4 DEF StartLane, Active, callVars
  <2>2. stage \in [Lanes -> Fate]
    BY DEF IInv, TypeOK, LanesOK
  <2>3. \A l \in Lanes : Fates'[l] = Fates[l]
    BY <1>4, <2>2, FateShape DEF StartLane, Unsettled
  <2> QED BY <2>1, <2>3, FateShape DEF CallStatus
<1>5. CASE \E l \in Lanes : Lane(l)
  BY <1>5, SettleMaps
<1>6. CASE VerifyFails
  BY <1>6, UndoMaps
<1>7. CASE SetUpDone \/ MergeLane \/ CommitWave \/ VerifyPasses
  <2>1. Active /\ Active' /\ UNCHANGED <<plan, stage>>
    BY <1>7 DEF SetUpDone, MergeLane, CommitWave, VerifyPasses, Active, Goto, laneVars,
                callVars
  <2> QED BY <2>1, QuietMaps
<1>8. CASE SetUpFails \/ VerifyThrows \/ Crash
  <2>1. /\ Active /\ UNCHANGED <<plan, stage>> /\ pc' = "over"
        /\ ended' \in {"taken", "git", "gate", "crash"}
    BY <1>8 DEF SetUpFails, VerifyThrows, Crash, Active, Ends, Goto, Refusal, laneVars,
                callVars
  <2> QED BY <2>1, QuietMaps
<1>9. CASE LanesSettled
  <2>1. /\ Active /\ UNCHANGED <<plan, stage>>
        /\ \/ Active'
           \/ pc' = "over" /\ ended' \in {"taken", "git"}
    BY <1>9 DEF LanesSettled, Active, Ends, Goto, Refusal, laneVars, callVars
  <2> QED BY <2>1, QuietMaps
<1>10. CASE ReturnFlat
  <2>1. /\ Active /\ pc \in FannedIn /\ ~plan.staged /\ UNCHANGED <<plan, stage>>
        /\ pc' = "over" /\ ended' = "returned"
    BY <1>10 DEF ReturnFlat, Active, Ends, Goto, FannedIn, laneVars, callVars
  <2>2. wave = Len(plan.waves)
    <3>1. plan \in Plans /\ wave \in DOMAIN plan.waves
      BY <2>1 DEF IInv, Where
    <3>2. Len(plan.waves) = 1 /\ DOMAIN plan.waves = 1 .. 1
      BY <2>1, <3>1, PlanShape
    <3> QED BY <3>1, <3>2
  <2>3. \A l \in Planned(plan) : Fates'[l] \in Final
    BY <1>0, <2>1, <2>2, AllSettled
  <2> QED BY <2>1, <2>3, QuietMaps
<1>11. CASE CloseWave
  <2>1. Active /\ pc \in FannedIn /\ UNCHANGED <<plan, stage>> /\ NextWave
    BY <1>11 DEF CloseWave, Active, FannedIn, laneVars, callVars
  <2>2. CASE pc' = "gating"
    BY <2>1, <2>2, QuietMaps DEF Active
  <2>3. CASE wave = Len(plan.waves) /\ pc' = "over" /\ ended' = "returned"
    <3>1. \A l \in Planned(plan) : Fates'[l] \in Final
      BY <1>0, <2>1, <2>3, AllSettled
    <3> QED BY <2>1, <2>3, <3>1, QuietMaps
  <2> QED BY <2>1, <2>2, <2>3 DEF NextWave, Ends, Goto
<1>12. CASE CleanUp \/ UNCHANGED vars
  <2>1. UNCHANGED <<pc, ended, plan, stage>>
    BY <1>12 DEF CleanUp, vars, laneVars, callVars, endVars
  <2> QED BY <2>1, QuietMaps
<1> QED BY <1>1, <1>2, <1>3, <1>4, <1>5, <1>6, <1>7, <1>8, <1>9, <1>10, <1>11, <1>12
        DEF Next, Step

(* The executors implement LaneDag: whatever the pool, the worktrees, the  *)
(* retries, the heals, the merges and the gate do, a lane is taken up once *)
(* its dependencies have settled and under its condition, settles once,    *)
(* loses its result only before anything was built on it, and has settled  *)
(* when the call returns.                                                  *)
THEOREM SwarmImplementsDag == Spec => LanesAreDriven
<1>1. Init => Dag!Init
  <2> SUFFICES ASSUME Init PROVE Dag!Init
    OBVIOUS
  <2>1. CallStatus = "none" /\ plan.staged = FALSE /\ Planned(plan) = {}
    BY DEF Init, CallStatus, Active, Planned
  <2>2. Fates = [l \in Lanes |-> "waiting"]
    BY DEF Init, Fates
  <2> QED BY <2>1, <2>2 DEF Dag!Init
<1>2. Init => Behind
  BY DEF Init, Behind, Active
<1>3. SwarmInv /\ Behind /\ [Next]_vars => Behind'
  BY BehindStep DEF SwarmInv
<1>4. SwarmInv /\ Behind /\ [Next]_vars => [Dag!Next]_(Dag!vars)
  <2> SUFFICES ASSUME SwarmInv, Behind, [Next]_vars PROVE [Dag!Next]_(Dag!vars)
    OBVIOUS
  <2>1. Dag!Next \/ UNCHANGED <<CallStatus, plan, Fates>>
    BY StepMaps DEF SwarmInv
  <2>2. UNCHANGED <<CallStatus, plan, Fates>> => UNCHANGED Dag!vars
    BY DEF Dag!vars, Planned
  <2> QED BY <2>1, <2>2
<1> QED BY <1>1, <1>2, <1>3, <1>4, SwarmInductive, PTL DEF Spec, LanesAreDriven, Dag!Spec

=============================================================================
