-------------------------- MODULE SwarmFlowProofs --------------------------
(***************************************************************************)
(* Theorems about SwarmFlow for every set of lanes, dependencies, budget   *)
(* and bound: type correctness, the bound on what an orchestration spends, *)
(* what a lane that is not run again may be trusted for, what a resume     *)
(* runs again, and how the lanes of a call take turns and get on.          *)
(*                                                                         *)
(* SpendBound is inductive with the pool's own bound: a lane that works    *)
(* holds a place in the pool.  ReusedIsSound needs to know, of a lane that *)
(* the manifest calls done, that it has landed, or is about to land, or is *)
(* known not to have.                                                      *)
(***************************************************************************)
EXTENDS SwarmFlow, FiniteSetTheorems, TLAPS

PoolBound == Cardinality(Busy) <= MaxConcurrency

DoneIsKnown ==
  \A l \in Lanes : manifest[l] = "done" =>
     /\ pc # "running"
     /\ l \in tree \cup unlanded \/ (pc = "fanned" /\ l \in Merged)

LanesIn == \A l \in sub : lane[l] # "out"

IInv == TypeOK /\ LanesIn /\ PoolBound /\ SpendBound /\ DoneIsKnown /\ ReusedIsSound

-----------------------------------------------------------------------------
(* The operators.                                                          *)

LEMMA Finite ==
  /\ IsFiniteSet(Busy) /\ IsFiniteSet(Working)
  /\ Cardinality(Busy) \in Nat /\ Cardinality(Working) \in Nat
  /\ Cardinality(Working) <= Cardinality(Busy)
<1>1. Busy \subseteq Lanes /\ Working \subseteq Busy
  BY DEF Busy, Working
<1>2. IsFiniteSet(Lanes)
  BY FlowAssumption
<1>3. IsFiniteSet(Busy) /\ Cardinality(Busy) \in Nat
  BY <1>1, <1>2, FS_Subset, FS_CardinalityType
<1>4. IsFiniteSet(Working) /\ Cardinality(Working) <= Cardinality(Busy)
  BY <1>1, <1>3, FS_Subset
<1> QED
  BY <1>3, <1>4, FS_CardinalityType

LEMMA Monotone ==
  ASSUME NEW m \in Nat, NEW x \in Nat, NEW y \in Nat, x <= y
  PROVE  m * x <= m * y
<1>1. PICK d \in Nat : y = x + d
  <2>1. y - x \in Nat /\ y = x + (y - x)
    OBVIOUS
  <2> QED BY <2>1
<1>2. m * y = m * x + m * d
  BY <1>1
<1>3. m * d \in Nat /\ m * x \in Nat
  OBVIOUS
<1> QED BY <1>2, <1>3

(* No lane that must run again is left out, nor one that uses its work.    *)
LEMMA RerunClosed ==
  ASSUME NEW E \in SUBSET Lanes
  PROVE  /\ Rerun(E) \subseteq Lanes
         /\ \A l \in Listed \ Rerun(E) : manifest[l] = "done" /\ DependsOn[l] \cap Rerun(E) = {}
<1> DEFINE S == {l \in Listed : manifest[l] # "done"} \cup E
<1>1. Rerun(E) \subseteq Lanes
  BY DEF Rerun, WithDependents
<1>2. ASSUME NEW l \in Listed, l \notin Rerun(E)
      PROVE  manifest[l] = "done"
  BY <1>2 DEF Rerun, WithDependents, Listed
<1>3. ASSUME NEW l \in Listed, NEW d \in DependsOn[l], d \in Rerun(E)
      PROVE  l \in Rerun(E)
  <2>1. l \in Lanes
    BY DEF Listed
  <2>2. ASSUME NEW T \in SUBSET Lanes, S \subseteq T, Closed(T)
        PROVE  l \in T
    <3>1. d \in T
      BY <1>3, <2>2 DEF Rerun, WithDependents
    <3> QED BY <3>1, <2>2, <1>3 DEF Closed
  <2> QED BY <2>1, <2>2 DEF Rerun, WithDependents
<1> QED BY <1>1, <1>2, <1>3

-----------------------------------------------------------------------------
(* Where a call begins or ends.                                            *)

LEMMA BeginKeeps ==
  ASSUME TypeOK, NEW S \in SUBSET Lanes, NEW kept \in SUBSET Lanes, NEW retry \in BOOLEAN,
         Begin(S, kept, retry),
         \A l \in kept : DependsOn[l] \cap S = {} /\ l \in tree \cup unlanded
  PROVE  IInv'
<1> USE DEF Begin, Calm
<1>1. TypeOK'
  <2>1. calls' \in 0 .. MaxCalls /\ writes' \in 0 .. MaxWrites
    BY FlowAssumption DEF TypeOK
  <2>2. 0 \in 0 .. MaxAttempts - 1
    BY FlowAssumption
  <2>3. control' \in Flags /\ patched' \in [Controllers -> Flags]
    BY DEF Flags, Absent
  <2> QED BY <2>1, <2>2, <2>3 DEF TypeOK, Stages, Outcomes
<1>2. Busy' = {} /\ Working' = {}
  BY DEF Busy, Working
<1>3. PoolBound' /\ SpendBound'
  BY <1>2, FS_EmptySet, FlowAssumption DEF PoolBound, SpendBound
<1>4. DoneIsKnown' /\ ReusedIsSound' /\ LanesIn'
  BY DEF DoneIsKnown, ReusedIsSound, LanesIn
<1> QED BY <1>1, <1>3, <1>4 DEF IInv

LEMMA EndKeeps ==
  ASSUME IInv, End, tree' \in SUBSET Lanes, unlanded' \in SUBSET Lanes,
         \A l \in Lanes : manifest[l] = "done" => l \in tree' \cup unlanded'
  PROVE  IInv'
<1> USE DEF End, Calm
<1>1. TypeOK'
  <2>1. 0 \in 0 .. MaxAttempts - 1
    BY FlowAssumption
  <2> QED BY <2>1 DEF IInv, TypeOK, Stages, records, file
<1>2. Busy' = {} /\ Working' = {}
  BY DEF Busy, Working
<1>3. PoolBound' /\ SpendBound'
  BY <1>2, FS_EmptySet, FlowAssumption DEF PoolBound, SpendBound
<1>4. DoneIsKnown' /\ ReusedIsSound' /\ LanesIn'
  BY DEF DoneIsKnown, ReusedIsSound, LanesIn
<1> QED BY <1>1, <1>3, <1>4 DEF IInv

(* Steps that move no lane.                                                *)
LEMMA PoolUnmoved ==
  ASSUME IInv, UNCHANGED <<sub, lane, spent>>
  PROVE  LanesIn' /\ PoolBound' /\ SpendBound'
<1>1. Busy' = Busy /\ Working' = Working
  BY DEF Busy, Working
<1> QED BY <1>1 DEF IInv, LanesIn, PoolBound, SpendBound

(* Steps of a call that runs and leave what landed alone.                  *)
LEMMA ClaimsUnmoved ==
  ASSUME IInv, pc = "running", UNCHANGED <<pc, sub, manifest, reused, tree, unlanded>>
  PROVE  DoneIsKnown' /\ ReusedIsSound'
BY DEF IInv, DoneIsKnown, ReusedIsSound

-----------------------------------------------------------------------------
(* The pool and the ledger.                                                *)

LEMMA Leaves ==
  ASSUME IInv, NEW l \in Busy, NEW to \in Stages \ {"working", "out"},
         UNCHANGED <<sub, spent>>, lane' = [lane EXCEPT ![l] = to]
  PROVE  LanesIn' /\ PoolBound' /\ SpendBound'
<1>1. Busy' \subseteq Busy /\ Working' \subseteq Working
  BY DEF Busy, Working, IInv, TypeOK
<1>2. /\ Cardinality(Busy') <= Cardinality(Busy) /\ Cardinality(Busy') \in Nat
      /\ Cardinality(Working') <= Cardinality(Working) /\ Cardinality(Working') \in Nat
  BY <1>1, Finite, FS_Subset, FS_CardinalityType
<1>3. PoolBound'
  BY <1>2, Finite, FlowAssumption DEF IInv, PoolBound
<1>4. SpendBound'
  <2>1. MaxCost * Cardinality(Working') <= MaxCost * Cardinality(Working)
    BY <1>2, Finite, Monotone, FlowAssumption
  <2>2. /\ MaxCost * Cardinality(Working') \in Nat /\ MaxCost * Cardinality(Working) \in Nat
        /\ MaxCost * MaxConcurrency \in Nat
    BY <1>2, Finite, FlowAssumption
  <2> QED BY <2>1, <2>2, FlowAssumption DEF IInv, TypeOK, SpendBound
<1>5. LanesIn'
  BY DEF IInv, LanesIn, TypeOK
<1> QED BY <1>3, <1>4, <1>5

LEMMA Enters ==
  ASSUME IInv, NEW l \in Lanes, NEW to \in {"held", "working", "returned"},
         l \in Busy \/ Cardinality(Busy) < MaxConcurrency,
         to = "working" => ~Exceeded,
         UNCHANGED <<sub, spent>>, lane' = [lane EXCEPT ![l] = to]
  PROVE  LanesIn' /\ PoolBound' /\ SpendBound'
<1>1. Busy' = Busy \cup {l} /\ Working' \subseteq Busy'
  BY DEF Busy, Working, IInv, TypeOK
<1>2. /\ IsFiniteSet(Busy') /\ Cardinality(Busy') \in Nat
      /\ Cardinality(Busy') <= MaxConcurrency
  <2>1. /\ IsFiniteSet(Busy \cup {l})
        /\ Cardinality(Busy \cup {l}) = IF l \in Busy THEN Cardinality(Busy)
                                                      ELSE Cardinality(Busy) + 1
    BY Finite, FS_AddElement
  <2> QED BY <1>1, <2>1, Finite, FlowAssumption DEF IInv, PoolBound
<1>3. Cardinality(Working') \in Nat /\ Cardinality(Working') <= Cardinality(Busy')
  BY <1>1, <1>2, FS_Subset, FS_CardinalityType
<1>4. SpendBound'
  <2>1. CASE to = "working"
    <3>1. MaxCost * Cardinality(Working') <= MaxCost * MaxConcurrency
      <4>1. Cardinality(Working') <= MaxConcurrency
        BY <1>2, <1>3, FlowAssumption
      <4> QED BY <4>1, <1>3, Monotone, FlowAssumption
    <3>2. MaxCost * Cardinality(Working') \in Nat /\ MaxCost * MaxConcurrency \in Nat
      BY <1>3, FlowAssumption
    <3>3. Cap # NoCap => spent < Cap
      BY <2>1, FlowAssumption DEF Exceeded, IInv, TypeOK
    <3> QED BY <3>1, <3>2, <3>3, FlowAssumption DEF IInv, TypeOK, SpendBound
  <2>2. CASE to # "working"
    <3>1. Working' \subseteq Working
      BY <2>2 DEF Working, IInv, TypeOK
    <3>2. Cardinality(Working') <= Cardinality(Working)
      BY <3>1, Finite, FS_Subset
    <3>3. MaxCost * Cardinality(Working') <= MaxCost * Cardinality(Working)
      BY <3>2, <1>3, Finite, Monotone, FlowAssumption
    <3>4. /\ MaxCost * Cardinality(Working') \in Nat
          /\ MaxCost * Cardinality(Working) \in Nat /\ MaxCost * MaxConcurrency \in Nat
      BY <1>3, Finite, FlowAssumption
    <3> QED BY <3>3, <3>4, FlowAssumption DEF IInv, TypeOK, SpendBound
  <2> QED BY <2>1, <2>2
<1>5. LanesIn'
  BY DEF IInv, LanesIn, TypeOK
<1> QED BY <1>2, <1>4, <1>5 DEF PoolBound

LEMMA Pays ==
  ASSUME IInv, NEW l \in Working, NEW cost \in 0 .. MaxCost, NEW to \in {"returned", "threw"},
         UNCHANGED sub, lane' = [lane EXCEPT ![l] = to], spent' = spent + cost
  PROVE  LanesIn' /\ PoolBound' /\ SpendBound'
<1>1. Busy' = Busy /\ Working' = Working \ {l}
  BY DEF Busy, Working, IInv, TypeOK
<1>2. Cardinality(Working') = Cardinality(Working) - 1 /\ Cardinality(Working') \in Nat
  <2>1. IsFiniteSet(Working \ {l}) /\ Cardinality(Working \ {l}) = Cardinality(Working) - 1
    BY Finite, FS_RemoveElement
  <2> QED BY <1>1, <2>1, FS_CardinalityType
<1>3. MaxCost * Cardinality(Working) = MaxCost * Cardinality(Working') + MaxCost
  <2>1. Cardinality(Working) = Cardinality(Working') + 1
    BY <1>2, Finite
  <2> QED BY <2>1, <1>2, FlowAssumption
<1>4. /\ MaxCost * Cardinality(Working') \in Nat /\ MaxCost * MaxConcurrency \in Nat
      /\ cost \in Nat /\ cost <= MaxCost
  BY <1>2, FlowAssumption
<1>5. SpendBound'
  BY <1>3, <1>4, FlowAssumption DEF IInv, TypeOK, SpendBound
<1>6. LanesIn'
  BY DEF IInv, LanesIn, TypeOK
<1> QED BY <1>1, <1>5, <1>6 DEF IInv, PoolBound

-----------------------------------------------------------------------------
(* The steps of a lane.                                                    *)

LEMMA KnownType ==
  ASSUME TypeOK, NEW l \in Lanes
  PROVE  /\ Known(l) \in [Lanes -> {"none", "running", "cancelled", "completed", "failed"}]
         /\ [Known(l) EXCEPT ![l] = "cancelled"]
              \in [Lanes -> {"none", "running", "cancelled", "completed", "failed"}]
BY DEF Known, TypeOK

LEMMA PassTypes ==
  ASSUME TypeOK, NEW l \in Lanes, Pass(l)
  PROVE  /\ lane' \in [Lanes -> Stages]
         /\ child' \in [Lanes -> {"none", "running", "cancelled", "completed", "failed"}]
BY KnownType DEF Pass, TypeOK, Stages

LEMMA EnterGateKeeps ==
  ASSUME IInv, NEW l \in Lanes, EnterGate(l)
  PROVE  IInv'
<1> USE DEF EnterGate, file, outcome
<1>1. TypeOK'
  <2>1. CASE Paused /\ ~aborted
    <3>1. Hold(l)
      BY <2>1
    <3>2. lane' \in [Lanes -> Stages]
      BY <3>1 DEF Hold, IInv, TypeOK, Stages
    <3>3. child' \in [Lanes -> {"none", "running", "cancelled", "completed", "failed"}]
      BY <3>1, KnownType DEF Hold, IInv
    <3>4. parent' \in {"none", "running", "waiting_approval", "completed", "failed"}
          /\ notified' \in BOOLEAN
      BY <3>1 DEF Hold, IInv, TypeOK
    <3> QED BY <3>2, <3>3, <3>4 DEF IInv, TypeOK
  <2>2. CASE ~(Paused /\ ~aborted)
    <3>1. Pass(l) /\ UNCHANGED <<notified, parent>>
      BY <2>2
    <3> QED BY <3>1, PassTypes DEF IInv, TypeOK
  <2> QED BY <2>1, <2>2
<1>2. PICK to \in {"held", "working", "returned"} :
        lane' = [lane EXCEPT ![l] = to] /\ (to = "working" => ~Exceeded)
  BY DEF Hold, Pass, Works
<1>3. l \in Busy \/ Cardinality(Busy) < MaxConcurrency
  BY DEF Busy
<1>4. LanesIn' /\ PoolBound' /\ SpendBound'
  BY <1>2, <1>3, Enters
<1> QED BY <1>1, <1>4, ClaimsUnmoved DEF IInv

LEMMA ReleaseKeeps ==
  ASSUME IInv, NEW l \in Lanes, Release(l)
  PROVE  IInv'
<1> USE DEF Release, file, outcome
<1>1. TypeOK'
  BY PassTypes DEF IInv, TypeOK
<1>2. PICK to \in {"held", "working", "returned"} :
        lane' = [lane EXCEPT ![l] = to] /\ (to = "working" => ~Exceeded)
  BY DEF Pass, Works
<1>3. l \in Busy
  BY DEF Busy
<1>4. LanesIn' /\ PoolBound' /\ SpendBound'
  BY <1>2, <1>3, Enters
<1> QED BY <1>1, <1>4, ClaimsUnmoved DEF IInv

LEMMA LaneReturnsKeeps ==
  ASSUME IInv, NEW l \in Lanes, LaneReturns(l)
  PROVE  IInv'
<1> USE DEF LaneReturns, file, outcome, records, history
<1>1. TypeOK'
  <2>1. spent' \in Nat
    BY FlowAssumption DEF IInv, TypeOK
  <2>2. lane' \in [Lanes -> Stages]
    BY DEF IInv, TypeOK, Stages
  <2>3. dirty' \in [Lanes -> BOOLEAN]
    BY Zenon DEF IInv, TypeOK
  <2> QED BY <2>1, <2>2, <2>3 DEF IInv, TypeOK
<1>2. l \in Working
  BY DEF Working
<1>3. PICK cost \in 0 .. MaxCost : spent' = spent + cost
  OBVIOUS
<1>4. PICK to \in {"returned", "threw"} : lane' = [lane EXCEPT ![l] = to]
  OBVIOUS
<1>5. LanesIn' /\ PoolBound' /\ SpendBound'
  BY <1>2, <1>3, <1>4, Pays
<1> QED BY <1>1, <1>5, ClaimsUnmoved DEF IInv

LEMMA LanePassesKeeps ==
  ASSUME IInv, NEW l \in Lanes, LanePasses(l)
  PROVE  IInv'
<1> USE DEF LanePasses, file, outcome, records, history
<1>1. TypeOK'
  <2>1. 0 \in 0 .. MaxAttempts - 1
    BY FlowAssumption
  <2> QED BY <2>1 DEF IInv, TypeOK, Stages
<1>2. l \in Busy /\ "ok" \in Stages \ {"working", "out"}
  BY DEF Busy, Stages
<1>3. LanesIn' /\ PoolBound' /\ SpendBound'
  BY <1>2, Leaves
<1> QED BY <1>1, <1>3, ClaimsUnmoved DEF IInv

LEMMA LaneRejectedKeeps ==
  ASSUME IInv, NEW l \in Lanes, LaneRejected(l)
  PROVE  IInv'
<1> USE DEF LaneRejected, file, outcome, records, history
<1>1. PICK to \in {"again", "failed"} : lane' = [lane EXCEPT ![l] = to]
  OBVIOUS
<1>2. TypeOK'
  <2>1. tries' \in [Lanes -> 0 .. MaxAttempts - 1]
    BY FlowAssumption DEF IInv, TypeOK, MayRetry
  <2>2. lane' \in [Lanes -> Stages]
    BY <1>1 DEF IInv, TypeOK, Stages
  <2>3. healing' \in [Lanes -> BOOLEAN] /\ dirty' \in [Lanes -> BOOLEAN]
    BY Zenon DEF IInv, TypeOK
  <2> QED BY <2>1, <2>2, <2>3 DEF IInv, TypeOK
<1>3. l \in Busy /\ to \in Stages \ {"working", "out"}
  BY DEF Busy, Stages
<1>4. LanesIn' /\ PoolBound' /\ SpendBound'
  BY <1>1, <1>3, Leaves
<1> QED BY <1>2, <1>4, ClaimsUnmoved DEF IInv

-----------------------------------------------------------------------------
(* The steps of a call, and those of the controllers.                      *)

(* Before, nothing the newest manifest calls done is unaccounted for.      *)
LEMMA DoneAtRest ==
  ASSUME IInv, pc \in {"idle", "testing", "offer"}
  PROVE  \A l \in Lanes : manifest[l] = "done" => l \in tree \cup unlanded
BY DEF IInv, DoneIsKnown

LEMMA AgainKeeps ==
  ASSUME IInv, Fresh \/ RunAgain \/ Resume \/ ResumeSpec \/ Retry
  PROVE  IInv'
<1>1. CASE Fresh
  BY <1>1, BeginKeeps DEF Fresh, IInv
<1>2. CASE RunAgain
  BY <1>2, BeginKeeps DEF RunAgain, Listed, IInv
<1>3. CASE Resume
  <2>1. Listed \ Rerun({}) \subseteq Lanes
    BY DEF Listed
  <2> QED BY <1>3, <2>1, DoneAtRest, RerunClosed, BeginKeeps DEF Resume, IInv
<1>4. CASE ResumeSpec
  <2>1. PICK edited \in SUBSET Lanes : Begin(Rerun(edited), Lanes \ Rerun(edited), FALSE)
    BY <1>4 DEF ResumeSpec
  <2>2. Listed = Lanes /\ pc = "idle"
    BY <1>4 DEF ResumeSpec
  <2>3. /\ Rerun(edited) \in SUBSET Lanes
        /\ \A l \in Lanes \ Rerun(edited) :
              DependsOn[l] \cap Rerun(edited) = {} /\ l \in tree \cup unlanded
    BY <2>2, DoneAtRest, RerunClosed
  <2> QED BY <2>1, <2>3, BeginKeeps DEF IInv
<1>5. CASE Retry
  <2>1. Failed \in SUBSET Lanes
    BY DEF Failed, IInv, TypeOK
  <2> QED BY <1>5, <2>1, BeginKeeps DEF Retry, IInv
<1> QED BY <1>1, <1>2, <1>3, <1>4, <1>5

LEMMA FanInKeeps ==
  ASSUME IInv, FanIn
  PROVE  IInv'
<1> USE DEF FanIn, lanes, file, history
<1>1. TypeOK'
  <2>1. conflicts' \subseteq Lanes /\ unlanded' \subseteq Lanes
    BY DEF IInv, TypeOK
  <2>2. child' \in [Lanes -> {"none", "running", "cancelled", "completed", "failed"}]
    BY DEF RecordLanes, IInv, TypeOK
  <2>3. manifest' \in [Lanes -> Outcomes]
    BY DEF Outcomes
  <2> QED BY <2>1, <2>2, <2>3 DEF IInv, TypeOK
<1>2. LanesIn' /\ PoolBound' /\ SpendBound'
  BY PoolUnmoved
<1>3. DoneIsKnown'
  <2>1. ASSUME NEW l \in Lanes, manifest'[l] = "done", l \notin unlanded'
        PROVE  l \in Merged'
    <3>1. l \in sub /\ lane[l] # "failed" /\ dirty[l] /\ l \notin conflicts'
      BY <2>1
    <3>2. lane[l] # "out"
      BY <3>1 DEF IInv, LanesIn
    <3> QED BY <3>1, <3>2 DEF Merged, Settled
  <2> QED BY <2>1 DEF DoneIsKnown
<1>4. ReusedIsSound'
  BY DEF ReusedIsSound
<1> QED BY <1>1, <1>2, <1>3, <1>4 DEF IInv

LEMMA MergedType ==
  ASSUME IInv
  PROVE  Merged \subseteq Lanes
BY DEF Merged, IInv, TypeOK

LEMMA StayKeeps ==
  ASSUME IInv, NEW where \in {"testing", "offer"}, Stay(where),
         tree' \in SUBSET Lanes, unlanded' \in SUBSET Lanes,
         \A l \in Lanes : manifest[l] = "done" => l \in tree' \cup unlanded'
  PROVE  IInv'
<1> USE DEF Stay, lanes, records, file, outcome
<1>1. TypeOK'
  BY DEF IInv, TypeOK
<1>2. LanesIn' /\ PoolBound' /\ SpendBound'
  BY PoolUnmoved
<1> QED BY <1>1, <1>2 DEF IInv, DoneIsKnown, ReusedIsSound

LEMMA LandKeeps ==
  ASSUME IInv, Land
  PROVE  IInv'
<1>1. \A l \in Lanes : manifest[l] = "done" => l \in tree \cup unlanded \cup Merged
  BY DEF Land, IInv, DoneIsKnown
<1>2. tree \subseteq Lanes /\ unlanded \subseteq Lanes /\ Merged \subseteq Lanes
  BY MergedType DEF IInv, TypeOK
<1>3. CASE Merged = {}
  BY <1>1, <1>2, <1>3, StayKeeps DEF Land
<1>4. CASE /\ Stay(IF VerifyMerge THEN "testing" ELSE "offer")
           /\ tree' = tree \cup Merged /\ unlanded' = unlanded \ Merged
  BY <1>1, <1>2, <1>4, StayKeeps
<1>5. CASE End /\ unlanded' = unlanded \cup Merged /\ UNCHANGED tree
  BY <1>1, <1>2, <1>5, EndKeeps
<1> QED BY <1>3, <1>4, <1>5 DEF Land

LEMMA VerifyKeeps ==
  ASSUME IInv, Verify
  PROVE  IInv'
<1>1. \A l \in Lanes : manifest[l] = "done" => l \in tree \cup unlanded
  BY DoneAtRest DEF Verify
<1>2. tree \subseteq Lanes /\ unlanded \subseteq Lanes /\ Merged \subseteq Lanes
  BY MergedType DEF IInv, TypeOK
<1>3. CASE Stay("offer") /\ UNCHANGED <<tree, unlanded>>
  BY <1>1, <1>2, <1>3, StayKeeps
<1>4. CASE End /\ unlanded' = unlanded \cup Merged /\ tree' \in {tree \ Merged, tree}
  BY <1>1, <1>2, <1>4, EndKeeps
<1> QED BY <1>3, <1>4 DEF Verify

LEMMA StopsKeep ==
  ASSUME IInv, SetUpThrows \/ Leave \/ Crash
  PROVE  IInv'
<1>1. /\ End /\ UNCHANGED tree
      /\ unlanded' = IF pc = "fanned" THEN unlanded \cup Merged ELSE unlanded
  BY DEF SetUpThrows, Leave, Crash
<1>2. tree \subseteq Lanes /\ unlanded \subseteq Lanes /\ Merged \subseteq Lanes
  BY MergedType DEF IInv, TypeOK
<1>3. \A l \in Lanes : manifest[l] = "done" => l \in tree' \cup unlanded'
  BY <1>1 DEF IInv, DoneIsKnown
<1> QED BY <1>1, <1>2, <1>3, EndKeeps

LEMMA AbortKeeps ==
  ASSUME IInv, Abort
  PROVE  IInv'
<1> USE DEF Abort, lanes, records, file, outcome, history
<1>1. TypeOK'
  BY DEF IInv, TypeOK
<1> QED BY <1>1, PoolUnmoved, ClaimsUnmoved DEF IInv

LEMMA FlagsChange ==
  ASSUME NEW f \in Flags
  PROVE  /\ [f EXCEPT !.paused = ~@] \in Flags
         /\ \A l \in Lanes : [f EXCEPT !.cancelled = @ \cup {l}] \in Flags
BY DEF Flags

LEMMA ControlKeeps ==
  ASSUME IInv, NEW c \in Controllers, Control(c)
  PROVE  IInv'
<1> USE DEF lanes, records, outcome, history
<1>1. TypeOK'
  <2>1. CASE ReadControl(c)
    <3>1. patched' \in [Controllers -> Flags]
      <4>1. \A b \in BOOLEAN, S \in SUBSET Lanes :
              [ok |-> TRUE, paused |-> b, cancelled |-> S] \in Flags
        BY DEF Flags
      <4>2. control \in Flags /\ Paused \in BOOLEAN /\ CancelledLanes \in SUBSET Lanes
            /\ sub \subseteq Lanes
        BY DEF IInv, TypeOK, Flags, Paused, CancelledLanes
      <4> DEFINE now == [ok |-> TRUE, paused |-> Paused, cancelled |-> CancelledLanes]
      <4>3. CASE patched' = [patched EXCEPT ![c] = [now EXCEPT !.paused = ~@]]
        <5>1. [now EXCEPT !.paused = ~@] \in Flags
          BY <4>1, <4>2, FlagsChange
        <5> QED BY <4>3, <5>1 DEF IInv, TypeOK
      <4>4. CASE \E l \in sub \ CancelledLanes :
                   patched' = [patched EXCEPT ![c] = [now EXCEPT !.cancelled = @ \cup {l}]]
        <5>1. PICK l \in sub :
                patched' = [patched EXCEPT ![c] = [now EXCEPT !.cancelled = @ \cup {l}]]
          BY <4>4
        <5>2. [now EXCEPT !.cancelled = @ \cup {l}] \in Flags
          BY <4>1, <4>2, FlagsChange
        <5> QED BY <5>1, <5>2 DEF IInv, TypeOK
      <4> QED BY <2>1, <4>3, <4>4 DEF ReadControl
    <3>2. writes' \in 0 .. MaxWrites
      BY <2>1, FlowAssumption DEF ReadControl, IInv, TypeOK
    <3> QED BY <2>1, <3>1, <3>2 DEF ReadControl, IInv, TypeOK
  <2>2. CASE OpenControl(c)
    <3>1. control' \in Flags
      BY <2>2 DEF OpenControl, IInv, TypeOK, Flags
    <3> QED BY <2>2, <3>1 DEF OpenControl, IInv, TypeOK
  <2>3. CASE FillControl(c)
    <3>1. patched[c] \in Flags /\ Absent \in Flags
      BY DEF IInv, TypeOK, Flags, Absent
    <3>2. halted' \subseteq Lanes
      BY <2>3, <3>1 DEF FillControl, IInv, TypeOK, Flags
    <3> QED BY <2>3, <3>1, <3>2 DEF FillControl, IInv, TypeOK
  <2> QED BY <2>1, <2>2, <2>3 DEF Control
<1>2. LanesIn' /\ PoolBound' /\ SpendBound'
  BY PoolUnmoved DEF Control, ReadControl, OpenControl, FillControl
<1>3. DoneIsKnown' /\ ReusedIsSound'
  <2>1. UNCHANGED <<pc, sub, lane, dirty, conflicts, manifest, reused, tree, unlanded>>
    BY DEF Control, ReadControl, OpenControl, FillControl
  <2> QED BY <2>1 DEF IInv, DoneIsKnown, ReusedIsSound, Merged
<1> QED BY <1>1, <1>2, <1>3 DEF IInv

-----------------------------------------------------------------------------
(* Cancellation.  While no two writers cross and no gate reads the control *)
(* file half written, one controller at a time is between its read and its *)
(* write, what it writes keeps every cancellation, and the gates of a      *)
(* cancelled lane find it.                                                 *)

DirtyLanes ==
  \A l \in Lanes : /\ dirty[l] => lane[l] \in {"returned", "ok"}
                   /\ lane[l] # "out" => l \in sub

OneWriter ==
  /\ \A c, d \in Controllers : writer[c] # "idle" /\ writer[d] # "idle" => c = d
  /\ \A c \in Controllers : writer[c] # "idle" =>
        patched[c].ok /\ control.cancelled \subseteq patched[c].cancelled
  /\ ~control.ok /\ (\A c \in Controllers : writer[c] # "fill") => control.cancelled = {}

HaltedLanes ==
  /\ halted \subseteq control.cancelled
  /\ \A l \in halted :
       /\ ~dirty[l] /\ lane[l] # "working"
       /\ pc = "running" => lane[l] \in {"held", "again", "returned", "ok", "failed"}
       /\ pc # "idle" /\ lane[l] # "held" => aborted \/ child[l] = "cancelled"
       /\ pc \in {"fanned", "testing", "offer"} => lane[l] # "held"

CInv == TypeOK /\ DirtyLanes /\ (~crossed => OneWriter /\ HaltedLanes)

(* A gate that is not crossed holds or sends back a halted lane.           *)
LEMMA GateCancels ==
  ASSUME CInv, NEW l \in Lanes, ~crossed, ~Torn, l \in halted, ~aborted
  PROVE  Cancelled(l)
<1>1. l \in control.cancelled
  BY DEF CInv, HaltedLanes
<1>2. control.ok
  BY <1>1 DEF CInv, OneWriter, Torn
<1> QED BY <1>1, <1>2 DEF Cancelled, CancelledLanes

LEMMA PassCancels ==
  ASSUME CInv, NEW l \in Lanes, Pass(l), ~crossed, ~Torn, pc = "running",
         lane[l] \in {"queued", "again", "held"},
         UNCHANGED <<pc, aborted, dirty, control, halted>>
  PROVE  HaltedLanes'
<1> USE DEF CInv
<1>1. ASSUME NEW k \in halted, k # l
      PROVE  lane'[k] = lane[k] /\ child'[k] = child[k]
  BY <1>1 DEF Pass, Known, TypeOK
<1>2. CASE l \in halted
  <2>1. lane'[l] = "returned"
    BY <1>2, GateCancels DEF Pass, Works, TypeOK
  <2>2. aborted \/ child'[l] = "cancelled"
    BY <1>2, GateCancels DEF Pass, Known, TypeOK
  <2> QED BY <1>1, <2>1, <2>2 DEF HaltedLanes
<1>3. CASE l \notin halted
  BY <1>1, <1>3 DEF HaltedLanes
<1> QED BY <1>2, <1>3

LEMMA GatesCancel ==
  ASSUME CInv, NEW l \in Lanes, EnterGate(l) \/ Release(l), TypeOK'
  PROVE  CInv'
<1>1. /\ lane[l] \in {"queued", "again", "held"} /\ pc = "running"
      /\ UNCHANGED <<pc, sub, aborted, dirty, control, writer, patched, halted>>
      /\ crossed' = (crossed \/ Torn)
      /\ Pass(l) \/ Hold(l)
  BY DEF EnterGate, Release, file
<1>2. DirtyLanes'
  BY <1>1 DEF CInv, DirtyLanes, Pass, Hold, TypeOK
<1>3. ASSUME ~crossed'
      PROVE  OneWriter' /\ HaltedLanes'
  <2>1. ~crossed /\ ~Torn
    BY <1>1, <1>3
  <2>2. OneWriter'
    BY <1>1, <2>1 DEF CInv, OneWriter
  <2>3. CASE Pass(l)
    BY <1>1, <2>1, <2>2, <2>3, PassCancels
  <2>4. CASE Hold(l)
    <3>1. \A k \in Lanes \ {l} : lane'[k] = lane[k] /\ child'[k] = child[k]
      BY <2>4 DEF Hold, Known, CInv, TypeOK
    <3>2. lane'[l] = "held"
      BY <2>4 DEF Hold, CInv, TypeOK
    <3>3. ASSUME NEW k \in halted
          PROVE  /\ ~dirty[k] /\ lane'[k] # "working"
                 /\ lane'[k] \in {"held", "again", "returned", "ok", "failed"}
                 /\ lane'[k] # "held" => aborted \/ child'[k] = "cancelled"
      BY <1>1, <2>1, <3>1, <3>2 DEF CInv, TypeOK, HaltedLanes
    <3> QED BY <1>1, <2>1, <2>2, <3>3 DEF CInv, HaltedLanes
  <2> QED BY <1>1, <2>2, <2>3, <2>4
<1> QED BY <1>2, <1>3 DEF CInv

LEMMA WorkCancels ==
  ASSUME CInv, NEW l \in Lanes, LaneReturns(l) \/ LanePasses(l) \/ LaneRejected(l), TypeOK'
  PROVE  CInv'
<1>1. /\ UNCHANGED <<pc, sub, aborted, child, control, writer, patched, halted, crossed>>
      /\ pc = "running" /\ lane[l] \in {"working", "returned", "threw"}
      /\ \A k \in Lanes \ {l} : lane'[k] = lane[k] /\ dirty'[k] = dirty[k]
  BY DEF LaneReturns, LanePasses, LaneRejected, file, records, history, CInv, TypeOK
<1>2. dirty'[l] => lane'[l] \in {"returned", "ok"}
  <2>1. CASE LaneReturns(l)
    BY <2>1 DEF LaneReturns, CInv, TypeOK
  <2>2. CASE LanePasses(l)
    BY <2>2 DEF LanePasses, CInv, TypeOK
  <2>3. CASE LaneRejected(l)
    BY <2>3 DEF LaneRejected, CInv, TypeOK
  <2> QED BY <2>1, <2>2, <2>3
<1>3. DirtyLanes'
  BY <1>1, <1>2 DEF CInv, DirtyLanes
<1>4. lane[l] = "returned" => lane'[l] \in {"again", "ok", "failed"} /\ (dirty'[l] => dirty[l])
  BY DEF LaneReturns, LanePasses, LaneRejected, CInv, TypeOK
<1>5. ASSUME ~crossed'
      PROVE  OneWriter' /\ HaltedLanes'
  <2>1. OneWriter'
    BY <1>1, <1>5 DEF CInv, OneWriter
  <2>2. l \in halted => lane[l] = "returned"
    BY <1>1, <1>5 DEF CInv, HaltedLanes
  <2> QED BY <1>1, <1>4, <1>5, <2>1, <2>2 DEF CInv, TypeOK, HaltedLanes
<1> QED BY <1>3, <1>5 DEF CInv

LEMMA WritersCancel ==
  ASSUME CInv, NEW c \in Controllers, Control(c), TypeOK'
  PROVE  CInv'
<1> USE DEF lanes, records, history
<1>1. CASE ReadControl(c)
  <2> USE <1>1 DEF ReadControl
  <2>1. CancelledLanes \subseteq patched'[c].cancelled /\ patched'[c].ok
        /\ \A d \in Controllers \ {c} : patched'[d] = patched[d] /\ writer'[d] = writer[d]
    BY DEF CInv, TypeOK
  <2>2. ASSUME ~crossed'
        PROVE  OneWriter' /\ HaltedLanes'
    <3>1. ~crossed /\ \A d \in Controllers : writer[d] = "idle"
      BY <2>2
    <3>2. control.cancelled \subseteq CancelledLanes
      BY <3>1 DEF CInv, OneWriter, CancelledLanes
    <3>3. OneWriter'
      BY <3>1, <3>2, <2>1 DEF CInv, TypeOK, OneWriter
    <3> QED BY <3>1, <3>3 DEF CInv, HaltedLanes
  <2> QED BY <2>2 DEF CInv, DirtyLanes
<1>2. CASE OpenControl(c)
  <2> USE <1>2 DEF OpenControl
  <2>1. control'.cancelled = control.cancelled
    BY DEF CInv, TypeOK, Flags
  <2>2. writer'[c] = "fill" /\ \A d \in Controllers \ {c} : writer'[d] = writer[d]
    BY DEF CInv, TypeOK
  <2>3. ASSUME ~crossed
        PROVE  OneWriter' /\ HaltedLanes'
    BY <2>1, <2>2, <2>3 DEF CInv, OneWriter, HaltedLanes
  <2> QED BY <2>3 DEF CInv, DirtyLanes
<1>3. CASE FillControl(c)
  <2> USE <1>3 DEF FillControl
  <2>1. writer'[c] = "idle" /\ \A d \in Controllers \ {c} :
                                  writer'[d] = writer[d] /\ patched'[d] = patched[d]
    BY DEF CInv, TypeOK
  <2>2. ASSUME ~crossed
        PROVE  OneWriter' /\ HaltedLanes'
    <3>1. /\ patched[c].ok /\ control.cancelled \subseteq patched[c].cancelled
          /\ \A d \in Controllers \ {c} : writer[d] = "idle"
      BY <2>2 DEF CInv, OneWriter
    <3>2. OneWriter'
      BY <2>1, <3>1 DEF OneWriter
    <3>3. ASSUME NEW l \in halted' \ halted
          PROVE  l \in Lanes /\ pc = "running" /\ lane[l] = "held" /\ ~dirty[l]
      BY <3>3 DEF CInv, TypeOK, DirtyLanes
    <3>4. halted' \subseteq control'.cancelled
      BY <2>2, <3>1 DEF CInv, HaltedLanes
    <3> QED BY <2>2, <3>2, <3>3, <3>4 DEF CInv, HaltedLanes
  <2> QED BY <2>2 DEF CInv, DirtyLanes
<1> QED BY <1>1, <1>2, <1>3 DEF Control

LEMMA CallsCancel ==
  ASSUME CInv, TypeOK',
         \/ \E S, kept \in SUBSET Lanes, retry \in BOOLEAN : Begin(S, kept, retry)
         \/ End
  PROVE  CInv'
<1>1. CASE \E S, kept \in SUBSET Lanes, retry \in BOOLEAN : Begin(S, kept, retry)
  BY <1>1 DEF Begin, Calm, CInv, DirtyLanes, OneWriter, HaltedLanes, Absent
<1>2. CASE End
  BY <1>2 DEF End, Calm, records, file, CInv, DirtyLanes, OneWriter, HaltedLanes, TypeOK
<1> QED BY <1>1, <1>2

LEMMA StepsCancel ==
  ASSUME CInv, FanIn \/ Abort \/ (\E where \in {"testing", "offer"} : Stay(where) /\ pc # "running"),
         pc # "idle", TypeOK'
  PROVE  CInv'
<1> USE DEF lanes, records, file, history
<1>1. CASE FanIn
  <2> USE <1>1 DEF FanIn
  <2>1. /\ UNCHANGED <<aborted, lane, dirty, control, writer, patched, halted, crossed>>
        /\ pc' = "fanned"
        /\ \A l \in Lanes : child[l] = "cancelled" => child'[l] = "cancelled"
    BY DEF RecordLanes
  <2>2. ASSUME NEW l \in halted, ~crossed
        PROVE  lane[l] # "held"
    <3>1. l \in Lanes /\ lane[l] = "held" => l \in sub
      BY DEF CInv, TypeOK, DirtyLanes
    <3>2. l \in Lanes /\ (lane[l] = "held" => ~Settled(l))
      BY DEF CInv, TypeOK, Settled
    <3> QED BY <3>1, <3>2
  <2>3. ASSUME ~crossed
        PROVE  OneWriter' /\ HaltedLanes'
    BY <2>1, <2>2, <2>3 DEF CInv, TypeOK, OneWriter, HaltedLanes
  <2> QED BY <2>1, <2>3 DEF CInv, DirtyLanes
<1>2. CASE Abort
  BY <1>2 DEF Abort, CInv, DirtyLanes, OneWriter, HaltedLanes
<1>3. CASE \E where \in {"testing", "offer"} : Stay(where) /\ pc # "running"
  <2>1. pc \in {"fanned", "testing", "offer"} /\ pc' \in {"testing", "offer"}
    BY <1>3 DEF Stay, CInv, TypeOK
  <2> QED BY <1>3, <2>1 DEF Stay, CInv, DirtyLanes, OneWriter, HaltedLanes
<1> QED BY <1>1, <1>2, <1>3

LEMMA NextCancels ==
  ASSUME CInv, [Next]_vars, TypeOK'
  PROVE  CInv'
<1>1. CASE Fresh \/ RunAgain \/ Resume \/ ResumeSpec \/ Retry
  <2>1. \A E \in SUBSET Lanes : Rerun(E) \in SUBSET Lanes
    BY RerunClosed
  <2>2. /\ Listed \in SUBSET Lanes /\ Listed \ Rerun({}) \in SUBSET Lanes
        /\ Failed \in SUBSET Lanes /\ {} \in SUBSET Lanes
    BY DEF Listed, Failed, CInv, TypeOK
  <2>3. \E S, kept \in SUBSET Lanes, retry \in BOOLEAN : Begin(S, kept, retry)
    <3>1. CASE Fresh
      BY <3>1, <2>2 DEF Fresh
    <3>2. CASE RunAgain
      BY <3>2, <2>2 DEF RunAgain
    <3>3. CASE Resume
      BY <3>3, <2>1, <2>2 DEF Resume
    <3>4. CASE ResumeSpec
      BY <3>4, <2>1 DEF ResumeSpec
    <3>5. CASE Retry
      BY <3>5, <2>2 DEF Retry
    <3> QED BY <1>1, <3>1, <3>2, <3>3, <3>4, <3>5
  <2> QED BY <2>3, CallsCancel
<1>2. CASE \E l \in Lanes : Lane(l)
  BY <1>2, GatesCancel, WorkCancels DEF Lane
<1>3. CASE \E c \in Controllers : Control(c)
  BY <1>3, WritersCancel
<1>4. CASE FanIn \/ Abort
  BY <1>4, StepsCancel DEF FanIn, Abort
<1>5. CASE SetUpThrows \/ Leave \/ Crash
  BY <1>5, CallsCancel DEF SetUpThrows, Leave, Crash
<1>6. CASE Land \/ Verify
  <2>1. \/ End
        \/ \E where \in {"testing", "offer"} : Stay(where) /\ pc \in {"fanned", "testing"}
    BY <1>6 DEF Land, Verify
  <2> QED BY <2>1, CallsCancel, StepsCancel
<1>7. CASE UNCHANGED vars
  BY <1>7 DEF vars, lanes, records, file, outcome, history, CInv, DirtyLanes, OneWriter,
              HaltedLanes
<1> QED BY <1>1, <1>2, <1>3, <1>4, <1>5, <1>6, <1>7 DEF Next

-----------------------------------------------------------------------------
LEMMA InitEstablishes ==
  ASSUME Init
  PROVE  IInv
<1>1. TypeOK
  <2>1. 0 \in 0 .. MaxAttempts - 1 /\ 0 \in 0 .. MaxCalls /\ 0 \in 0 .. MaxWrites
    BY FlowAssumption
  <2> QED BY <2>1 DEF Init, TypeOK, Stages, Outcomes, Flags, Absent
<1>2. Busy = {} /\ Working = {}
  BY DEF Init, Busy, Working
<1>3. PoolBound /\ SpendBound
  BY <1>2, FS_EmptySet, FlowAssumption DEF Init, PoolBound, SpendBound
<1> QED BY <1>1, <1>3 DEF Init, IInv, LanesIn, DoneIsKnown, ReusedIsSound

LEMMA NextKeeps ==
  ASSUME IInv, [Next]_vars
  PROVE  IInv'
<1>1. CASE \E l \in Lanes : Lane(l)
  BY <1>1, EnterGateKeeps, ReleaseKeeps, LaneReturnsKeeps, LanePassesKeeps,
     LaneRejectedKeeps DEF Lane
<1>2. CASE \E c \in Controllers : Control(c)
  BY <1>2, ControlKeeps
<1>3. CASE UNCHANGED vars
  <2> USE <1>3 DEF vars, lanes, records, file, outcome, history
  <2>1. TypeOK'
    BY DEF IInv, TypeOK
  <2>2. LanesIn' /\ PoolBound' /\ SpendBound'
    BY PoolUnmoved
  <2> QED BY <2>1, <2>2 DEF IInv, DoneIsKnown, ReusedIsSound, Merged
<1> QED BY <1>1, <1>2, <1>3, AgainKeeps, FanInKeeps, LandKeeps, VerifyKeeps, StopsKeep,
           AbortKeeps DEF Next

LEMMA Invariant == Spec => []IInv
BY InitEstablishes, NextKeeps, PTL DEF Spec

(* Type correctness of orchestrations, for every set of lanes and every    *)
(* bound.                                                                  *)
THEOREM FlowTypeCorrect == Spec => []TypeOK
<1>1. IInv => TypeOK
  BY DEF IInv
<1> QED BY <1>1, Invariant, PTL

(* executeSwarm's budget gate: an orchestration spends less than its cap   *)
(* plus what one full pool of attempts may cost, at every moment and       *)
(* through retries and heals.                                              *)
THEOREM BudgetBinds == Spec => []SpendBound
<1>1. IInv => SpendBound
  BY DEF IInv
<1> QED BY <1>1, Invariant, PTL

(* planResume, over any series of runs, re-runs, retries, resumes and      *)
(* crashes: a reused lane depends on none that runs again, and its work is *)
(* there, unless it conflicted or its merge is known not to have landed.   *)
THEOREM ReuseIsSound == Spec => []ReusedIsSound
<1>1. IInv => ReusedIsSound
  BY DEF IInv
<1> QED BY <1>1, Invariant, PTL

(* The lanes' gate: a lane that was cancelled while it was held, before it *)
(* had worked, never works and is recorded as cancelled, however often it  *)
(* is tried again, while the control file is written by one process at a   *)
(* time and read whole.                                                    *)
THEOREM CancelledLanesRest == Spec => []CancelledNeverWorks
<1>1. ASSUME Init
      PROVE  CInv
  <2>1. TypeOK
    BY <1>1, InitEstablishes DEF IInv
  <2> QED BY <1>1, <2>1 DEF Init, CInv, DirtyLanes, OneWriter, HaltedLanes, Absent
<1>2. CInv /\ [Next]_vars /\ TypeOK' => CInv'
  BY NextCancels
<1>3. CInv => CancelledNeverWorks
  BY DEF CInv, HaltedLanes, CancelledNeverWorks
<1> QED BY <1>1, <1>2, <1>3, FlowTypeCorrect, PTL DEF Spec

-----------------------------------------------------------------------------
(* What a resume runs again.                                               *)

(* WithDependents is the least closed set: nothing runs again without a    *)
(* reason, and no lane is kept that uses the work of one that runs again.  *)
LEMMA DependentsAreLeast ==
  ASSUME NEW S \in SUBSET Lanes
  PROVE  /\ S \subseteq WithDependents(S)
         /\ Closed(WithDependents(S))
         /\ \A T \in SUBSET Lanes : S \subseteq T /\ Closed(T) => WithDependents(S) \subseteq T
<1> DEFINE W == WithDependents(S)
<1>1. S \subseteq W
  BY DEF WithDependents
<1>2. \A T \in SUBSET Lanes : S \subseteq T /\ Closed(T) => W \subseteq T
  BY DEF WithDependents
<1>3. Closed(W)
  <2> SUFFICES ASSUME NEW l \in Listed, NEW d \in DependsOn[l], d \in W
               PROVE  l \in W
    BY DEF Closed
  <2>1. \A T \in SUBSET Lanes : S \subseteq T /\ Closed(T) => l \in T
    BY <1>2 DEF Closed
  <2> QED BY <2>1 DEF WithDependents, Listed
<1> QED BY <1>1, <1>2, <1>3

(* planResume: what a resume runs again is exactly what the unfinished     *)
(* lanes, the edited ones and the use of their work make necessary.        *)
THEOREM ResumeRunsTheLeast ==
  ASSUME NEW edited \in SUBSET Lanes
  PROVE  LET stale == {l \in Listed : manifest[l] # "done"} \cup edited
         IN  /\ stale \subseteq Rerun(edited)
             /\ \A l \in Listed : DependsOn[l] \cap Rerun(edited) # {} => l \in Rerun(edited)
             /\ \A T \in SUBSET Lanes :
                  /\ stale \subseteq T
                  /\ \A l \in Listed : DependsOn[l] \cap T # {} => l \in T
                  => Rerun(edited) \subseteq T
<1> DEFINE stale == {l \in Listed : manifest[l] # "done"} \cup edited
<1>1. stale \in SUBSET Lanes
  BY DEF Listed
<1>2. Rerun(edited) = WithDependents(stale)
  BY DEF Rerun
<1> HIDE DEF stale
<1>3. /\ stale \subseteq Rerun(edited) /\ Closed(Rerun(edited))
      /\ \A T \in SUBSET Lanes : stale \subseteq T /\ Closed(T) => Rerun(edited) \subseteq T
  BY <1>1, <1>2, DependentsAreLeast
<1> QED BY <1>3 DEF Closed, stale

-----------------------------------------------------------------------------
(* How a lane gets on.                                                     *)

(* A lane begins once every lane of this call in an earlier wave is over,  *)
(* whatever was held, retried, healed, cancelled or aborted before.        *)
WavesInTurn ==
  pc = "running" =>
    \A l \in sub : lane[l] # "queued" => \A k \in sub : Wave[k] < Wave[l] => Settled(k)

(* The round of a lane: its attempts, then its one heal.                   *)
Round(l) == IF healing[l] THEN MaxAttempts ELSE tries[l]

(* How far it is in its round.                                             *)
Progress(stage) ==
  CASE stage \in {"queued", "again"} -> 0
    [] stage = "held" -> 1
    [] stage = "working" -> 2
    [] stage \in {"returned", "threw"} -> 3
    [] OTHER -> 4

LaneGetsOn(l) ==
  /\ ~Settled(l)
  /\ \/ Settled(l)'
     \/ Round(l) < Round(l)'
     \/ Round(l) = Round(l)' /\ Progress(lane[l]) < Progress(lane'[l])

LaneRests(l) == UNCHANGED <<lane[l], tries[l], healing[l], dirty[l]>>

(* In the course of a call every step of a lane takes it on: to its end,   *)
(* to a later round (of at most one per attempt, and one heal), or further *)
(* in the same one; a lane that is over stays as it is.                    *)
LanesAdvance ==
  [][pc = "running" /\ pc' = "running" =>
       \A l \in Lanes : LaneGetsOn(l) \/ LaneRests(l)]_vars

LEMMA RoundsAreNumbers ==
  ASSUME TypeOK, NEW l \in Lanes
  PROVE  Round(l) \in 0 .. MaxAttempts /\ (~healing[l] => Round(l) < MaxAttempts)
BY FlowAssumption DEF TypeOK, Round

(* A step of one lane leaves the others where they are.                    *)
LEMMA OthersRest ==
  ASSUME TypeOK, NEW l \in Lanes, Lane(l)
  PROVE  \A k \in Lanes \ {l} : LaneRests(k)
<1> USE DEF TypeOK, LaneRests
<1>1. CASE EnterGate(l) \/ Release(l)
  BY <1>1 DEF EnterGate, Release, Hold, Pass
<1>2. CASE LaneReturns(l)
  BY <1>2 DEF LaneReturns
<1>3. CASE LanePasses(l)
  BY <1>3 DEF LanePasses
<1>4. CASE LaneRejected(l)
  BY <1>4 DEF LaneRejected
<1> QED BY <1>1, <1>2, <1>3, <1>4 DEF Lane

LEMMA LaneAdvances ==
  ASSUME TypeOK, TypeOK', NEW l \in Lanes, Lane(l)
  PROVE  LaneGetsOn(l)
<1> USE DEF TypeOK
<1>1. CASE EnterGate(l)
  <2>1. lane[l] \in {"queued", "again"} /\ UNCHANGED <<tries, healing>>
    BY <1>1 DEF EnterGate
  <2>2. lane'[l] \in {"held", "working", "returned"}
    BY <1>1 DEF EnterGate, Hold, Pass
  <2>3. Round(l)' = Round(l)
    BY <2>1 DEF Round
  <2> QED BY <2>1, <2>2, <2>3 DEF LaneGetsOn, Settled, Progress
<1>2. CASE Release(l)
  <2>1. lane[l] = "held" /\ UNCHANGED <<tries, healing>>
    BY <1>2 DEF Release
  <2>2. lane'[l] \in {"working", "returned"}
    BY <1>2 DEF Release, Pass
  <2>3. Round(l)' = Round(l)
    BY <2>1 DEF Round
  <2> QED BY <2>1, <2>2, <2>3 DEF LaneGetsOn, Settled, Progress
<1>3. CASE LaneReturns(l)
  <2>1. lane[l] = "working" /\ UNCHANGED <<tries, healing>>
    BY <1>3 DEF LaneReturns
  <2>2. lane'[l] \in {"returned", "threw"}
    BY <1>3 DEF LaneReturns
  <2>3. Round(l)' = Round(l)
    BY <2>1 DEF Round
  <2> QED BY <2>1, <2>2, <2>3 DEF LaneGetsOn, Settled, Progress
<1>4. CASE LanePasses(l)
  <2>1. lane[l] = "returned" /\ lane'[l] = "ok"
    BY <1>4 DEF LanePasses
  <2> QED BY <2>1 DEF LaneGetsOn, Settled
<1>5. CASE LaneRejected(l)
  <2>1. lane[l] \in {"threw", "returned"}
    BY <1>5 DEF LaneRejected
  <2>2. CASE MayRetry(l)
    <3>1. tries'[l] = tries[l] + 1 /\ ~healing[l] /\ healing'[l] = FALSE
      BY <1>5, <2>2 DEF LaneRejected, MayRetry
    <3>2. Round(l) < Round(l)'
      <4>1. Round(l) = tries[l] /\ Round(l)' = tries'[l] /\ tries[l] \in Nat
        BY <3>1, FlowAssumption DEF Round
      <4> QED BY <3>1, <4>1
    <3> QED BY <2>1, <3>2 DEF LaneGetsOn, Settled
  <2>3. CASE ~MayRetry(l) /\ ~healing[l] /\ SelfHeal /\ ~Exceeded
    <3>1. healing'[l] = TRUE
      BY <1>5, <2>3 DEF LaneRejected
    <3>2. Round(l) < Round(l)'
      BY <2>3, <3>1, RoundsAreNumbers DEF Round
    <3> QED BY <2>1, <3>2 DEF LaneGetsOn, Settled
  <2>4. CASE ~MayRetry(l) /\ ~(~healing[l] /\ SelfHeal /\ ~Exceeded)
    <3>1. lane'[l] = "failed"
      BY <1>5, <2>4 DEF LaneRejected
    <3> QED BY <2>1, <3>1 DEF LaneGetsOn, Settled
  <2> QED BY <2>2, <2>3, <2>4
<1> QED BY <1>1, <1>2, <1>3, <1>4, <1>5 DEF Lane

(* The steps of a running call that are no lane's.                         *)
LEMMA CallRests ==
  ASSUME TypeOK, [Next]_vars, pc = "running", pc' = "running", ~\E l \in Lanes : Lane(l)
  PROVE  UNCHANGED <<sub, lanes>>
<1>1. CASE UNCHANGED vars
  BY <1>1 DEF vars, lanes
<1>2. CASE \E c \in Controllers : Control(c)
  BY <1>2 DEF Control, ReadControl, OpenControl, FillControl
<1>3. CASE Abort
  BY <1>3 DEF Abort
<1>4. ~(Fresh \/ RunAgain \/ Resume \/ ResumeSpec)
  BY DEF Fresh, RunAgain, Resume, ResumeSpec
<1>5. ~(FanIn \/ SetUpThrows \/ Land \/ Verify \/ Retry \/ Leave \/ Crash)
  BY DEF FanIn, SetUpThrows, Land, Verify, Retry, Leave, Crash, End
<1> QED BY <1>1, <1>2, <1>3, <1>4, <1>5 DEF Next

LEMMA LanesGetOn ==
  ASSUME TypeOK, TypeOK', [Next]_vars, pc = "running", pc' = "running", NEW l \in Lanes
  PROVE  LaneGetsOn(l) \/ LaneRests(l)
<1>1. ASSUME NEW k \in Lanes, Lane(k) PROVE LaneGetsOn(l) \/ LaneRests(l)
  BY <1>1, OthersRest, LaneAdvances
<1>2. ASSUME ~\E k \in Lanes : Lane(k) PROVE LaneRests(l)
  BY <1>2, CallRests DEF lanes, LaneRests
<1> QED BY <1>1, <1>2

(* executeSwarm's runLane: no answer of an agent or of its grader keeps a  *)
(* lane going for more rounds than attempts and one heal.                  *)
THEOREM LanesKeepAdvancing == Spec => LanesAdvance
<1>1. TypeOK /\ TypeOK' /\ [Next]_vars =>
        [pc = "running" /\ pc' = "running" =>
           \A l \in Lanes : LaneGetsOn(l) \/ LaneRests(l)]_vars
  BY LanesGetOn
<1> QED BY <1>1, FlowTypeCorrect, PTL DEF Spec, LanesAdvance

LEMMA WavesStep ==
  ASSUME TypeOK, TypeOK', LanesIn, [Next]_vars, WavesInTurn
  PROVE  WavesInTurn'
<1>1. CASE pc' # "running"
  BY <1>1 DEF WavesInTurn
<1>2. CASE pc' = "running" /\ pc # "running"
  <2>1. PICK S \in SUBSET Lanes, kept \in SUBSET Lanes, retry \in BOOLEAN :
            Begin(S, kept, retry)
    <3>1. ~\E l \in Lanes : Lane(l)
      BY <1>2 DEF Lane, EnterGate, Release, LaneReturns, LanePasses, LaneRejected
    <3>2. ~(FanIn \/ SetUpThrows \/ Land \/ Verify \/ Leave \/ Crash \/ Abort)
      BY <1>2 DEF FanIn, SetUpThrows, Land, Verify, Leave, Crash, Abort, End, Stay
    <3>3. ~\E c \in Controllers : Control(c)
      BY <1>2 DEF Control, ReadControl, OpenControl, FillControl
    <3>4. ~UNCHANGED vars
      BY <1>2 DEF vars
    <3>5. \A E \in SUBSET Lanes : Rerun(E) \in SUBSET Lanes
      BY RerunClosed
    <3>6. Listed \in SUBSET Lanes /\ Failed \in SUBSET Lanes
      BY DEF Listed, Failed, TypeOK
    <3> QED BY <3>1, <3>2, <3>3, <3>4, <3>5, <3>6
            DEF Next, Fresh, RunAgain, Resume, ResumeSpec, Retry
  <2>2. \A l \in sub' : lane'[l] = "queued"
    BY <2>1 DEF Begin
  <2> QED BY <2>2 DEF WavesInTurn
<1>3. CASE pc' = "running" /\ pc = "running"
  <2>1. sub' = sub /\ Wave' = Wave
    <3>1. sub' = sub
      <4>1. ASSUME NEW l \in Lanes, Lane(l) PROVE sub' = sub
        BY <4>1 DEF Lane, EnterGate, Release, LaneReturns, LanePasses, LaneRejected
      <4> QED BY <4>1, <1>3, CallRests
    <3> QED BY <3>1 DEF Wave
  <2> SUFFICES ASSUME NEW l \in sub, lane'[l] # "queued",
                      NEW k \in sub, Wave[k] < Wave[l]
               PROVE  Settled(k)'
    BY <2>1 DEF WavesInTurn
  <2>2. l \in Lanes /\ k \in Lanes
    BY DEF TypeOK
  <2>3. CASE lane[l] # "queued"
    <3>1. Settled(k)
      BY <1>3, <2>3 DEF WavesInTurn
    <3>2. LaneRests(k)
      BY <1>3, <2>2, <3>1, LanesGetOn DEF LaneGetsOn
    <3> QED BY <3>1, <3>2 DEF LaneRests, Settled
  <2>4. CASE lane[l] = "queued"
    <3>1. Lane(l)
      <4>1. ~LaneRests(l)
        BY <2>4 DEF LaneRests
      <4> QED BY <4>1, <1>3, <2>2, CallRests, OthersRest DEF lanes, LaneRests
    <3>2. EnterGate(l)
      BY <2>4, <3>1 DEF Lane, Release, LaneReturns, LanePasses, LaneRejected
    <3>3. Settled(k)
      BY <2>4, <3>2 DEF EnterGate
    <3>4. k # l
      BY <2>4, <3>3 DEF Settled
    <3>5. LaneRests(k)
      BY <2>2, <3>1, <3>4, OthersRest
    <3> QED BY <3>3, <3>5 DEF LaneRests, Settled
  <2> QED BY <2>3, <2>4
<1> QED BY <1>1, <1>2, <1>3

(* runWaves and its pool: the waves of a call take turns, through holds,   *)
(* retries, heals and an abort.                                            *)
THEOREM WavesTakeTurns == Spec => []WavesInTurn
<1>1. Init => WavesInTurn
  BY DEF Init, WavesInTurn
<1>2. TypeOK /\ TypeOK' /\ LanesIn /\ [Next]_vars /\ WavesInTurn => WavesInTurn'
  BY WavesStep
<1>3. IInv => TypeOK /\ LanesIn
  BY DEF IInv
<1> QED BY <1>1, <1>2, <1>3, Invariant, PTL DEF Spec

=============================================================================
