--------------------------- MODULE MissionProofs ---------------------------
(***************************************************************************)
(* Theorems about Mission for every number of terminals, plan, proposal    *)
(* and bound: type correctness, every safety invariant of its run, what a  *)
(* crash costs, and how a drive keeps its history and gets on.             *)
(*                                                                         *)
(* The inductive invariant says of every copy of the mission, in memory or *)
(* on disk, that its steps are coherent: dependencies are in the plan, the *)
(* plan is a DAG, and whatever was started has its dependencies settled.   *)
(* A step that is about to be rerun may lose its settled status, so the    *)
(* invariant also says that no started step needs the one a terminal runs  *)
(* or reassesses.                                                          *)
(***************************************************************************)
EXTENDS Mission, SequenceTheorems, WellFoundedInduction, TLAPS

Settled == {"done", "skipped"}

Coherent(s) ==
    /\ \A i \in DOMAIN s : s[i].deps \subseteq DOMAIN s
    /\ \A i \in DOMAIN s :
          s[i].attempts > 0 => \A d \in s[i].deps : s[d].status \in Settled
    /\ Acyclic(s)

NoStartedNeeds(s, i) == \A j \in DOMAIN s : s[j].attempts > 0 => i \notin s[j].deps

(* A step that may take the place of step i.                               *)
Replaces(st, s, i) ==
    /\ st \in StepStates /\ st.deps = s[i].deps
    /\ st.attempts > 0 => \A d \in st.deps : d # i /\ s[d].status \in Settled
    /\ NoStartedNeeds(s, i) \/ st.status \in Settled

Holding(t) == pc[t] \in {"offering", "loop", "executing", "reassessing"}

Place(t) ==
    /\ Holding(t) => mem[t] \in Missions
    /\ pc[t] \in {"executing", "reassessing"} =>
          /\ at[t] \in DOMAIN mem[t].steps
          /\ NoStartedNeeds(mem[t].steps, at[t])

DiskOK == disk \in Missions => Coherent(disk.steps)
MemOK == \A t \in Terminals : mem[t] \in Missions => Coherent(mem[t].steps)

IInv ==
    /\ Values
    /\ DiskOK
    /\ MemOK
    /\ \A t \in Terminals : Place(t)
    /\ ~refused

-----------------------------------------------------------------------------
(* The live plan.                                                          *)

(* Replacing one step by another with the same dependencies keeps a plan   *)
(* coherent when the new one is settled or nobody that started needs it.   *)
LEMMA SetStep ==
  ASSUME NEW s \in Seq(StepStates), Coherent(s), NEW i \in DOMAIN s,
         NEW st, Replaces(st, s, i)
  PROVE  /\ [s EXCEPT ![i] = st] \in Seq(StepStates)
         /\ DOMAIN [s EXCEPT ![i] = st] = DOMAIN s
         /\ Coherent([s EXCEPT ![i] = st])
<1> USE DEF Replaces
<1> DEFINE r == [s EXCEPT ![i] = st]
<1>1. DOMAIN s = 1 .. Len(s)
  BY LenProperties
<1>2. r \in Seq(StepStates) /\ DOMAIN r = DOMAIN s
  BY <1>1, ExceptSeq
<1>3. \A j \in DOMAIN s : r[j] = IF j = i THEN st ELSE s[j]
  OBVIOUS
<1>4. \A j \in DOMAIN s : r[j].deps = s[j].deps
  BY <1>3
<1>5. \A j \in DOMAIN r : r[j].deps \subseteq DOMAIN r
  BY <1>2, <1>4 DEF Coherent
<1>6. ASSUME NEW j \in DOMAIN r, r[j].attempts > 0, NEW d \in r[j].deps
      PROVE  r[d].status \in Settled
  <2>1. j \in DOMAIN s /\ d \in DOMAIN s /\ d \in s[j].deps
    BY <1>2, <1>4, <1>6 DEF Coherent
  <2>2. CASE j = i
    BY <2>1, <2>2, <1>3, <1>6
  <2>3. CASE j # i
    <3>1. s[j].attempts > 0 /\ s[d].status \in Settled
      BY <2>1, <2>3, <1>3, <1>6 DEF Coherent
    <3>2. d = i => st.status \in Settled
      BY <3>1, <2>1 DEF NoStartedNeeds
    <3> QED BY <3>1, <3>2, <2>1, <1>3
  <2> QED BY <2>2, <2>3
<1>7. Acyclic(r)
  <2>1. PICK wave \in [DOMAIN s -> DOMAIN s] :
               \A j \in DOMAIN s : \A d \in s[j].deps : wave[d] < wave[j]
    BY DEF Coherent, Acyclic
  <2>2. \A j \in DOMAIN r : \A d \in r[j].deps : wave[d] < wave[j]
    BY <2>1, <1>2, <1>4
  <2> QED BY <2>1, <2>2, <1>2 DEF Acyclic
<1> QED BY <1>2, <1>5, <1>6, <1>7 DEF Coherent

LEMMA SameRange ==
  ASSUME NEW a \in Nat, NEW b \in Nat, 1 .. a = 1 .. b
  PROVE  a = b
<1>1. ~(a < b)
  <2> SUFFICES ASSUME a < b PROVE FALSE
    OBVIOUS
  <2>1. b \in 1 .. b
    OBVIOUS
  <2>2. b \notin 1 .. a
    OBVIOUS
  <2> QED BY <2>1, <2>2
<1>2. ~(b < a)
  <2> SUFFICES ASSUME b < a PROVE FALSE
    OBVIOUS
  <2>1. a \in 1 .. a
    OBVIOUS
  <2>2. a \notin 1 .. b
    OBVIOUS
  <2> QED BY <2>1, <2>2
<1> QED BY <1>1, <1>2

(* A splice yields a coherent plan that contains every proposed step.      *)
LEMMA SpliceJoins ==
  ASSUME NEW s \in Seq(StepStates), Coherent(s), NEW add \in Seq(PlanSteps)
  PROVE  /\ Spliced(s, add) \in Seq(StepStates)
         /\ Coherent(Spliced(s, add))
         /\ add # <<>> => Spliced(s, add) # s
<1> DEFINE new == [k \in DOMAIN add |->
                    [cap |-> add[k].cap, gate |-> add[k].gate,
                     deps |-> {d \in add[k].deps : 0 < d /\ d < Len(s) + k},
                     status |-> "pending", attempts |-> 0]]
           r == s \o new
<1>1. /\ DOMAIN s = 1 .. Len(s) /\ Len(s) \in Nat
      /\ DOMAIN add = 1 .. Len(add) /\ Len(add) \in Nat
  BY LenProperties
<1>2. \A k \in DOMAIN add : new[k] \in StepStates
  <2> SUFFICES ASSUME NEW k \in DOMAIN add PROVE new[k] \in StepStates
    OBVIOUS
  <2>1. add[k] \in PlanSteps
    BY <1>1, ElementOfSeq
  <2> QED BY <2>1 DEF PlanSteps, StepStates, Statuses
<1>3. new \in Seq(StepStates) /\ Len(new) = Len(add)
  <2>1. new \in [1 .. Len(add) -> StepStates]
    BY <1>1, <1>2
  <2>2. new \in Seq(StepStates)
    BY <2>1, <1>1, SeqDef
  <2> HIDE DEF new
  <2>3. DOMAIN new = 1 .. Len(new) /\ Len(new) \in Nat
    BY <2>2, LenProperties
  <2>4. DOMAIN new = 1 .. Len(add)
    BY <2>1
  <2> QED BY <2>2, <2>3, <2>4, <1>1, SameRange
<1>4. /\ r \in Seq(StepStates)
      /\ DOMAIN r = 1 .. Len(s) + Len(add)
      /\ Len(r) = Len(s) + Len(add)
      /\ \A i \in 1 .. Len(s) + Len(add) :
           r[i] = IF i <= Len(s) THEN s[i] ELSE new[i - Len(s)]
  <2> HIDE DEF new
  <2>1. r \in Seq(StepStates) /\ Len(r) = Len(s) + Len(new)
    BY <1>3, ConcatProperties
  <2> QED BY <2>1, <1>3, ConcatProperties, LenProperties
<1>5. \A i \in 1 .. Len(s) : r[i] = s[i]
  BY <1>1, <1>4
<1>6. \A i \in (Len(s) + 1) .. (Len(s) + Len(add)) :
         r[i].attempts = 0 /\ r[i].deps \subseteq 1 .. (i - 1)
  <2> SUFFICES ASSUME NEW i \in (Len(s) + 1) .. (Len(s) + Len(add))
               PROVE  r[i].attempts = 0 /\ r[i].deps \subseteq 1 .. (i - 1)
    OBVIOUS
  <2>1. i - Len(s) \in DOMAIN add
    BY <1>1
  <2>2. r[i] = new[i - Len(s)]
    BY <1>1, <1>4
  <2>3. new[i - Len(s)].attempts = 0
    BY <2>1
  <2>4. new[i - Len(s)].deps
           = {d \in add[i - Len(s)].deps : 0 < d /\ d < Len(s) + (i - Len(s))}
    BY <2>1
  <2>5. add[i - Len(s)] \in PlanSteps
    BY <2>1, <1>1, ElementOfSeq
  <2> HIDE DEF new
  <2>6. \A d \in new[i - Len(s)].deps : d \in Nat /\ 0 < d /\ d < i
    BY <2>4, <2>5, <1>1 DEF PlanSteps
  <2>7. new[i - Len(s)].deps \subseteq 1 .. (i - 1)
    BY <2>6, <1>1
  <2> HIDE DEF r
  <2> QED BY <2>2, <2>3, <2>7
<1> HIDE DEF new, r
<1>7. \A i \in DOMAIN r : r[i].deps \subseteq DOMAIN r
  <2> SUFFICES ASSUME NEW i \in DOMAIN r PROVE r[i].deps \subseteq DOMAIN r
    OBVIOUS
  <2>1. CASE i <= Len(s)
    BY <2>1, <1>1, <1>4, <1>5 DEF Coherent
  <2>2. CASE i > Len(s)
    <3>1. i \in (Len(s) + 1) .. (Len(s) + Len(add))
      BY <2>2, <1>1, <1>4
    <3>2. r[i].deps \subseteq 1 .. (i - 1)
      BY <3>1, <1>6
    <3>3. \A d \in 1 .. (i - 1) : d \in DOMAIN r
      BY <3>1, <1>1, <1>4
    <3> QED BY <3>2, <3>3
  <2> QED BY <2>1, <2>2, <1>1, <1>4
<1>8. ASSUME NEW i \in DOMAIN r, r[i].attempts > 0, NEW d \in r[i].deps
      PROVE  r[d].status \in Settled
  <2>1. i \in DOMAIN s /\ r[i] = s[i]
    BY <1>8, <1>1, <1>4, <1>5, <1>6
  <2>2. d \in DOMAIN s /\ r[d] = s[d]
    BY <2>1, <1>8, <1>1, <1>5 DEF Coherent
  <2> QED BY <2>1, <2>2, <1>8 DEF Coherent
<1>9. Acyclic(r)
  <2>1. PICK wave \in [DOMAIN s -> DOMAIN s] :
               \A i \in DOMAIN s : \A d \in s[i].deps : wave[d] < wave[i]
    BY DEF Coherent, Acyclic
  <2> DEFINE longer == [i \in DOMAIN r |-> IF i <= Len(s) THEN wave[i] ELSE i]
  <2>2. longer \in [DOMAIN r -> DOMAIN r]
    BY <2>1, <1>1, <1>4
  <2>3. ASSUME NEW i \in DOMAIN r, NEW d \in r[i].deps
        PROVE  longer[d] < longer[i]
    <3>1. CASE i <= Len(s)
      <4>1. i \in DOMAIN s /\ d \in s[i].deps /\ d \in DOMAIN s
        BY <3>1, <2>3, <1>1, <1>4, <1>5 DEF Coherent
      <4> QED BY <4>1, <3>1, <2>1, <1>1, <1>4
    <3>2. CASE i > Len(s)
      <4>0. i \in (Len(s) + 1) .. (Len(s) + Len(add))
        BY <3>2, <1>1, <1>4
      <4>1. d \in 1 .. (i - 1)
        BY <4>0, <2>3, <1>6
      <4>2. CASE d <= Len(s)
        <5>1. wave[d] \in 1 .. Len(s)
          BY <4>1, <4>2, <2>1, <1>1
        <5> QED BY <5>1, <4>1, <4>2, <3>2, <1>1, <1>4
      <4>3. CASE d > Len(s)
        BY <4>1, <4>3, <3>2, <1>1, <1>4
      <4> QED BY <4>1, <4>2, <4>3, <1>1
    <3> QED BY <3>1, <3>2, <1>1, <1>4
  <2> HIDE DEF longer
  <2> QED BY <2>2, <2>3 DEF Acyclic
<1>10. Spliced(s, add) = r
  BY <1>9 DEF Spliced, r, new
<1>11. add # <<>> => Len(add) # 0
  BY EmptySeq
<1>12. add # <<>> => r # s
  <2> SUFFICES ASSUME add # <<>>, r = s PROVE FALSE
    OBVIOUS
  <2>1. Len(s) = Len(s) + Len(add)
    BY <1>4
  <2> QED BY <2>1, <1>1, <1>11
<1> QED BY <1>4, <1>7, <1>8, <1>9, <1>10, <1>12 DEF Coherent

LEMMA Counted ==
  ASSUME NEW D, NEW f \in [D -> Nat], NEW i
  PROVE  [f EXCEPT ![i] = @ + 1] \in [D -> Nat]
<1>1. CASE i \in D
  BY <1>1
<1>2. CASE i \notin D
  BY <1>2
<1> QED BY <1>1, <1>2

LEMMA StartedStep ==
  ASSUME NEW x \in StepStates
  PROVE  LET y == [x EXCEPT !.status = "running", !.attempts = @ + 1]
         IN y \in StepStates /\ y.deps = x.deps
<1>1. x.attempts + 1 \in Nat
  BY DEF StepStates
<1> QED BY <1>1 DEF StepStates, Statuses

(* Replacing the status of one step of a mission.                          *)
LEMMA SetStatus ==
  ASSUME NEW m \in Missions, Coherent(m.steps), NEW i \in DOMAIN m.steps,
         NEW st, Replaces(st, m.steps, i),
         NEW spent \in Nat, NEW n,
         n = [m EXCEPT !.steps = [m.steps EXCEPT ![i] = st], !.spent = spent]
  PROVE  n \in Missions /\ Coherent(n.steps)
<1>1. m.steps \in Seq(StepStates)
  BY DEF Missions
<1>2. /\ [m.steps EXCEPT ![i] = st] \in Seq(StepStates)
      /\ DOMAIN [m.steps EXCEPT ![i] = st] = DOMAIN m.steps
      /\ Coherent([m.steps EXCEPT ![i] = st])
  BY <1>1, SetStep
<1> QED BY <1>2 DEF Missions

LEMMA StepTyping ==
  ASSUME NEW m \in Missions, NEW i \in DOMAIN m.steps
  PROVE  m.steps[i] \in StepStates
  BY LenProperties, ElementOfSeq DEF Missions

LEMMA FirstIsMember ==
  ASSUME NEW S, S \subseteq Nat, S # {}
  PROVE  First(S) \in S /\ \A j \in S : First(S) <= j
<1>1. PICK i \in S : \A j \in S : ~ (<<j, i>> \in OpToRel(<, Nat))
  BY WFMin, NatLessThanWellFounded
<1>2. \A j \in S : i <= j
  <2> SUFFICES ASSUME NEW j \in S PROVE ~ (j < i)
    OBVIOUS
  <2>1. i \in Nat /\ j \in Nat
    BY <1>1
  <2> QED BY <1>1, <2>1 DEF OpToRel
<1> QED BY <1>1, <1>2 DEF First

-----------------------------------------------------------------------------
(* Steps.                                                                  *)

LEMMA FlagsStep == Flags /\ [Next]_vars => Flags'
<1> SUFFICES ASSUME Flags, [Next]_vars PROVE Flags'
  OBVIOUS
<1> USE DEF Flags
<1>1. CASE UNCHANGED vars
  BY <1>1 DEF vars
<1>2. CASE Rest
  BY <1>2 DEF Rest, vars
<1>3. ASSUME NEW t \in Terminals, Loop(t) PROVE Flags'
  BY <1>3 DEF Loop, EndAborted, EndDeclared, EndExhausted, EndNothingReady,
              Pause, SkipBlocked, RunStep, Conclude, Locals
<1>4. ASSUME NEW t \in Terminals, StepReturns(t) PROVE Flags'
  BY <1>4 DEF StepReturns
<1>5. ASSUME NEW t \in Terminals, Reassess(t) PROVE Flags'
  BY <1>5 DEF Reassess, AcceptResult, GiveUp, DeclareDone, Retry, Escalate,
              Replan, Decide
<1>6. ASSUME NEW t \in Terminals, Users(t) PROVE Flags'
  BY <1>6 DEF Users, Start, Offer, TakeOffer, DeclineOffer, Crash, Escape,
              Drive, Locals
<1> QED BY <1>1, <1>2, <1>3, <1>4, <1>5, <1>6 DEF Next, Drives

(* A terminal that holds m and saves sv.                                   *)
LEMMA Written ==
  ASSUME IInv, NEW t \in Terminals,
         NEW m \in Missions, Coherent(m.steps), mem' = [mem EXCEPT ![t] = m],
         NEW sv \in Missions, Coherent(sv.steps), disk' \in {sv, Torn}
  PROVE  /\ disk' \in Missions \cup {NoMission, Torn}
         /\ mem' \in [Terminals -> Missions \cup {NoMission}]
         /\ mem'[t] = m
         /\ \A u \in Terminals \ {t} : mem'[u] = mem[u]
         /\ DiskOK' /\ MemOK'
<1>1. mem \in [Terminals -> Missions \cup {NoMission}]
  BY DEF IInv, Values
<1>2. /\ mem' \in [Terminals -> Missions \cup {NoMission}]
      /\ mem'[t] = m
      /\ \A u \in Terminals \ {t} : mem'[u] = mem[u]
  BY <1>1
<1>4. DiskOK'
  BY MarkersAreNoMissions DEF DiskOK
<1>5. MemOK'
  BY <1>2 DEF IInv, MemOK
<1> QED BY <1>2, <1>4, <1>5

(* The others' places do not depend on what one terminal does.             *)
LEMMA Others ==
  ASSUME IInv, NEW t \in Terminals,
         \A u \in Terminals \ {t} :
            pc'[u] = pc[u] /\ mem'[u] = mem[u] /\ at'[u] = at[u]
  PROVE  \A u \in Terminals \ {t} : Place(u)'
BY DEF IInv, Place, Holding

LEMMA ZeroExecuted == 0 \in 0 .. MaxSteps /\ 0 \in 0 .. MaxLaunches
BY LimitsAreNumbers

(* The locals of a drive, reset.                                           *)
LEMMA LocalsTyped ==
  ASSUME Values, NEW t \in Terminals, NEW b \in Budgets \cup {NoBudget},
         NEW reason \in {"", "abort", "done", "steps", "nothing", "pause"},
         at' = [at EXCEPT ![t] = 0], executed' = [executed EXCEPT ![t] = 0],
         budget' = [budget EXCEPT ![t] = b], why' = [why EXCEPT ![t] = reason]
  PROVE  /\ at' \in [Terminals -> Nat]
         /\ executed' \in [Terminals -> 0 .. MaxSteps]
         /\ budget' \in [Terminals -> Budgets \cup {NoBudget}]
         /\ why' \in [Terminals -> {"", "abort", "done", "steps", "nothing", "pause"}]
         /\ \A u \in Terminals \ {t} : at'[u] = at[u]
<1>1. 0 \in 0 .. MaxSteps
  BY ZeroExecuted
<1>2. executed' \in [Terminals -> 0 .. MaxSteps]
  BY <1>1 DEF Values
<1>3. budget' \in [Terminals -> Budgets \cup {NoBudget}]
  BY DEF Values
<1> QED BY <1>2, <1>3 DEF Values

LEMMA GotoTyped ==
  ASSUME Values, NEW t \in Terminals,
         NEW where \in {"idle", "offering", "loop", "executing", "reassessing", "over"},
         pc' = [pc EXCEPT ![t] = where]
  PROVE  /\ pc' \in [Terminals -> {"idle", "offering", "loop", "executing",
                                   "reassessing", "over"}]
         /\ pc'[t] = where
         /\ \A u \in Terminals \ {t} : pc'[u] = pc[u]
BY DEF Values

(* The end of a drive.                                                     *)
LEMMA Over ==
  ASSUME IInv, NEW t \in Terminals, Holding(t),
         NEW m \in Missions, m.steps = mem[t].steps,
         mem' = [mem EXCEPT ![t] = m], disk' \in {m, Torn},
         pc' = [pc EXCEPT ![t] = "over"],
         NEW reason \in {"", "abort", "done", "steps", "nothing", "pause"},
         at' = [at EXCEPT ![t] = 0], executed' = [executed EXCEPT ![t] = 0],
         budget' = [budget EXCEPT ![t] = NoBudget],
         why' = [why EXCEPT ![t] = reason],
         UNCHANGED <<launches, runs, refused>>
  PROVE  IInv'
<1>1. mem[t] \in Missions /\ Coherent(m.steps)
  BY DEF IInv, Place, MemOK
<1>2. /\ disk' \in Missions \cup {NoMission, Torn}
      /\ mem' \in [Terminals -> Missions \cup {NoMission}]
      /\ \A u \in Terminals \ {t} : mem'[u] = mem[u]
      /\ DiskOK' /\ MemOK'
  BY <1>1, Written
<1> Values
  BY DEF IInv
<1>3. Values'
  BY <1>2, LocalsTyped, GotoTyped DEF Values
<1>4. pc'[t] = "over" /\ \A u \in Terminals \ {t} : pc'[u] = pc[u] /\ at'[u] = at[u]
  BY LocalsTyped, GotoTyped
<1>5. \A u \in Terminals : Place(u)'
  BY <1>2, <1>4, Others DEF Place, Holding
<1> QED BY <1>2, <1>3, <1>5 DEF IInv

LEMMA ConcludeStep ==
  ASSUME IInv, NEW t \in Terminals, pc[t] = "loop",
         NEW reason \in {"abort", "done", "steps", "nothing"},
         Conclude(t, reason)
  PROVE  IInv'
<1> DEFINE m == [mem[t] EXCEPT
                   !.done = TRUE,
                   !.outcome = FinalOutcome(mem[t].steps, reason = "abort")]
<1>1. Holding(t) /\ mem[t] \in Missions
  BY DEF IInv, Place, Holding
<1>2. FinalOutcome(mem[t].steps, reason = "abort") \in Outcomes
  BY DEF FinalOutcome, Outcomes
<1>3. m \in Missions /\ m.steps = mem[t].steps
  BY <1>1, <1>2 DEF Missions
<1>4. /\ mem' = [mem EXCEPT ![t] = m] /\ disk' \in {m, Torn}
      /\ pc' = [pc EXCEPT ![t] = "over"]
      /\ at' = [at EXCEPT ![t] = 0] /\ executed' = [executed EXCEPT ![t] = 0]
      /\ budget' = [budget EXCEPT ![t] = NoBudget]
      /\ why' = [why EXCEPT ![t] = reason]
      /\ UNCHANGED <<launches, runs, refused>>
  BY DEF Conclude, Hold, Save, Goto, Locals
<1> HIDE DEF m
<1> QED BY <1>1, <1>3, <1>4, Over

LEMMA PauseStep == ASSUME IInv, NEW t \in Terminals, Pause(t) PROVE IInv'
<1> DEFINE m == [mem[t] EXCEPT !.done = FALSE, !.outcome = "paused"]
<1>1. Holding(t) /\ mem[t] \in Missions
  BY DEF IInv, Place, Holding, Pause, Goes, LoopOpen
<1>2. m \in Missions /\ m.steps = mem[t].steps
  BY <1>1 DEF Missions, Outcomes
<1>3. /\ mem' = [mem EXCEPT ![t] = m] /\ disk' \in {m, Torn}
      /\ pc' = [pc EXCEPT ![t] = "over"]
      /\ at' = [at EXCEPT ![t] = 0] /\ executed' = [executed EXCEPT ![t] = 0]
      /\ budget' = [budget EXCEPT ![t] = NoBudget]
      /\ why' = [why EXCEPT ![t] = "pause"]
      /\ UNCHANGED <<launches, runs, refused>>
  BY DEF Pause, Hold, Save, Goto, Locals
<1> HIDE DEF m
<1> QED BY <1>1, <1>2, <1>3, Over

(* A drive goes on: the terminal holds another mission, saves one, and     *)
(* stands in the loop or at an await.                                      *)
LEMMA Onward ==
  ASSUME IInv, NEW t \in Terminals,
         NEW m \in Missions, Coherent(m.steps), mem' = [mem EXCEPT ![t] = m],
         NEW sv \in Missions, Coherent(sv.steps), disk' \in {sv, Torn},
         NEW where \in {"loop", "executing", "reassessing"},
         pc' = [pc EXCEPT ![t] = where],
         NEW i \in Nat, at' = [at EXCEPT ![t] = i],
         where # "loop" => i \in DOMAIN m.steps /\ NoStartedNeeds(m.steps, i),
         executed' \in [Terminals -> 0 .. MaxSteps],
         why' \in [Terminals -> {"", "abort", "done", "steps", "nothing", "pause"}],
         runs' \in [1 .. MaxGrown -> Nat],
         UNCHANGED <<budget, launches>>, ~refused'
  PROVE  IInv'
<1> Values
  BY DEF IInv
<1>1. /\ disk' \in Missions \cup {NoMission, Torn}
      /\ mem' \in [Terminals -> Missions \cup {NoMission}]
      /\ mem'[t] = m
      /\ \A u \in Terminals \ {t} : mem'[u] = mem[u]
      /\ DiskOK' /\ MemOK'
  BY Written
<1>2. /\ at' \in [Terminals -> Nat] /\ at'[t] = i
      /\ \A u \in Terminals \ {t} : at'[u] = at[u]
  BY DEF Values
<1>3. Values'
  BY <1>1, <1>2, GotoTyped DEF Values
<1>4. Place(t)'
  <2>1. pc'[t] = where
    BY GotoTyped
  <2> QED BY <2>1, <1>1, <1>2 DEF Place, Holding
<1>5. \A u \in Terminals \ {t} : Place(u)'
  BY <1>1, <1>2, GotoTyped, Others
<1> QED BY <1>1, <1>3, <1>4, <1>5 DEF IInv

LEMMA SkipStep == ASSUME IInv, NEW t \in Terminals, SkipBlocked(t) PROVE IInv'
<1> DEFINE s == mem[t].steps
           i == First(Blocked(s))
           st == [s[i] EXCEPT !.status = "skipped"]
           m == SetSteps(t, [s EXCEPT ![i].status = "skipped"])
<1>1. /\ pc[t] = "loop" /\ Blocked(s) # {}
      /\ mem' = [mem EXCEPT ![t] = m] /\ disk' \in {m, Torn}
  BY DEF SkipBlocked, Goes, LoopOpen, Hold, Save
<1>2. mem[t] \in Missions /\ Coherent(s)
  BY <1>1 DEF IInv, Place, Holding, MemOK
<1>3. s \in Seq(StepStates) /\ DOMAIN s \subseteq Nat
  BY <1>2, LenProperties DEF Missions
<1>4. i \in Blocked(s)
  BY <1>1, <1>3, FirstIsMember DEF Blocked
<1>5. i \in DOMAIN s /\ s[i].status = "pending" /\ s[i] \in StepStates
  BY <1>2, <1>4, StepTyping DEF Blocked
<1>6. st \in StepStates /\ st.deps = s[i].deps /\ st.status = "skipped"
      /\ st.attempts = s[i].attempts
  BY <1>5 DEF StepStates, Statuses
<1>7. s[i].attempts > 0 => \A d \in s[i].deps : d # i /\ s[d].status \in Settled
  BY <1>2, <1>5 DEF Coherent, Settled
<1>8. m = [mem[t] EXCEPT !.steps = [s EXCEPT ![i] = st], !.spent = mem[t].spent]
  BY <1>2 DEF SetSteps, Missions
<1>9. m \in Missions /\ Coherent(m.steps)
  <2> HIDE DEF m, st, i
  <2>1. mem[t].spent \in Nat /\ st.status \in Settled
    BY <1>2, <1>6 DEF Missions, Settled
  <2>2. Replaces(st, s, i)
    BY <1>6, <1>7, <2>1 DEF Replaces
  <2> QED BY <1>2, <1>5, <1>8, <2>1, <2>2, SetStatus
<1>10. UNCHANGED <<pc, at, executed, budget, why, launches, runs, refused>>
  BY DEF SkipBlocked
<1> HIDE DEF m
<1>11. /\ pc' = [pc EXCEPT ![t] = "loop"]
       /\ at' = [at EXCEPT ![t] = at[t]] /\ at[t] \in Nat
  BY <1>1, <1>10 DEF IInv, Values
<1> QED BY <1>1, <1>9, <1>10, <1>11, Onward DEF IInv, Values

LEMMA RunStepStep == ASSUME IInv, NEW t \in Terminals, RunStep(t) PROVE IInv'
<1> DEFINE s == mem[t].steps
           i == First(Ready(s))
           st == [s[i] EXCEPT !.status = "running", !.attempts = @ + 1]
           m == SetSteps(t, [s EXCEPT ![i].status = "running",
                                      ![i].attempts = @ + 1])
<1>1. /\ pc[t] = "loop" /\ executed[t] < MaxSteps /\ Ready(s) # {}
      /\ mem' = [mem EXCEPT ![t] = m] /\ disk' \in {m, Torn}
      /\ pc' = [pc EXCEPT ![t] = "executing"]
      /\ at' = [at EXCEPT ![t] = i]
      /\ runs' = [runs EXCEPT ![i] = @ + 1]
      /\ executed' = [executed EXCEPT ![t] = @ + 1]
      /\ UNCHANGED <<budget, why, launches, refused>>
  BY DEF RunStep, Goes, LoopOpen, Hold, Save, Goto
<1>2. mem[t] \in Missions /\ Coherent(s)
  BY <1>1 DEF IInv, Place, Holding, MemOK
<1>3. s \in Seq(StepStates) /\ DOMAIN s \subseteq Nat
  BY <1>2, LenProperties DEF Missions
<1>4. i \in Ready(s)
  BY <1>1, <1>3, FirstIsMember DEF Ready
<1>5. i \in DOMAIN s /\ s[i].status = "pending" /\ s[i] \in StepStates
  BY <1>2, <1>4, StepTyping DEF Ready
<1>6. /\ st \in StepStates /\ st.deps = s[i].deps
  <2> HIDE DEF s, i
  <2> QED BY <1>5, StartedStep
<1>7. \A d \in s[i].deps : d # i /\ s[d].status \in Settled
  BY <1>4, <1>5 DEF Ready, Satisfied, Settled
<1>8. NoStartedNeeds(s, i)
  BY <1>2, <1>5 DEF NoStartedNeeds, Coherent, Settled
<1>9. m = [mem[t] EXCEPT !.steps = [s EXCEPT ![i] = st], !.spent = mem[t].spent]
  BY <1>2 DEF SetSteps, Missions
<1>10. m \in Missions /\ Coherent(m.steps) /\ DOMAIN m.steps = DOMAIN s
  <2>1. mem[t].spent \in Nat
    BY <1>2 DEF Missions
  <2> HIDE DEF m, st, i
  <2>2. Replaces(st, s, i)
    BY <1>6, <1>7, <1>8 DEF Replaces
  <2>3. m \in Missions /\ Coherent(m.steps)
    BY <1>2, <1>5, <1>9, <2>1, <2>2, SetStatus
  <2>4. m.steps = [s EXCEPT ![i] = st]
    BY <1>2, <1>9 DEF Missions
  <2> QED BY <2>3, <2>4
<1>11. NoStartedNeeds(m.steps, i)
  <2>1. m.steps = [s EXCEPT ![i] = st]
    BY <1>2, <1>9 DEF Missions
  <2> HIDE DEF m, st, i
  <2>2. \A j \in DOMAIN s : m.steps[j] = IF j = i THEN st ELSE s[j]
    BY <2>1
  <2>3. i \notin st.deps
    BY <1>6, <1>7
  <2> QED BY <2>2, <2>3, <1>8, <1>10 DEF NoStartedNeeds
<1>12. runs' \in [1 .. MaxGrown -> Nat]
  <2>1. runs \in [1 .. MaxGrown -> Nat] /\ runs' = [runs EXCEPT ![i] = @ + 1]
    BY <1>1 DEF IInv, Values
  <2> HIDE DEF i
  <2> QED BY <2>1, Counted
<1>13. executed' \in [Terminals -> 0 .. MaxSteps]
  <2>1. executed \in [Terminals -> 0 .. MaxSteps] /\ MaxSteps \in Nat
    BY LimitsAreNumbers DEF IInv, Values
  <2>2. executed[t] + 1 \in 0 .. MaxSteps
    BY <2>1, <1>1
  <2> QED BY <2>1, <2>2, <1>1
<1>14. i \in Nat /\ i \in DOMAIN m.steps
  BY <1>3, <1>5, <1>10
<1>15. why' \in [Terminals -> {"", "abort", "done", "steps", "nothing", "pause"}]
  BY <1>1 DEF IInv, Values
<1> HIDE DEF m, i, st
<1>16. ~refused'
  BY <1>1 DEF IInv
<1> QED BY <1>1, <1>10, <1>11, <1>12, <1>13, <1>14, <1>15, <1>16, Onward

LEMMA ReturnStep == ASSUME IInv, NEW t \in Terminals, StepReturns(t) PROVE IInv'
<1> DEFINE s == mem[t].steps
           i == at[t]
<1>1. /\ pc[t] = "executing"
      /\ UNCHANGED <<executed, budget, why, launches, runs, refused>>
  BY DEF StepReturns
<1>2. PICK ok \in BOOLEAN, cost \in Reported :
        LET m == [mem[t] EXCEPT
                    !.steps[i].status = IF ok THEN "done" ELSE "failed",
                    !.spent = @ + cost]
        IN /\ mem' = [mem EXCEPT ![t] = m] /\ disk' \in {m, Torn}
           /\ pc' = [pc EXCEPT ![t] =
                        IF ok /\ ~s[i].gate THEN "loop" ELSE "reassessing"]
           /\ at' = [at EXCEPT ![t] = IF ok /\ ~s[i].gate THEN 0 ELSE @]
  BY DEF StepReturns, Hold, Save, Goto
<1> DEFINE status == IF ok THEN "done" ELSE "failed"
           st == [s[i] EXCEPT !.status = status]
           m == [mem[t] EXCEPT !.steps[i].status = status, !.spent = @ + cost]
           where == IF ok /\ ~s[i].gate THEN "loop" ELSE "reassessing"
           a == IF ok /\ ~s[i].gate THEN 0 ELSE i
<1>3. mem[t] \in Missions /\ Coherent(s) /\ i \in DOMAIN s /\ NoStartedNeeds(s, i)
  BY <1>1 DEF IInv, Place, Holding, MemOK
<1>4. s[i] \in StepStates
  BY <1>3, StepTyping
<1>5. /\ st \in StepStates /\ st.deps = s[i].deps /\ st.attempts = s[i].attempts
  BY <1>4 DEF StepStates, Statuses
<1>6. st.attempts > 0 => \A d \in st.deps : d # i /\ s[d].status \in Settled
  BY <1>3, <1>5 DEF Coherent, NoStartedNeeds
<1>7. cost \in Nat
  BY <1>2, CostsAreBounded DEF Reported
<1>8. mem[t].spent + cost \in Nat
  BY <1>3, <1>7 DEF Missions
<1>9. m = [mem[t] EXCEPT !.steps = [s EXCEPT ![i] = st], !.spent = mem[t].spent + cost]
  BY <1>3 DEF Missions
<1>10. m \in Missions /\ Coherent(m.steps) /\ DOMAIN m.steps = DOMAIN s
  <2> HIDE DEF m, st, i, status
  <2>1. Replaces(st, s, i)
    BY <1>3, <1>5, <1>6 DEF Replaces
  <2>2. m \in Missions /\ Coherent(m.steps)
    BY <1>3, <1>8, <1>9, <2>1, SetStatus
  <2>3. m.steps = [s EXCEPT ![i] = st]
    BY <1>3, <1>9 DEF Missions
  <2> QED BY <2>2, <2>3
<1>11. NoStartedNeeds(m.steps, i)
  <2>1. m.steps = [s EXCEPT ![i] = st]
    BY <1>3, <1>9 DEF Missions
  <2> HIDE DEF m, st, i
  <2>2. \A j \in DOMAIN s : m.steps[j] = IF j = i THEN st ELSE s[j]
    BY <2>1
  <2> QED BY <2>2, <1>3, <1>5, <1>10 DEF NoStartedNeeds
<1>12. /\ mem' = [mem EXCEPT ![t] = m] /\ disk' \in {m, Torn}
       /\ pc' = [pc EXCEPT ![t] = where] /\ at' = [at EXCEPT ![t] = a]
  BY <1>2
<1>13. a \in Nat /\ where \in {"loop", "executing", "reassessing"}
       /\ (where # "loop" => a = i)
  BY DEF IInv, Values
<1>14. /\ executed' \in [Terminals -> 0 .. MaxSteps]
       /\ why' \in [Terminals -> {"", "abort", "done", "steps", "nothing", "pause"}]
       /\ runs' \in [1 .. MaxGrown -> Nat] /\ ~refused'
  BY <1>1 DEF IInv, Values
<1> HIDE DEF m, where, a, st, status
<1>15. where # "loop" => a \in DOMAIN m.steps /\ NoStartedNeeds(m.steps, a)
  BY <1>3, <1>10, <1>11, <1>13
<1> QED BY <1>1, <1>10, <1>12, <1>13, <1>14, <1>15, Onward

(* A decision that leaves a coherent plan.                                 *)
LEMMA DecideStep ==
  ASSUME IInv, NEW t \in Terminals, pc[t] = "reassessing",
         NEW m \in Missions, Coherent(m.steps),
         NEW sv \in Missions, Coherent(sv.steps), Decide(t, m, sv),
         why' \in [Terminals -> {"", "abort", "done", "steps", "nothing", "pause"}],
         ~refused'
  PROVE  IInv'
<1>1. /\ mem' = [mem EXCEPT ![t] = m] /\ disk' \in {sv, Torn}
      /\ pc' = [pc EXCEPT ![t] = "loop"] /\ at' = [at EXCEPT ![t] = 0]
      /\ UNCHANGED <<executed, budget, launches, runs>>
  BY DEF Decide, Hold, Save, Goto
<1>2. executed' \in [Terminals -> 0 .. MaxSteps] /\ runs' \in [1 .. MaxGrown -> Nat]
  BY <1>1 DEF IInv, Values
<1> QED BY <1>1, <1>2, Onward

LEMMA Judged ==
  ASSUME IInv, NEW t \in Terminals, Judging(t)
  PROVE  /\ pc[t] = "reassessing"
         /\ mem[t] \in Missions /\ Coherent(mem[t].steps) /\ mem[t].spent \in Nat
         /\ at[t] \in DOMAIN mem[t].steps /\ NoStartedNeeds(mem[t].steps, at[t])
         /\ mem[t].steps[at[t]] \in StepStates
         /\ why \in [Terminals -> {"", "abort", "done", "steps", "nothing", "pause"}]
         /\ ~refused
<1>1. /\ pc[t] = "reassessing"
      /\ mem[t] \in Missions /\ Coherent(mem[t].steps)
      /\ at[t] \in DOMAIN mem[t].steps /\ NoStartedNeeds(mem[t].steps, at[t])
      /\ why \in [Terminals -> {"", "abort", "done", "steps", "nothing", "pause"}]
      /\ ~refused
  BY DEF Judging, IInv, Values, Place, Holding, MemOK
<1> QED BY <1>1, StepTyping DEF Missions

(* The judged step, put back or superseded, may take its own place.        *)
LEMMA JudgedReplaces ==
  ASSUME IInv, NEW t \in Terminals, Judging(t), NEW st \in StepStates,
         st.deps = mem[t].steps[at[t]].deps,
         st.attempts = mem[t].steps[at[t]].attempts
  PROVE  Replaces(st, mem[t].steps, at[t])
<1> DEFINE s == mem[t].steps
           i == at[t]
<1>1. Coherent(s) /\ i \in DOMAIN s /\ NoStartedNeeds(s, i)
  BY Judged
<1> HIDE DEF s, i
<1>2. st.deps = s[i].deps /\ st.attempts = s[i].attempts
  BY DEF s, i
<1>3. st.attempts > 0 => \A d \in st.deps : d # i /\ s[d].status \in Settled
  BY <1>1, <1>2 DEF Coherent, NoStartedNeeds
<1>4. Replaces(st, s, i)
  BY <1>1, <1>2, <1>3 DEF Replaces
<1> QED BY <1>4 DEF s, i

LEMMA JudgedStatus ==
  ASSUME IInv, NEW t \in Terminals, Judging(t),
         NEW status \in Statuses, NEW cap \in Capabilities, NEW m,
         m = [mem[t] EXCEPT
                !.steps = [mem[t].steps EXCEPT
                             ![at[t]] = [@ EXCEPT !.status = status, !.cap = cap]]]
  PROVE  m \in Missions /\ Coherent(m.steps)
<1> DEFINE s == mem[t].steps
           i == at[t]
           x == s[i]
           st == [x EXCEPT !.status = status, !.cap = cap]
<1>1. mem[t] \in Missions /\ Coherent(s) /\ mem[t].spent \in Nat
      /\ i \in DOMAIN s /\ x \in StepStates
  BY Judged
<1>2. st \in StepStates /\ st.deps = x.deps /\ st.attempts = x.attempts
  <2> HIDE DEF x
  <2> QED BY <1>1 DEF StepStates
<1> HIDE DEF st
<1>4. Replaces(st, s, i)
  BY <1>2, JudgedReplaces
<1>5. /\ [s EXCEPT ![i] = st] \in Seq(StepStates)
      /\ Coherent([s EXCEPT ![i] = st])
  <2>1. s \in Seq(StepStates)
    BY <1>1 DEF Missions
  <2> QED BY <2>1, <1>1, <1>4, SetStep
<1>6. m = [mem[t] EXCEPT !.steps = [s EXCEPT ![i] = st]]
  BY DEF st
<1> HIDE DEF i, s
<1> QED BY <1>1, <1>5, <1>6 DEF Missions

LEMMA AcceptStep == ASSUME IInv, NEW t \in Terminals, AcceptResult(t) PROVE IInv'
<1>1. Judging(t) /\ Decide(t, mem[t], mem[t]) /\ UNCHANGED <<why, refused>>
  BY DEF AcceptResult
<1> QED BY <1>1, Judged, DecideStep

LEMMA GiveUpStep == ASSUME IInv, NEW t \in Terminals, GiveUp(t) PROVE IInv'
<1>1. /\ Judging(t) /\ Decide(t, mem[t], mem[t]) /\ UNCHANGED refused
      /\ why' = [why EXCEPT ![t] = "abort"]
  BY DEF GiveUp
<1>2. why' \in [Terminals -> {"", "abort", "done", "steps", "nothing", "pause"}]
  BY <1>1, Judged
<1> QED BY <1>1, <1>2, Judged, DecideStep

LEMMA DeclareStep == ASSUME IInv, NEW t \in Terminals, DeclareDone(t) PROVE IInv'
<1> DEFINE m == [mem[t] EXCEPT !.done = TRUE]
<1>1. Judging(t) /\ Decide(t, m, mem[t]) /\ UNCHANGED <<why, refused>>
  BY DEF DeclareDone
<1>2. m \in Missions /\ m.steps = mem[t].steps
  BY <1>1, Judged DEF Missions
<1> HIDE DEF m
<1> QED BY <1>1, <1>2, Judged, DecideStep

LEMMA RetryStep == ASSUME IInv, NEW t \in Terminals, Retry(t) PROVE IInv'
<1> DEFINE m == SetSteps(t, [mem[t].steps EXCEPT ![at[t]].status = "pending"])
<1>1. Judging(t) /\ Decide(t, m, m) /\ UNCHANGED <<why, refused>>
  BY DEF Retry, MayRerun
<1>2. mem[t].steps[at[t]].cap \in Capabilities
  BY <1>1, Judged DEF StepStates
<1>3. m = [mem[t] EXCEPT
             !.steps = [mem[t].steps EXCEPT
                          ![at[t]] = [@ EXCEPT !.status = "pending",
                                               !.cap = mem[t].steps[at[t]].cap]]]
  BY <1>1, Judged DEF SetSteps, Missions, StepStates
<1> HIDE DEF m
<1>4. m \in Missions /\ Coherent(m.steps)
  BY <1>1, <1>2, <1>3, JudgedStatus DEF Statuses
<1> QED BY <1>1, <1>4, Judged, DecideStep

LEMMA EscalateStep == ASSUME IInv, NEW t \in Terminals, Escalate(t) PROVE IInv'
<1>1. PICK cap \in Stronger :
        LET m == SetSteps(t, [mem[t].steps EXCEPT ![at[t]].status = "pending",
                                                  ![at[t]].cap = cap])
        IN MayRerun(t) /\ Decide(t, m, m) /\ UNCHANGED <<why, refused>>
  BY DEF Escalate
<1> DEFINE m == SetSteps(t, [mem[t].steps EXCEPT ![at[t]].status = "pending",
                                                 ![at[t]].cap = cap])
<1>2. Judging(t) /\ Decide(t, m, m) /\ UNCHANGED <<why, refused>>
  BY <1>1 DEF MayRerun
<1>3. m = [mem[t] EXCEPT
             !.steps = [mem[t].steps EXCEPT
                          ![at[t]] = [@ EXCEPT !.status = "pending", !.cap = cap]]]
  BY <1>2, Judged DEF SetSteps, Missions, StepStates
<1>4. cap \in Capabilities
  BY StrongerAreCapabilities
<1> HIDE DEF m
<1>5. m \in Missions /\ Coherent(m.steps)
  BY <1>2, <1>3, <1>4, JudgedStatus DEF Statuses
<1> QED BY <1>2, <1>5, Judged, DecideStep

LEMMA ReplanStep == ASSUME IInv, NEW t \in Terminals, Replan(t) PROVE IInv'
<1> DEFINE failed == Current(t).status = "failed"
           kept == IF failed
                   THEN SetSteps(t, [mem[t].steps EXCEPT ![at[t]].status = "skipped"])
                   ELSE mem[t]
<1>1. /\ Judging(t)
      /\ \E add \in Additions :
           LET s == Spliced(kept.steps, add)
           IN /\ Decide(t, [kept EXCEPT !.steps = s], kept)
              /\ refused' = (refused \/ (add # <<>> /\ s = kept.steps))
              /\ UNCHANGED why
  BY DEF Replan
<1>2. kept \in Missions /\ Coherent(kept.steps)
  <2>1. CASE failed
    <3>1. mem[t].steps[at[t]].cap \in Capabilities
      BY <1>1, Judged DEF StepStates
    <3>2. kept = [mem[t] EXCEPT
                    !.steps = [mem[t].steps EXCEPT
                                 ![at[t]] = [@ EXCEPT
                                    !.status = "skipped",
                                    !.cap = mem[t].steps[at[t]].cap]]]
      BY <1>1, <2>1, Judged DEF SetSteps, Missions, StepStates
    <3> HIDE DEF kept
    <3> QED BY <1>1, <3>1, <3>2, JudgedStatus DEF Statuses
  <2>2. CASE ~failed
    BY <1>1, <2>2, Judged
  <2> QED BY <2>1, <2>2
<1> HIDE DEF kept
<1>3. PICK add \in Additions :
        LET s == Spliced(kept.steps, add)
        IN /\ Decide(t, [kept EXCEPT !.steps = s], kept)
           /\ refused' = (refused \/ (add # <<>> /\ s = kept.steps))
           /\ UNCHANGED why
  BY <1>1
<1> DEFINE s == Spliced(kept.steps, add)
           m == [kept EXCEPT !.steps = s]
<1>4. kept.steps \in Seq(StepStates) /\ add \in Seq(PlanSteps)
  BY <1>2, AdditionsAreSteps DEF Missions
<1>5. s \in Seq(StepStates) /\ Coherent(s) /\ (add # <<>> => s # kept.steps)
  BY <1>2, <1>4, SpliceJoins
<1>6. m \in Missions /\ m.steps = s
  <2> HIDE DEF s
  <2> QED BY <1>2, <1>5 DEF Missions
<1>7. ~refused'
  BY <1>1, <1>3, <1>5, Judged
<1>8. Decide(t, m, kept) /\ UNCHANGED why
  BY <1>3
<1> HIDE DEF m, s
<1> QED BY <1>1, <1>2, <1>5, <1>6, <1>7, <1>8, Judged, DecideStep

(* A terminal takes up a mission, or lets go of one; the disk is only read. *)
LEMMA Taken ==
  ASSUME IInv, NEW t \in Terminals,
         NEW x \in Missions \cup {NoMission}, x \in Missions => Coherent(x.steps),
         mem' = [mem EXCEPT ![t] = x],
         NEW where \in {"idle", "offering", "loop"}, where # "idle" => x \in Missions,
         pc' = [pc EXCEPT ![t] = where],
         at' \in [Terminals -> Nat],
         \A u \in Terminals \ {t} : at'[u] = at[u],
         executed' \in [Terminals -> 0 .. MaxSteps],
         budget' \in [Terminals -> Budgets \cup {NoBudget}],
         why' \in [Terminals -> {"", "abort", "done", "steps", "nothing", "pause"}],
         launches' \in 0 .. MaxLaunches,
         UNCHANGED <<disk, runs, refused>>
  PROVE  IInv'
<1> Values
  BY DEF IInv
<1>1. /\ pc' \in [Terminals -> {"idle", "offering", "loop", "executing",
                                "reassessing", "over"}]
      /\ pc'[t] = where
      /\ \A u \in Terminals \ {t} : pc'[u] = pc[u]
  BY GotoTyped
<1>2. /\ mem' \in [Terminals -> Missions \cup {NoMission}]
      /\ mem'[t] = x
      /\ \A u \in Terminals \ {t} : mem'[u] = mem[u]
  BY DEF Values
<1>3. disk' \in Missions \cup {NoMission, Torn} /\ runs' \in [1 .. MaxGrown -> Nat]
  BY DEF Values
<1>4. Values'
  BY <1>1, <1>2, <1>3 DEF Values
<1>5. DiskOK' /\ MemOK' /\ ~refused'
  BY <1>2 DEF IInv, DiskOK, MemOK
<1>6. \A u \in Terminals : Place(u)'
  BY <1>1, <1>2, Others DEF Place, Holding
<1> QED BY <1>4, <1>5, <1>6 DEF IInv

LEMMA LaunchTyped == launches \in 0 .. MaxLaunches /\ launches < MaxLaunches
                        => launches + 1 \in 0 .. MaxLaunches
BY LimitsAreNumbers

(* A drive begins.                                                         *)
LEMMA DriveStep ==
  ASSUME IInv, NEW t \in Terminals, launches < MaxLaunches,
         NEW m \in Missions, Coherent(m.steps),
         NEW b \in Budgets \cup {NoBudget}, Drive(t, m, b)
  PROVE  IInv'
<1>1. /\ pc' = [pc EXCEPT ![t] = "loop"] /\ mem' = [mem EXCEPT ![t] = m]
      /\ at' = [at EXCEPT ![t] = 0] /\ executed' = [executed EXCEPT ![t] = 0]
      /\ budget' = [budget EXCEPT ![t] = b] /\ why' = [why EXCEPT ![t] = ""]
      /\ launches' = launches + 1 /\ UNCHANGED <<disk, runs, refused>>
  BY DEF Drive, Locals
<1>2. /\ at' \in [Terminals -> Nat]
      /\ executed' \in [Terminals -> 0 .. MaxSteps]
      /\ budget' \in [Terminals -> Budgets \cup {NoBudget}]
      /\ why' \in [Terminals -> {"", "abort", "done", "steps", "nothing", "pause"}]
      /\ \A u \in Terminals \ {t} : at'[u] = at[u]
  BY <1>1, LocalsTyped DEF IInv
<1>3. launches' \in 0 .. MaxLaunches
  BY <1>1, LaunchTyped DEF IInv, Values
<1> QED BY <1>1, <1>2, <1>3, Taken

(* What the planner authored, before its first step.                       *)
LEMMA FreshCoherent ==
  ASSUME NEW p \in Plans
  PROVE  Fresh(p) \in Seq(StepStates) /\ Coherent(Fresh(p))
<1> DEFINE f == Fresh(p)
<1>1. /\ p \in Seq(PlanSteps)
      /\ \A i \in DOMAIN p : p[i].deps \subseteq DOMAIN p
      /\ Acyclic(p)
  BY PlansAreDags
<1>2. DOMAIN p = 1 .. Len(p) /\ Len(p) \in Nat
  BY <1>1, LenProperties
<1>3. DOMAIN f = DOMAIN p
  BY DEF Fresh
<1>4. \A i \in DOMAIN p : f[i].deps = p[i].deps /\ f[i].attempts = 0
  BY DEF Fresh
<1>5. \A i \in DOMAIN p : f[i] \in StepStates
  <2> SUFFICES ASSUME NEW i \in DOMAIN p PROVE f[i] \in StepStates
    OBVIOUS
  <2>1. p[i] \in PlanSteps
    BY <1>1, <1>2, ElementOfSeq
  <2> QED BY <2>1 DEF Fresh, PlanSteps, StepStates, Statuses
<1>6. f \in Seq(StepStates)
  <2>1. f \in [1 .. Len(p) -> StepStates]
    BY <1>2, <1>5 DEF Fresh
  <2> HIDE DEF f
  <2> QED BY <2>1, <1>2, SeqDef
<1> HIDE DEF f
<1>7. Acyclic(f)
  BY <1>1, <1>3, <1>4 DEF Acyclic
<1>8. f \in Seq(StepStates) /\ Coherent(f)
  BY <1>1, <1>3, <1>4, <1>6, <1>7 DEF Coherent
<1> QED BY <1>8 DEF f

LEMMA StartStep == ASSUME IInv, NEW t \in Terminals, Start(t) PROVE IInv'
<1>1. PICK p \in Plans, b \in Budgets \cup {NoBudget} :
        Drive(t, [steps |-> Fresh(p), spent |-> 0, done |-> FALSE,
                  outcome |-> "pending"], b)
  BY DEF Start
<1> DEFINE m == [steps |-> Fresh(p), spent |-> 0, done |-> FALSE,
                 outcome |-> "pending"]
<1>2. m \in Missions /\ Coherent(m.steps)
  BY FreshCoherent DEF Missions, Outcomes
<1>3. Drive(t, m, b) /\ launches < MaxLaunches
  BY <1>1 DEF Start
<1> HIDE DEF m
<1> QED BY <1>2, <1>3, DriveStep

LEMMA TakeStep == ASSUME IInv, NEW t \in Terminals, TakeOffer(t) PROVE IInv'
<1> DEFINE m == [mem[t] EXCEPT !.done = FALSE]
<1>1. pc[t] = "offering" /\ launches < MaxLaunches /\ Drive(t, m, NoBudget)
  BY DEF TakeOffer
<1>2. mem[t] \in Missions /\ Coherent(mem[t].steps)
  BY <1>1 DEF IInv, Place, Holding, MemOK
<1>3. m \in Missions /\ m.steps = mem[t].steps
  BY <1>2 DEF Missions
<1> HIDE DEF m
<1> QED BY <1>1, <1>2, <1>3, DriveStep

LEMMA OfferStep == ASSUME IInv, NEW t \in Terminals, Offer(t) PROVE IInv'
<1>1. /\ Readable /\ pc' = [pc EXCEPT ![t] = "offering"]
      /\ mem' = [mem EXCEPT ![t] = disk]
      /\ UNCHANGED <<disk, at, executed, budget, why, launches, runs, refused>>
  BY DEF Offer
<1>2. disk \in Missions /\ Coherent(disk.steps)
  BY <1>1 DEF IInv, Values, DiskOK, Readable
<1> QED BY <1>1, <1>2, Taken DEF IInv, Values

LEMMA DeclineStep == ASSUME IInv, NEW t \in Terminals, DeclineOffer(t) PROVE IInv'
<1>1. /\ pc' = [pc EXCEPT ![t] = "idle"] /\ mem' = [mem EXCEPT ![t] = NoMission]
      /\ UNCHANGED <<disk, at, executed, budget, why, launches, runs, refused>>
  BY DEF DeclineOffer
<1> QED BY <1>1, Taken, MarkersAreNoMissions DEF IInv, Values

LEMMA CrashStep == ASSUME IInv, NEW t \in Terminals, Crash(t) PROVE IInv'
<1>1. /\ pc' = [pc EXCEPT ![t] = "idle"] /\ mem' = [mem EXCEPT ![t] = NoMission]
      /\ at' = [at EXCEPT ![t] = 0] /\ executed' = [executed EXCEPT ![t] = 0]
      /\ budget' = [budget EXCEPT ![t] = NoBudget]
      /\ why' = [why EXCEPT ![t] = ""]
      /\ UNCHANGED <<disk, launches, runs, refused>>
  BY DEF Crash, Locals
<1>2. /\ at' \in [Terminals -> Nat]
      /\ executed' \in [Terminals -> 0 .. MaxSteps]
      /\ budget' \in [Terminals -> Budgets \cup {NoBudget}]
      /\ why' \in [Terminals -> {"", "abort", "done", "steps", "nothing", "pause"}]
      /\ \A u \in Terminals \ {t} : at'[u] = at[u]
  BY <1>1, LocalsTyped DEF IInv
<1>3. launches' \in 0 .. MaxLaunches
  BY <1>1 DEF IInv, Values
<1> QED BY <1>1, <1>2, <1>3, Taken, MarkersAreNoMissions

(* What IInv speaks of is left alone.                                      *)
LEMMA StutterStep ==
  ASSUME IInv,
         UNCHANGED <<disk, pc, mem, at, executed, budget, why, launches, runs, refused>>
  PROVE  IInv'
BY DEF IInv, Values, DiskOK, MemOK, Place, Holding

-----------------------------------------------------------------------------
(* The invariant.                                                          *)

LEMMA InitInv == Init => IInv /\ Flags
<1> SUFFICES ASSUME Init PROVE IInv /\ Flags
  OBVIOUS
<1> USE DEF Init
<1>1. executed \in [Terminals -> 0 .. MaxSteps]
  BY ZeroExecuted
<1>2. Values
  <2>1. launches \in 0 .. MaxLaunches
    BY ZeroExecuted
  <2> QED BY <1>1, <2>1 DEF Values
<1>3. DiskOK /\ MemOK
  BY MarkersAreNoMissions DEF DiskOK, MemOK
<1>4. \A t \in Terminals : Place(t)
  BY DEF Place, Holding
<1> QED BY <1>2, <1>3, <1>4 DEF IInv, Flags

LEMMA NextInv == IInv /\ [Next]_vars => IInv'
<1> SUFFICES ASSUME IInv, [Next]_vars PROVE IInv'
  OBVIOUS
<1>1. CASE UNCHANGED vars
  BY <1>1, StutterStep DEF vars
<1>2. CASE Rest
  BY <1>2, StutterStep DEF Rest, vars
<1>3. ASSUME NEW t \in Terminals, Loop(t) PROVE IInv'
  <2>1. CASE EndAborted(t)
    BY <2>1, ConcludeStep DEF EndAborted
  <2>2. CASE EndDeclared(t)
    BY <2>2, ConcludeStep DEF EndDeclared
  <2>3. CASE EndExhausted(t)
    BY <2>3, ConcludeStep DEF EndExhausted
  <2>4. CASE EndNothingReady(t)
    BY <2>4, ConcludeStep DEF EndNothingReady, Goes, LoopOpen
  <2> QED BY <1>3, <2>1, <2>2, <2>3, <2>4, PauseStep, SkipStep, RunStepStep DEF Loop
<1>4. ASSUME NEW t \in Terminals, StepReturns(t) PROVE IInv'
  BY <1>4, ReturnStep
<1>5. ASSUME NEW t \in Terminals, Reassess(t) PROVE IInv'
  BY <1>5, AcceptStep, GiveUpStep, DeclareStep, RetryStep, EscalateStep, ReplanStep
     DEF Reassess
<1>6. ASSUME NEW t \in Terminals, Users(t) PROVE IInv'
  <2>1. CASE Escape(t)
    BY <2>1, StutterStep DEF Escape
  <2> QED BY <1>6, <2>1, StartStep, OfferStep, TakeStep, DeclineStep, CrashStep
          DEF Users
<1> QED BY <1>1, <1>2, <1>3, <1>4, <1>5, <1>6 DEF Next, Drives

(* Every variable keeps its type; in particular no drive executes more     *)
(* than maxSteps steps, whatever the reassessor answers.                   *)
THEOREM MissionTypes == Spec => []TypeOK
<1>1. Init => IInv /\ Flags
  BY InitInv
<1>2. (IInv /\ Flags) /\ [Next]_vars => (IInv /\ Flags)'
  BY NextInv, FlagsStep
<1>3. IInv /\ Flags => TypeOK
  BY DEF IInv, TypeOK
<1> QED BY <1>1, <1>2, <1>3, PTL DEF Spec

(* However a plan is retried, escalated, spliced, crashed, resumed or      *)
(* driven twice, no copy of the mission holds a step that was started      *)
(* without its dependencies being done or skipped.                         *)
THEOREM DependenciesHold == Spec => []DependenciesFirst
<1>1. Init => IInv
  BY InitInv
<1>2. IInv /\ [Next]_vars => IInv'
  BY NextInv
<1>3. IInv => DependenciesFirst
  <2> SUFFICES ASSUME IInv, NEW m \in Copies
               PROVE  \A i \in DOMAIN m.steps :
                        m.steps[i].attempts > 0 =>
                          \A d \in m.steps[i].deps :
                            m.steps[d].status \in {"done", "skipped"}
    BY DEF DependenciesFirst
  <2>1. m \in Missions /\ Coherent(m.steps)
    BY DEF Copies, IInv, Values, DiskOK, MemOK
  <2> QED BY <2>1 DEF Coherent, Settled
<1> QED BY <1>1, <1>2, <1>3, PTL DEF Spec

(* The cycle check of a replan's splice never refuses what it is given:    *)
(* the filter on known ids already rules a cycle out.                      *)
THEOREM SplicesJoin == Spec => []SplicesAreAccepted
<1>1. Init => IInv
  BY InitInv
<1>2. IInv /\ [Next]_vars => IInv'
  BY NextInv
<1>3. IInv => SplicesAreAccepted
  BY DEF IInv, SplicesAreAccepted
<1> QED BY <1>1, <1>2, <1>3, PTL DEF Spec

-----------------------------------------------------------------------------
(* The limits, and the checkpoint.                                         *)

(* A step that may still run has attempts left.                            *)
Bounded(s) ==
    \A i \in DOMAIN s :
        /\ s[i].attempts <= MaxAttempts
        /\ s[i].status = "pending" => s[i].attempts < MaxAttempts

(* What the supervisor does to a plan other than running a step: attempts  *)
(* are kept, and steps that join have none.                                *)
Evolves(s, r) ==
    /\ DOMAIN s \subseteq DOMAIN r
    /\ \A i \in DOMAIN s : r[i].attempts = s[i].attempts
    /\ \A i \in DOMAIN r \ DOMAIN s : r[i].attempts = 0
    /\ Bounded(s) => Bounded(r)

(* The attempts a copy remembers are no fewer than the calls made.         *)
Counts(s) == \A i \in DOMAIN runs : runs[i] <= (IF i \in DOMAIN s THEN s[i].attempts ELSE 0)

(* A drive's event, other than the start of a step.                        *)
Moves(t, m, sv) ==
    /\ Active(t) /\ mem[t] \in Missions
    /\ m \in Missions /\ mem' = [mem EXCEPT ![t] = m]
    /\ sv \in Missions /\ disk' \in {sv, Torn}
    /\ Evolves(mem[t].steps, m.steps) /\ Evolves(mem[t].steps, sv.steps)
    /\ \A u \in Terminals \ {t} : pc'[u] = pc[u]
    /\ pc'[t] \in {"loop", "reassessing", "over"}
    /\ pc'[t] = "reassessing" => sv = m
    /\ pc'[t] # "over" => budget' = budget
    /\ \A u \in Terminals \ {t} : budget'[u] = budget[u]
    /\ IF pc[t] = "executing" THEN m.spent \in mem[t].spent .. mem[t].spent + MaxCost
                              ELSE m.spent = mem[t].spent
    /\ UNCHANGED <<runs, overlapped>>

LEMMA SameEvolves == ASSUME NEW s PROVE Evolves(s, s)
BY DEF Evolves

LEMMA EvolvesOn ==
  ASSUME NEW s, NEW r, NEW q, Evolves(s, r), Evolves(r, q)
  PROVE  Evolves(s, q)
BY DEF Evolves

LEMMA StepEvolves ==
  ASSUME NEW s, NEW i \in DOMAIN s, NEW st, st.attempts = s[i].attempts,
         st.status = "pending" => st.attempts < MaxAttempts
  PROVE  Evolves(s, [s EXCEPT ![i] = st])
<1> DEFINE r == [s EXCEPT ![i] = st]
<1>1. DOMAIN r = DOMAIN s /\ \A j \in DOMAIN s : r[j] = IF j = i THEN st ELSE s[j]
  OBVIOUS
<1> HIDE DEF r
<1>2. \A j \in DOMAIN s : r[j].attempts = s[j].attempts
  BY <1>1
<1>3. Bounded(s) => Bounded(r)
  BY <1>1, <1>2 DEF Bounded
<1>4. Evolves(s, r)
  BY <1>1, <1>2, <1>3 DEF Evolves
<1> QED BY <1>4 DEF r

LEMMA SpliceEvolves ==
  ASSUME NEW s \in Seq(StepStates), NEW add \in Seq(PlanSteps)
  PROVE  Evolves(s, Spliced(s, add))
<1> DEFINE new == [k \in DOMAIN add |->
                    [cap |-> add[k].cap, gate |-> add[k].gate,
                     deps |-> {d \in add[k].deps : 0 < d /\ d < Len(s) + k},
                     status |-> "pending", attempts |-> 0]]
           r == s \o new
<1>1. /\ DOMAIN s = 1 .. Len(s) /\ Len(s) \in Nat
      /\ DOMAIN add = 1 .. Len(add) /\ Len(add) \in Nat
  BY LenProperties
<1>2. new \in Seq(StepStates)
  <2>1. ASSUME NEW k \in DOMAIN add PROVE new[k] \in StepStates
    <3>1. add[k] \in PlanSteps
      BY <1>1, ElementOfSeq
    <3> QED BY <3>1 DEF PlanSteps, StepStates, Statuses
  <2>2. new \in [1 .. Len(add) -> StepStates]
    BY <1>1, <2>1
  <2> HIDE DEF new
  <2> QED BY <2>2, <1>1, SeqDef
<1>3. \A k \in DOMAIN new : new[k].attempts = 0 /\ new[k].status = "pending"
  OBVIOUS
<1> HIDE DEF new
<1>4. /\ DOMAIN new = 1 .. Len(new) /\ Len(new) \in Nat
      /\ r \in Seq(StepStates) /\ Len(r) = Len(s) + Len(new)
      /\ DOMAIN r = 1 .. Len(r)
      /\ \A i \in 1 .. Len(s) + Len(new) :
           r[i] = IF i <= Len(s) THEN s[i] ELSE new[i - Len(s)]
  BY <1>2, ConcatProperties, LenProperties
<1> HIDE DEF r
<1>5. \A i \in DOMAIN s : i \in DOMAIN r /\ r[i] = s[i]
  BY <1>1, <1>4
<1>6. \A i \in DOMAIN r \ DOMAIN s : r[i].attempts = 0 /\ r[i].status = "pending"
  <2> SUFFICES ASSUME NEW i \in DOMAIN r \ DOMAIN s
               PROVE  r[i].attempts = 0 /\ r[i].status = "pending"
    OBVIOUS
  <2>1. i - Len(s) \in DOMAIN new /\ r[i] = new[i - Len(s)]
    BY <1>1, <1>4
  <2> QED BY <2>1, <1>3
<1>7. Bounded(s) => Bounded(r)
  <2> SUFFICES ASSUME Bounded(s), NEW i \in DOMAIN r
               PROVE  /\ r[i].attempts <= MaxAttempts
                      /\ r[i].status = "pending" => r[i].attempts < MaxAttempts
    BY DEF Bounded
  <2>1. CASE i \in DOMAIN s
    BY <2>1, <1>5 DEF Bounded
  <2>2. CASE i \notin DOMAIN s
    BY <2>2, <1>6, LimitsAreNumbers
  <2> QED BY <2>1, <2>2
<1>8. Evolves(s, r)
  BY <1>5, <1>6, <1>7 DEF Evolves
<1>9. Spliced(s, add) = r \/ Spliced(s, add) = s
  BY DEF Spliced, r, new
<1> QED BY <1>8, <1>9, SameEvolves

(* The end of a drive moves nothing in the plan.                           *)
LEMMA EndMoves ==
  ASSUME IInv, NEW t \in Terminals, pc[t] = "loop", Conclude(t, why'[t]) \/ Pause(t)
  PROVE  \E m, sv : Moves(t, m, sv)
<1>1. mem[t] \in Missions /\ Active(t)
  BY DEF IInv, Place, Holding, Active
<1>2. /\ pc' = [pc EXCEPT ![t] = "over"]
      /\ budget' = [budget EXCEPT ![t] = NoBudget]
      /\ UNCHANGED <<runs, overlapped>>
  BY DEF Conclude, Pause, Goto, Locals
<1>3. PICK m : /\ m \in Missions /\ m.steps = mem[t].steps /\ m.spent = mem[t].spent
               /\ mem' = [mem EXCEPT ![t] = m] /\ disk' \in {m, Torn}
  <2>1. CASE Conclude(t, why'[t])
    <3> DEFINE m == [mem[t] EXCEPT
                       !.done = TRUE,
                       !.outcome = FinalOutcome(mem[t].steps, why'[t] = "abort")]
    <3>1. FinalOutcome(mem[t].steps, why'[t] = "abort") \in Outcomes
      BY DEF FinalOutcome, Outcomes
    <3>2. m \in Missions /\ m.steps = mem[t].steps /\ m.spent = mem[t].spent
      BY <1>1, <3>1 DEF Missions
    <3>3. mem' = [mem EXCEPT ![t] = m] /\ disk' \in {m, Torn}
      BY <2>1 DEF Conclude, Hold, Save
    <3> HIDE DEF m
    <3> QED BY <3>2, <3>3
  <2>2. CASE Pause(t)
    <3> DEFINE m == [mem[t] EXCEPT !.done = FALSE, !.outcome = "paused"]
    <3>1. m \in Missions /\ m.steps = mem[t].steps /\ m.spent = mem[t].spent
      BY <1>1 DEF Missions, Outcomes
    <3>2. mem' = [mem EXCEPT ![t] = m] /\ disk' \in {m, Torn}
      BY <2>2 DEF Pause, Hold, Save
    <3> HIDE DEF m
    <3> QED BY <3>1, <3>2
  <2> QED BY <2>1, <2>2
<1>4. Evolves(mem[t].steps, m.steps)
  BY <1>3, SameEvolves
<1>5. Moves(t, m, m)
  <2> USE DEF IInv, Values
  <2> QED BY <1>1, <1>2, <1>3, <1>4 DEF Moves
<1> QED BY <1>5

LEMMA SkipMoves ==
  ASSUME IInv, NEW t \in Terminals, SkipBlocked(t)
  PROVE  \E m, sv : Moves(t, m, sv)
<1> DEFINE s == mem[t].steps
           i == First(Blocked(s))
           st == [s[i] EXCEPT !.status = "skipped"]
           m == SetSteps(t, [s EXCEPT ![i].status = "skipped"])
<1>1. /\ pc[t] = "loop" /\ Blocked(s) # {}
      /\ mem' = [mem EXCEPT ![t] = m] /\ disk' \in {m, Torn}
      /\ UNCHANGED <<pc, budget, runs, overlapped>>
  BY DEF SkipBlocked, Goes, LoopOpen, Hold, Save
<1>2. mem[t] \in Missions /\ Active(t)
  BY <1>1 DEF IInv, Place, Holding, Active
<1>3. s \in Seq(StepStates) /\ DOMAIN s \subseteq Nat
  BY <1>2, LenProperties DEF Missions
<1>4. i \in DOMAIN s
  BY <1>1, <1>3, FirstIsMember DEF Blocked
<1>5. s[i] \in StepStates
  BY <1>2, <1>4, StepTyping
<1>6. st \in StepStates /\ st.attempts = s[i].attempts /\ st.status = "skipped"
  BY <1>5 DEF StepStates, Statuses
<1>7. m = [mem[t] EXCEPT !.steps = [s EXCEPT ![i] = st]]
  BY <1>2 DEF SetSteps, Missions
<1>8. m \in Missions /\ m.steps = [s EXCEPT ![i] = st] /\ m.spent = mem[t].spent
  <2> HIDE DEF st, i, m
  <2>1. [s EXCEPT ![i] = st] \in Seq(StepStates)
    BY <1>3, <1>4, <1>6, LenProperties, ExceptSeq
  <2> QED BY <2>1, <1>2, <1>7 DEF Missions
<1>9. Evolves(s, m.steps)
  <2> HIDE DEF st, i, m
  <2> QED BY <1>4, <1>6, <1>8, StepEvolves
<1> HIDE DEF m, st, i
<1>10. Moves(t, m, m)
  BY <1>1, <1>2, <1>8, <1>9 DEF Moves
<1> QED BY <1>10

LEMMA ReturnMoves ==
  ASSUME IInv, NEW t \in Terminals, StepReturns(t)
  PROVE  \E m, sv : Moves(t, m, sv)
<1> DEFINE s == mem[t].steps
           i == at[t]
<1>1. /\ pc[t] = "executing" /\ UNCHANGED <<budget, runs, overlapped>>
  BY DEF StepReturns
<1>2. PICK ok \in BOOLEAN, cost \in Reported :
        LET m == [mem[t] EXCEPT
                    !.steps[i].status = IF ok THEN "done" ELSE "failed",
                    !.spent = @ + cost]
        IN /\ mem' = [mem EXCEPT ![t] = m] /\ disk' \in {m, Torn}
           /\ pc' = [pc EXCEPT ![t] =
                        IF ok /\ ~s[i].gate THEN "loop" ELSE "reassessing"]
  BY DEF StepReturns, Hold, Save, Goto
<1> DEFINE status == IF ok THEN "done" ELSE "failed"
           st == [s[i] EXCEPT !.status = status]
           m == [mem[t] EXCEPT !.steps[i].status = status, !.spent = @ + cost]
<1>3. mem[t] \in Missions /\ i \in DOMAIN s /\ Active(t)
  BY <1>1 DEF IInv, Place, Holding, Active
<1>4. s[i] \in StepStates /\ s \in Seq(StepStates)
  BY <1>3, StepTyping DEF Missions
<1>5. st \in StepStates /\ st.attempts = s[i].attempts /\ st.status # "pending"
  BY <1>4 DEF StepStates, Statuses
<1>6. cost \in 0 .. MaxCost /\ MaxCost \in Nat
  BY <1>2, CostsAreBounded DEF Reported
<1>7. mem[t].spent \in Nat
  BY <1>3 DEF Missions
<1>8. m = [mem[t] EXCEPT !.steps = [s EXCEPT ![i] = st], !.spent = mem[t].spent + cost]
  BY <1>3 DEF Missions
<1>9. /\ m \in Missions /\ m.steps = [s EXCEPT ![i] = st]
      /\ m.spent = mem[t].spent + cost
  <2> HIDE DEF st, i, m
  <2>1. [s EXCEPT ![i] = st] \in Seq(StepStates)
    BY <1>3, <1>4, <1>5, LenProperties, ExceptSeq
  <2>2. mem[t].spent + cost \in Nat
    BY <1>6, <1>7
  <2> QED BY <2>1, <2>2, <1>3, <1>8 DEF Missions
<1>10. Evolves(s, m.steps)
  <2> HIDE DEF st, i, m
  <2> QED BY <1>3, <1>5, <1>9, StepEvolves
<1>11. m.spent \in mem[t].spent .. mem[t].spent + MaxCost
  BY <1>6, <1>7, <1>9
<1>12. mem' = [mem EXCEPT ![t] = m] /\ disk' \in {m, Torn}
  BY <1>2
<1>13. /\ pc'[t] \in {"loop", "reassessing", "over"}
       /\ \A u \in Terminals \ {t} : pc'[u] = pc[u]
  BY <1>2 DEF IInv, Values
<1> HIDE DEF m, st, i, status
<1>14. Moves(t, m, m)
  BY <1>1, <1>3, <1>9, <1>10, <1>11, <1>12, <1>13 DEF Moves
<1> QED BY <1>14

(* A decision that keeps attempts and spend.                               *)
LEMMA DecideMoves ==
  ASSUME IInv, NEW t \in Terminals, Judging(t),
         NEW m \in Missions, Evolves(mem[t].steps, m.steps), m.spent = mem[t].spent,
         NEW sv \in Missions, Evolves(mem[t].steps, sv.steps), Decide(t, m, sv)
  PROVE  Moves(t, m, sv)
<1>1. mem[t] \in Missions /\ Active(t) /\ pc[t] # "executing"
  BY Judged DEF Active
<1>2. /\ mem' = [mem EXCEPT ![t] = m] /\ disk' \in {sv, Torn}
      /\ pc' = [pc EXCEPT ![t] = "loop"] /\ UNCHANGED <<budget, runs, overlapped>>
  BY DEF Decide, Hold, Save, Goto
<1>3. pc'[t] = "loop" /\ \A u \in Terminals \ {t} : pc'[u] = pc[u]
  BY <1>2 DEF IInv, Values
<1> QED BY <1>1, <1>2, <1>3 DEF Moves

(* The judged step with another status, and perhaps another capability.    *)
LEMMA JudgedEvolves ==
  ASSUME IInv, NEW t \in Terminals, Judging(t),
         NEW status \in Statuses, NEW cap \in Capabilities, NEW m,
         status = "pending" => mem[t].steps[at[t]].attempts < MaxAttempts,
         m = [mem[t] EXCEPT
                !.steps = [mem[t].steps EXCEPT
                             ![at[t]] = [@ EXCEPT !.status = status, !.cap = cap]]]
  PROVE  /\ m \in Missions /\ m.spent = mem[t].spent
         /\ Evolves(mem[t].steps, m.steps)
<1> DEFINE s == mem[t].steps
           i == at[t]
           st == [s[i] EXCEPT !.status = status, !.cap = cap]
<1>1. mem[t] \in Missions /\ i \in DOMAIN s /\ s[i] \in StepStates
  BY Judged
<1>2. st.attempts = s[i].attempts /\ st.status = status
  BY <1>1 DEF StepStates
<1>3. m.steps = [s EXCEPT ![i] = st] /\ m.spent = mem[t].spent
  BY <1>1 DEF Missions
<1>4. m \in Missions
  BY JudgedStatus
<1>5. status = "pending" => s[i].attempts < MaxAttempts
  OBVIOUS
<1> HIDE DEF st, i, s
<1>6. Evolves(s, m.steps)
  BY <1>1, <1>2, <1>3, <1>5, StepEvolves
<1> QED BY <1>3, <1>4, <1>6 DEF s

LEMMA ReassessMoves ==
  ASSUME IInv, NEW t \in Terminals, Reassess(t)
  PROVE  \E m, sv : Moves(t, m, sv)
<1>j. Judging(t)
  BY DEF Reassess, AcceptResult, GiveUp, DeclareDone, Retry, Escalate, Replan, MayRerun
<1>m. mem[t] \in Missions /\ mem[t].steps[at[t]].cap \in Capabilities
  BY <1>j, Judged DEF StepStates
<1>1. CASE AcceptResult(t) \/ GiveUp(t)
  <2>1. Decide(t, mem[t], mem[t])
    BY <1>1 DEF AcceptResult, GiveUp
  <2> QED BY <2>1, <1>j, <1>m, SameEvolves, DecideMoves
<1>2. CASE DeclareDone(t)
  <2> DEFINE m == [mem[t] EXCEPT !.done = TRUE]
  <2>1. Decide(t, m, mem[t])
    BY <1>2 DEF DeclareDone
  <2>2. m \in Missions /\ m.steps = mem[t].steps /\ m.spent = mem[t].spent
    BY <1>m DEF Missions
  <2> HIDE DEF m
  <2> QED BY <2>1, <2>2, <1>j, <1>m, SameEvolves, DecideMoves
<1>3. CASE Retry(t)
  <2> DEFINE m == SetSteps(t, [mem[t].steps EXCEPT ![at[t]].status = "pending"])
  <2>1. Decide(t, m, m) /\ mem[t].steps[at[t]].attempts < MaxAttempts
    BY <1>3 DEF Retry, MayRerun, Current
  <2>2. m = [mem[t] EXCEPT
               !.steps = [mem[t].steps EXCEPT
                            ![at[t]] = [@ EXCEPT !.status = "pending",
                                                 !.cap = mem[t].steps[at[t]].cap]]]
    BY <1>j, Judged DEF SetSteps, Missions, StepStates
  <2> HIDE DEF m
  <2>3. /\ m \in Missions /\ m.spent = mem[t].spent
        /\ Evolves(mem[t].steps, m.steps)
    <3> DEFINE cap == mem[t].steps[at[t]].cap
    <3> HIDE DEF cap
    <3>1. cap \in Capabilities /\ "pending" \in Statuses
      BY <1>m DEF cap, Statuses
    <3>2. m = [mem[t] EXCEPT
                 !.steps = [mem[t].steps EXCEPT
                              ![at[t]] = [@ EXCEPT !.status = "pending", !.cap = cap]]]
      BY <2>2 DEF cap
    <3> QED BY <3>1, <3>2, <2>1, <1>j, JudgedEvolves
  <2> QED BY <2>1, <2>3, <1>j, DecideMoves
<1>4. CASE Escalate(t)
  <2>1. PICK cap \in Stronger :
          LET m == SetSteps(t, [mem[t].steps EXCEPT ![at[t]].status = "pending",
                                                    ![at[t]].cap = cap])
          IN MayRerun(t) /\ Decide(t, m, m)
    BY <1>4 DEF Escalate
  <2> DEFINE m == SetSteps(t, [mem[t].steps EXCEPT ![at[t]].status = "pending",
                                                   ![at[t]].cap = cap])
  <2>2. Decide(t, m, m) /\ mem[t].steps[at[t]].attempts < MaxAttempts
    BY <2>1 DEF MayRerun, Current
  <2>3. m = [mem[t] EXCEPT
               !.steps = [mem[t].steps EXCEPT
                            ![at[t]] = [@ EXCEPT !.status = "pending", !.cap = cap]]]
    BY <1>j, Judged DEF SetSteps, Missions, StepStates
  <2>4. cap \in Capabilities
    BY StrongerAreCapabilities
  <2> HIDE DEF m
  <2> QED BY <2>2, <2>3, <2>4, <1>j, JudgedEvolves, DecideMoves DEF Statuses
<1>5. CASE Replan(t)
  <2> DEFINE failed == Current(t).status = "failed"
             kept == IF failed
                     THEN SetSteps(t, [mem[t].steps EXCEPT ![at[t]].status = "skipped"])
                     ELSE mem[t]
  <2>1. PICK add \in Additions :
          Decide(t, [kept EXCEPT !.steps = Spliced(kept.steps, add)], kept)
    BY <1>5 DEF Replan
  <2>2. /\ kept \in Missions /\ kept.spent = mem[t].spent
        /\ Evolves(mem[t].steps, kept.steps)
    <3>1. CASE failed
      <4>1. kept = [mem[t] EXCEPT
                      !.steps = [mem[t].steps EXCEPT
                                   ![at[t]] = [@ EXCEPT
                                      !.status = "skipped",
                                      !.cap = mem[t].steps[at[t]].cap]]]
        BY <1>j, <3>1, Judged DEF SetSteps, Missions, StepStates
      <4> HIDE DEF kept
      <4> QED BY <1>j, <1>m, <4>1, JudgedEvolves DEF Statuses
    <3>2. CASE ~failed
      BY <3>2, <1>m, SameEvolves
    <3> QED BY <3>1, <3>2
  <2> HIDE DEF kept
  <2> DEFINE s == Spliced(kept.steps, add)
             m == [kept EXCEPT !.steps = s]
  <2>3. kept.steps \in Seq(StepStates) /\ add \in Seq(PlanSteps)
    BY <2>2, AdditionsAreSteps DEF Missions
  <2>4. Evolves(kept.steps, s)
    BY <2>3, SpliceEvolves
  <2>5. s \in Seq(StepStates)
    <3>1. Coherent(kept.steps)
      <4>1. CASE failed
        <5>1. kept = [mem[t] EXCEPT
                      !.steps = [mem[t].steps EXCEPT
                                   ![at[t]] = [@ EXCEPT
                                      !.status = "skipped",
                                      !.cap = mem[t].steps[at[t]].cap]]]
          BY <1>j, <4>1, Judged DEF kept, SetSteps, Missions, StepStates
        <5> QED BY <1>j, <1>m, <5>1, JudgedStatus DEF Statuses
      <4>2. CASE ~failed
        BY <4>2, <1>j, Judged DEF kept
      <4> QED BY <4>1, <4>2
    <3> QED BY <3>1, <2>3, SpliceJoins
  <2>6. m \in Missions /\ m.steps = s /\ m.spent = kept.spent
    <3> HIDE DEF s
    <3> QED BY <2>2, <2>5 DEF Missions
  <2>7. Decide(t, m, kept)
    BY <2>1
  <2> HIDE DEF m, s
  <2>8. Evolves(mem[t].steps, m.steps)
    BY <2>2, <2>4, <2>6, EvolvesOn
  <2> QED BY <1>j, <2>2, <2>6, <2>7, <2>8, DecideMoves
<1> QED BY <1>1, <1>2, <1>3, <1>4, <1>5 DEF Reassess

LEMMA DriveMoves ==
  ASSUME IInv, NEW t \in Terminals, Drives(t), ~RunStep(t)
  PROVE  \E m, sv : Moves(t, m, sv)
<1>1. ASSUME NEW reason \in {"abort", "done", "steps", "nothing"},
             pc[t] = "loop", Conclude(t, reason)
      PROVE  \E m, sv : Moves(t, m, sv)
  <2>1. why'[t] = reason
    BY <1>1 DEF Conclude, Locals, IInv, Values
  <2> QED BY <1>1, <2>1, EndMoves
<1>2. CASE EndAborted(t) \/ EndDeclared(t) \/ EndExhausted(t) \/ EndNothingReady(t)
  BY <1>1, <1>2 DEF EndAborted, EndDeclared, EndExhausted, EndNothingReady, Goes, LoopOpen
<1>3. CASE Pause(t)
  BY <1>3, EndMoves DEF Pause, Goes, LoopOpen
<1> QED BY <1>2, <1>3, SkipMoves, ReturnMoves, ReassessMoves DEF Drives, Loop

BoundedCopies ==
    /\ disk \in Missions => Bounded(disk.steps)
    /\ \A t \in Terminals : mem[t] \in Missions => Bounded(mem[t].steps)

(* What holds as long as no drive began beside, or behind, another.        *)
Lone ==
    /\ \A t, u \in Terminals : Active(t) /\ Active(u) => t = u
    /\ \A t \in Terminals :
          pc[t] \in {"executing", "reassessing"} => disk \in {mem[t], Torn}
    /\ \A i \in DOMAIN runs : runs[i] <= MaxAttempts
    /\ disk = NoMission => \A i \in DOMAIN runs : runs[i] = 0
    /\ disk \in Missions => Counts(disk.steps)
    /\ \A t \in Terminals : Active(t) => Counts(mem[t].steps)

(* A step is begun below the ceiling, and raises the spend once.           *)
WithinCeiling(t) ==
    Active(t) /\ budget[t] # NoBudget =>
        /\ mem[t].spent < budget[t] + MaxCost
        /\ pc[t] = "executing" => mem[t].spent < budget[t]

LimitInv ==
    /\ BoundedCopies
    /\ ~overlapped => Lone
    /\ \A t \in Terminals : WithinCeiling(t)

LEMMA LimitInit == Init => LimitInv
<1> SUFFICES ASSUME Init PROVE LimitInv
  OBVIOUS
<1>1. \A t \in Terminals : ~Active(t) /\ mem[t] \notin Missions
  BY MarkersAreNoMissions DEF Init, Active
<1>2. disk \notin Missions /\ \A i \in DOMAIN runs : runs[i] = 0
  BY MarkersAreNoMissions DEF Init
<1>3. 0 <= MaxAttempts
  BY LimitsAreNumbers
<1>4. \A t \in Terminals : pc[t] \notin {"executing", "reassessing"}
  BY DEF Init
<1> QED BY <1>1, <1>2, <1>3, <1>4
        DEF LimitInv, BoundedCopies, Lone, WithinCeiling

LEMMA EvolvedCounts ==
  ASSUME NEW s, NEW r, Evolves(s, r), Counts(s), runs' = runs
  PROVE  Counts(r)'
<1> SUFFICES ASSUME NEW i \in DOMAIN runs
             PROVE  runs[i] <= (IF i \in DOMAIN r THEN r[i].attempts ELSE 0)
  BY DEF Counts
<1>1. runs[i] <= (IF i \in DOMAIN s THEN s[i].attempts ELSE 0)
  BY DEF Counts
<1>2. CASE i \in DOMAIN s
  BY <1>1, <1>2 DEF Evolves
<1>3. CASE i \notin DOMAIN s
  BY <1>1, <1>3 DEF Evolves
<1> QED BY <1>2, <1>3

LEMMA MoveLimits ==
  ASSUME IInv, LimitInv, NEW t \in Terminals, NEW m, NEW sv, Moves(t, m, sv)
  PROVE  LimitInv'
<1> USE DEF Moves
<1>1. /\ mem'[t] = m /\ \A u \in Terminals \ {t} : mem'[u] = mem[u]
      /\ disk' \in {sv, Torn} /\ Torn \notin Missions
      /\ NoMission \notin Missions /\ NoMission # Torn
  BY MarkersAreNoMissions DEF IInv, Values
<1>2. Bounded(m.steps) /\ Bounded(sv.steps)
  BY DEF LimitInv, BoundedCopies, Evolves
<1>3. BoundedCopies'
  <2>1. (disk \in Missions => Bounded(disk.steps))'
    BY <1>1, <1>2 DEF Bounded
  <2>2. ASSUME NEW u \in Terminals, mem'[u] \in Missions PROVE Bounded(mem'[u].steps)
    <3>1. CASE u = t
      BY <3>1, <1>1, <1>2
    <3>2. CASE u # t
      BY <3>2, <2>2, <1>1 DEF LimitInv, BoundedCopies
    <3> QED BY <3>1, <3>2
  <2> QED BY <2>1, <2>2 DEF BoundedCopies, Bounded
<1>4. ASSUME ~overlapped' PROVE Lone'
  <2>1. Lone
    BY <1>4 DEF LimitInv
  <2>2. \A u \in Terminals \ {t} : ~Active(u) /\ ~Active(u)'
    BY <2>1 DEF Lone, Active
  <2>3. (\A u, v \in Terminals : Active(u) /\ Active(v) => u = v)'
    BY <2>2
  <2>4. ASSUME NEW u \in Terminals, pc'[u] \in {"executing", "reassessing"}
        PROVE  disk' \in {mem'[u], Torn}
    <3>1. u = t
      BY <2>2, <2>4 DEF Active
    <3> QED BY <3>1, <2>4, <1>1
  <2>5. (\A i \in DOMAIN runs : runs[i] <= MaxAttempts)'
    BY <2>1 DEF Lone
  <2>6. disk' # NoMission
    BY <1>1
  <2>7. Counts(mem[t].steps)
    BY <2>1 DEF Lone
  <2>8. Counts(m.steps)' /\ Counts(sv.steps)'
    BY <2>7, EvolvedCounts
  <2>9. (disk \in Missions => Counts(disk.steps))'
    BY <1>1, <2>8 DEF Counts
  <2>10. ASSUME NEW u \in Terminals, Active(u)' PROVE Counts(mem[u].steps)'
    <3>1. mem'[u] = m
      BY <2>2, <2>10, <1>1
    <3> QED BY <3>1, <2>8 DEF Counts
  <2> QED BY <2>3, <2>4, <2>5, <2>6, <2>9, <2>10 DEF Lone
<1>5. ASSUME NEW u \in Terminals PROVE WithinCeiling(u)'
  <2>1. WithinCeiling(u)
    BY DEF LimitInv
  <2>2. CASE u # t
    BY <2>1, <2>2, <1>1 DEF WithinCeiling, Active
  <2>3. CASE u = t
    <3> SUFFICES ASSUME Active(t)', budget'[t] # NoBudget
                 PROVE  m.spent < budget'[t] + MaxCost /\ pc'[t] # "executing"
      BY <2>3, <1>1 DEF WithinCeiling
    <3>1. pc'[t] # "over" /\ pc'[t] # "executing" /\ budget'[t] = budget[t]
      BY DEF Active
    <3>2. budget[t] \in Nat /\ mem[t].spent \in Nat /\ MaxCost \in Nat
      BY <3>1, BudgetsAreCents, CostsAreBounded DEF IInv, Values, Missions
    <3> QED BY <2>1, <2>3, <3>1, <3>2 DEF WithinCeiling
  <2> QED BY <2>2, <2>3
<1> QED BY <1>3, <1>4, <1>5 DEF LimitInv

LEMMA RunLimits ==
  ASSUME IInv, LimitInv, NEW t \in Terminals, RunStep(t)
  PROVE  LimitInv'
<1> DEFINE s == mem[t].steps
           i == First(Ready(s))
           st == [s[i] EXCEPT !.status = "running", !.attempts = @ + 1]
           m == SetSteps(t, [s EXCEPT ![i].status = "running",
                                      ![i].attempts = @ + 1])
<1>1. /\ pc[t] = "loop" /\ ~OverBudget(t) /\ Ready(s) # {}
      /\ mem' = [mem EXCEPT ![t] = m] /\ disk' \in {m, Torn}
      /\ pc' = [pc EXCEPT ![t] = "executing"]
      /\ runs' = [runs EXCEPT ![i] = @ + 1]
      /\ UNCHANGED <<budget, overlapped>>
  BY DEF RunStep, Goes, LoopOpen, Hold, Save, Goto
<1>2. mem[t] \in Missions /\ Active(t) /\ DOMAIN s \subseteq Nat
  BY <1>1, LenProperties DEF IInv, Place, Holding, Active, Missions
<1>3. i \in Ready(s)
  <2>1. Ready(s) \subseteq Nat
    BY <1>2 DEF Ready
  <2> QED BY <2>1, <1>1, FirstIsMember
<1>4. i \in DOMAIN s /\ s[i].status = "pending"
  BY <1>3 DEF Ready
<1>5. s[i] \in StepStates /\ s[i].attempts \in Nat
  BY <1>2, <1>4, StepTyping DEF StepStates
<1>6. st.attempts = s[i].attempts + 1 /\ st.status = "running"
  BY <1>5 DEF StepStates
<1>7. m.steps = [s EXCEPT ![i] = st] /\ m.spent = mem[t].spent
  BY <1>2 DEF SetSteps, Missions
<1>8. Bounded(s) /\ s[i].attempts < MaxAttempts /\ MaxAttempts \in Nat
  BY <1>2, <1>4, LimitsAreNumbers DEF LimitInv, BoundedCopies, Bounded
<1> HIDE DEF m, st, i
<1>9. /\ DOMAIN m.steps = DOMAIN s
      /\ \A j \in DOMAIN s : m.steps[j] = IF j = i THEN st ELSE s[j]
  BY <1>7
<1>10. Bounded(m.steps)
  BY <1>5, <1>6, <1>8, <1>9 DEF Bounded
<1>11. /\ mem'[t] = m /\ \A u \in Terminals \ {t} : mem'[u] = mem[u]
       /\ pc'[t] = "executing" /\ \A u \in Terminals \ {t} : pc'[u] = pc[u]
       /\ NoMission \notin Missions /\ Torn \notin Missions /\ NoMission # Torn
  BY <1>1, MarkersAreNoMissions DEF IInv, Values
<1>m. m # NoMission
  <2>1. IInv'
    BY RunStepStep
  <2> QED BY <2>1, <1>11 DEF IInv, Place, Holding
<1>12. BoundedCopies'
  <2>1. (disk \in Missions => Bounded(disk.steps))'
    BY <1>1, <1>10, <1>11 DEF Bounded
  <2>2. ASSUME NEW u \in Terminals, mem'[u] \in Missions PROVE Bounded(mem'[u].steps)
    <3>1. CASE u = t
      BY <3>1, <1>10, <1>11
    <3>2. CASE u # t
      BY <3>2, <2>2, <1>11 DEF LimitInv, BoundedCopies
    <3> QED BY <3>1, <3>2
  <2> QED BY <2>1, <2>2 DEF BoundedCopies, Bounded
<1>n. PICK n : n = m
  OBVIOUS
<1>13. ASSUME ~overlapped' PROVE Lone'
  <2>1. Lone
    BY <1>1, <1>13 DEF LimitInv
  <2>2. \A u \in Terminals \ {t} : ~Active(u) /\ ~Active(u)'
    BY <2>1, <1>2, <1>11 DEF Lone, Active
  <2>3. /\ DOMAIN runs' = DOMAIN runs
        /\ \A j \in DOMAIN runs :
             runs[j] \in Nat /\ runs'[j] = IF j = i THEN runs[j] + 1 ELSE runs[j]
    BY <1>1 DEF IInv, Values
  <2>4. \A j \in DOMAIN runs : runs[j] <= IF j \in DOMAIN s THEN s[j].attempts ELSE 0
    BY <2>1, <1>2 DEF Lone, Counts
  <2>5. ASSUME NEW j \in DOMAIN runs'
        PROVE  /\ runs'[j] <= MaxAttempts
               /\ runs'[j] <= IF j \in DOMAIN m.steps THEN m.steps[j].attempts ELSE 0
    <3>1. CASE j = i
      <4>1. runs[j] <= s[j].attempts
        BY <3>1, <2>3, <2>4, <2>5, <1>4
      <4>2. m.steps[j].attempts = s[j].attempts + 1 /\ j \in DOMAIN m.steps
        BY <3>1, <1>4, <1>6, <1>9
      <4> QED BY <3>1, <4>1, <4>2, <2>3, <2>5, <1>5, <1>8
    <3>2. CASE j # i
      <4>1. runs'[j] = runs[j] /\ runs[j] <= MaxAttempts
        BY <3>2, <2>1, <2>3, <2>5 DEF Lone
      <4> QED BY <3>2, <4>1, <2>3, <2>4, <2>5, <1>9
    <3> QED BY <3>1, <3>2
  <2>6. Counts(n.steps)'
    BY <2>5, <1>n DEF Counts
  <2>7. (\A u, v \in Terminals : Active(u) /\ Active(v) => u = v)'
    BY <2>2
  <2>8. ASSUME NEW u \in Terminals, pc'[u] \in {"executing", "reassessing"}
        PROVE  disk' \in {mem'[u], Torn}
    <3>1. u = t
      BY <2>2, <2>8 DEF Active
    <3> QED BY <3>1, <1>1, <1>11
  <2>9. disk' # NoMission
    BY <1>1, <1>11, <1>m
  <2>10. (disk \in Missions => Counts(disk.steps))'
    BY <1>1, <1>11, <1>n, <2>6 DEF Counts
  <2>11. ASSUME NEW u \in Terminals, Active(u)' PROVE Counts(mem[u].steps)'
    <3>1. mem'[u] = n
      BY <2>2, <2>11, <1>11, <1>n
    <3> QED BY <3>1, <2>6 DEF Counts
  <2> QED BY <2>5, <2>7, <2>8, <2>9, <2>10, <2>11 DEF Lone
<1>14. ASSUME NEW u \in Terminals PROVE WithinCeiling(u)'
  <2>1. WithinCeiling(u)
    BY DEF LimitInv
  <2>2. CASE u # t
    BY <2>1, <2>2, <1>1, <1>11 DEF WithinCeiling, Active
  <2>3. CASE u = t
    <3> SUFFICES ASSUME budget[t] # NoBudget
                 PROVE  m.spent < budget[t] + MaxCost /\ m.spent < budget[t]
      BY <2>3, <1>1, <1>11 DEF WithinCeiling
    <3>1. budget[t] \in Nat /\ mem[t].spent \in Nat /\ MaxCost \in Nat
      BY <1>2, BudgetsAreCents, CostsAreBounded DEF IInv, Values, Missions
    <3>2. mem[t].spent < budget[t]
      BY <3>1, <1>1 DEF OverBudget
    <3> QED BY <3>1, <3>2, <1>7
  <2> QED BY <2>2, <2>3
<1> QED BY <1>12, <1>13, <1>14 DEF LimitInv

(* A step that begins no drive and writes nothing: a copy in memory is     *)
(* kept, dropped or read from the disk.                                    *)
LEMMA QuietLimits ==
  ASSUME LimitInv, UNCHANGED <<disk, runs, overlapped>>,
         \A u \in Terminals : mem'[u] \in Missions => mem'[u] \in {mem[u], disk},
         \A u \in Terminals :
            Active(u)' => /\ Active(u) /\ mem'[u] = mem[u] /\ pc'[u] = pc[u]
                          /\ budget'[u] = budget[u]
  PROVE  LimitInv'
<1>1. BoundedCopies'
  BY DEF LimitInv, BoundedCopies, Bounded
<1>2. ~overlapped' => Lone'
  <2> SUFFICES ASSUME ~overlapped PROVE Lone'
    OBVIOUS
  <2>1. Lone
    BY DEF LimitInv
  <2>2. \A u \in Terminals : pc'[u] \in {"executing", "reassessing"} => Active(u)'
    BY DEF Active
  <2>3. (\A u, v \in Terminals : Active(u) /\ Active(v) => u = v)'
    BY <2>1 DEF Lone
  <2>4. (\A u \in Terminals : Active(u) => Counts(mem[u].steps))'
    BY <2>1 DEF Lone, Counts
  <2>5. (disk \in Missions => Counts(disk.steps))'
    BY <2>1 DEF Lone, Counts
  <2> QED BY <2>1, <2>2, <2>3, <2>4, <2>5 DEF Lone
<1>3. \A u \in Terminals : WithinCeiling(u)'
  BY DEF LimitInv, WithinCeiling
<1> QED BY <1>1, <1>2, <1>3 DEF LimitInv

(* A drive begins, alone, with a copy the disk's count covers.             *)
LEMMA DriveLimits ==
  ASSUME IInv, LimitInv, NEW t \in Terminals, NEW m \in Missions,
         NEW b \in Budgets \cup {NoBudget}, Drive(t, m, b),
         Bounded(m.steps), b # NoBudget => m.spent = 0,
         ~overlapped' => /\ ~overlapped /\ Counts(m.steps)
                         /\ \A u \in Terminals \ {t} : ~Active(u)
  PROVE  LimitInv'
<1>1. /\ pc' = [pc EXCEPT ![t] = "loop"] /\ mem' = [mem EXCEPT ![t] = m]
      /\ budget' = [budget EXCEPT ![t] = b] /\ UNCHANGED <<disk, runs>>
  BY DEF Drive, Locals
<1>2. /\ pc'[t] = "loop" /\ \A u \in Terminals \ {t} : pc'[u] = pc[u]
      /\ mem'[t] = m /\ \A u \in Terminals \ {t} : mem'[u] = mem[u]
      /\ budget'[t] = b /\ \A u \in Terminals \ {t} : budget'[u] = budget[u]
  BY <1>1 DEF IInv, Values
<1>3. BoundedCopies'
  <2>1. (disk \in Missions => Bounded(disk.steps))'
    BY <1>1 DEF LimitInv, BoundedCopies, Bounded
  <2>2. ASSUME NEW u \in Terminals, mem'[u] \in Missions PROVE Bounded(mem'[u].steps)
    <3>1. CASE u = t
      BY <3>1, <1>2
    <3>2. CASE u # t
      BY <3>2, <2>2, <1>2 DEF LimitInv, BoundedCopies
    <3> QED BY <3>1, <3>2
  <2> QED BY <2>1, <2>2 DEF BoundedCopies, Bounded
<1>4. ASSUME ~overlapped' PROVE Lone'
  <2>1. Lone /\ Counts(m.steps) /\ \A u \in Terminals \ {t} : ~Active(u)
    BY <1>4 DEF LimitInv
  <2>2. \A u \in Terminals \ {t} : ~Active(u)'
    BY <2>1, <1>2 DEF Active
  <2>3. (\A u, v \in Terminals : Active(u) /\ Active(v) => u = v)'
    BY <2>2
  <2>4. \A u \in Terminals : pc'[u] \notin {"executing", "reassessing"}
    BY <2>2, <1>2 DEF Active
  <2>5. (disk \in Missions => Counts(disk.steps))'
    BY <2>1, <1>1 DEF Lone, Counts
  <2>6. ASSUME NEW u \in Terminals, Active(u)' PROVE Counts(mem[u].steps)'
    <3>1. mem'[u] = m /\ runs' = runs
      BY <2>2, <2>6, <1>1, <1>2
    <3> QED BY <3>1, <2>1 DEF Counts
  <2>7. (disk = NoMission => \A i \in DOMAIN runs : runs[i] = 0)'
    BY <2>1, <1>1 DEF Lone
  <2>8. (\A i \in DOMAIN runs : runs[i] <= MaxAttempts)'
    BY <2>1, <1>1 DEF Lone
  <2> QED BY <2>3, <2>4, <2>5, <2>6, <2>7, <2>8 DEF Lone
<1>5. ASSUME NEW u \in Terminals PROVE WithinCeiling(u)'
  <2>1. CASE u # t
    BY <2>1, <1>2 DEF LimitInv, WithinCeiling, Active
  <2>2. CASE u = t
    <3>1. b # NoBudget => 0 < b + MaxCost
      BY BudgetsAreCents, CostsAreBounded
    <3> QED BY <2>2, <3>1, <1>2 DEF WithinCeiling
  <2> QED BY <2>1, <2>2
<1> QED BY <1>3, <1>4, <1>5 DEF LimitInv

LEMMA StartLimits ==
  ASSUME IInv, LimitInv, NEW t \in Terminals, Start(t)
  PROVE  LimitInv'
<1>1. PICK p \in Plans, b \in Budgets \cup {NoBudget} :
        Drive(t, [steps |-> Fresh(p), spent |-> 0, done |-> FALSE,
                  outcome |-> "pending"], b)
  BY DEF Start
<1> DEFINE m == [steps |-> Fresh(p), spent |-> 0, done |-> FALSE,
                 outcome |-> "pending"]
<1>2. m \in Missions /\ m.steps = Fresh(p) /\ m.spent = 0
  BY FreshCoherent DEF Missions, Outcomes
<1>3. Drive(t, m, b) /\ disk = NoMission /\ overlapped' = overlapped
  BY <1>1 DEF Start
<1> HIDE DEF m
<1>4. \A i \in DOMAIN m.steps : m.steps[i].attempts = 0
  BY <1>2 DEF Fresh
<1>5. Bounded(m.steps)
  BY <1>4, LimitsAreNumbers DEF Bounded
<1>6. \A u \in Terminals : ~Active(u)
  BY DEF Start, Active
<1>7. ~overlapped => Counts(m.steps)
  BY <1>3, <1>4 DEF LimitInv, Lone, Counts
<1> QED BY <1>2, <1>3, <1>5, <1>6, <1>7, DriveLimits

LEMMA TakeLimits ==
  ASSUME IInv, LimitInv, NEW t \in Terminals, TakeOffer(t)
  PROVE  LimitInv'
<1> DEFINE m == [mem[t] EXCEPT !.done = FALSE]
<1>1. /\ pc[t] = "offering" /\ Drive(t, m, NoBudget)
      /\ ~overlapped' => /\ ~overlapped /\ disk = mem[t]
                         /\ \A u \in Terminals \ {t} : ~Active(u)
  BY DEF TakeOffer
<1>2. mem[t] \in Missions
  BY <1>1 DEF IInv, Place, Holding
<1>3. m \in Missions /\ m.steps = mem[t].steps
  BY <1>2 DEF Missions
<1> HIDE DEF m
<1>4. Bounded(m.steps)
  BY <1>2, <1>3 DEF LimitInv, BoundedCopies
<1>5. ~overlapped' => Counts(m.steps)
  BY <1>1, <1>2, <1>3 DEF LimitInv, Lone
<1> QED BY <1>1, <1>3, <1>4, <1>5, DriveLimits

LEMMA LimitNext == IInv /\ LimitInv /\ [Next]_vars => LimitInv'
<1> SUFFICES ASSUME IInv, LimitInv, [Next]_vars PROVE LimitInv'
  OBVIOUS
<1>1. CASE UNCHANGED vars
  <2>1. UNCHANGED <<disk, pc, mem, budget, runs, overlapped>>
    BY <1>1 DEF vars
  <2> QED BY <2>1, QuietLimits DEF Active
<1>2. CASE Rest
  <2>1. UNCHANGED <<disk, pc, mem, budget, runs, overlapped>>
    BY <1>2 DEF Rest, vars
  <2> QED BY <2>1, QuietLimits DEF Active
<1>3. ASSUME NEW t \in Terminals, Drives(t) PROVE LimitInv'
  <2>1. CASE RunStep(t)
    BY <2>1, RunLimits
  <2>2. CASE ~RunStep(t)
    BY <2>2, <1>3, DriveMoves, MoveLimits
  <2> QED BY <2>1, <2>2
<1>4. ASSUME NEW t \in Terminals, Offer(t) PROVE LimitInv'
  <2>1. /\ pc' = [pc EXCEPT ![t] = "offering"] /\ mem' = [mem EXCEPT ![t] = disk]
        /\ UNCHANGED <<disk, budget, runs, overlapped>>
    BY <1>4 DEF Offer
  <2>2. \A u \in Terminals :
           mem'[u] = (IF u = t THEN disk ELSE mem[u])
           /\ pc'[u] = (IF u = t THEN "offering" ELSE pc[u])
    BY <2>1 DEF IInv, Values
  <2> QED BY <2>1, <2>2, QuietLimits DEF Active
<1>5. ASSUME NEW t \in Terminals, DeclineOffer(t) \/ Crash(t) PROVE LimitInv'
  <2>1. /\ pc' = [pc EXCEPT ![t] = "idle"] /\ mem' = [mem EXCEPT ![t] = NoMission]
        /\ UNCHANGED <<disk, runs, overlapped>>
        /\ budget' = budget \/ budget' = [budget EXCEPT ![t] = NoBudget]
    BY <1>5 DEF DeclineOffer, Crash, Locals
  <2>2. \A u \in Terminals :
           /\ mem'[u] = (IF u = t THEN NoMission ELSE mem[u])
           /\ pc'[u] = (IF u = t THEN "idle" ELSE pc[u])
           /\ u # t => budget'[u] = budget[u]
    BY <2>1 DEF IInv, Values
  <2> QED BY <2>1, <2>2, QuietLimits, MarkersAreNoMissions DEF Active
<1>6. ASSUME NEW t \in Terminals, Escape(t) PROVE LimitInv'
  <2>1. UNCHANGED <<disk, pc, mem, budget, runs, overlapped>>
    BY <1>6 DEF Escape
  <2> QED BY <2>1, QuietLimits DEF Active
<1> QED BY <1>1, <1>2, <1>3, <1>4, <1>5, <1>6, StartLimits, TakeLimits DEF Next, Users

(* Alone, a driver that awaits an executor or the reassessor has its       *)
(* mission on disk, or an unreadable file: a crash then loses no event.    *)
THEOREM CheckpointHolds == Spec => []CheckpointIsCurrent
<1>1. Init => IInv /\ LimitInv
  BY InitInv, LimitInit
<1>2. (IInv /\ LimitInv) /\ [Next]_vars => (IInv /\ LimitInv)'
  BY NextInv, LimitNext
<1>3. IInv /\ LimitInv => CheckpointIsCurrent
  BY DEF LimitInv, Lone, CheckpointIsCurrent
<1> QED BY <1>1, <1>2, <1>3, PTL DEF Spec

(* The executor of a step is called at most maxAttempts times by lone      *)
(* drivers, whatever is retried, escalated, crashed and resumed; and no    *)
(* drive passes the ceiling it was given by as much as one step's cost.    *)
THEOREM LimitsAreKept == Spec => []LimitsHold
<1>1. Init => IInv /\ LimitInv
  BY InitInv, LimitInit
<1>2. (IInv /\ LimitInv) /\ [Next]_vars => (IInv /\ LimitInv)'
  BY NextInv, LimitNext
<1>3. IInv /\ LimitInv => LimitsHold
  BY DEF LimitInv, Lone, WithinCeiling, LimitsHold, AttemptsAreCounted, SpendBound
<1> QED BY <1>1, <1>2, <1>3, PTL DEF Spec

-----------------------------------------------------------------------------
(* No step is stranded.                                                    *)

Stranded(s) ==
    /\ \E i \in DOMAIN s : s[i].status = "pending"
    /\ \A i \in DOMAIN s : s[i].status # "running"

(* Of the pending steps of a DAG, one in the lowest wave is ready or       *)
(* blocked, unless one of its dependencies runs.                           *)
LEMMA SomeStepIsNext ==
  ASSUME NEW s \in Seq(StepStates), Coherent(s), Stranded(s)
  PROVE  Ready(s) # {} \/ Blocked(s) # {}
<1> SUFFICES ASSUME Ready(s) = {}, Blocked(s) = {} PROVE FALSE
  OBVIOUS
<1>1. DOMAIN s \subseteq Nat /\ \A i \in DOMAIN s : s[i] \in StepStates
  <2>1. DOMAIN s = 1 .. Len(s) /\ Len(s) \in Nat
    BY LenProperties
  <2> QED BY <2>1, ElementOfSeq
<1>2. PICK wave \in [DOMAIN s -> DOMAIN s] :
         \A i \in DOMAIN s : \A d \in s[i].deps : wave[d] < wave[i]
  BY DEF Coherent, Acyclic
<1> DEFINE P == {i \in DOMAIN s : s[i].status = "pending"}
           W == {wave[i] : i \in P}
<1>3. W \subseteq Nat /\ W # {}
  BY <1>1 DEF Stranded
<1>4. First(W) \in W /\ \A w \in W : First(W) <= w
  <2> HIDE DEF W
  <2> QED BY <1>3, FirstIsMember
<1>5. PICK i \in P : wave[i] = First(W)
  BY <1>4
<1>6. ASSUME NEW d \in s[i].deps PROVE s[d].status \in {"done", "skipped"}
  <2>1. d \in DOMAIN s /\ wave[d] < wave[i] /\ s[d].status \in Statuses
    BY <1>1, <1>2 DEF Coherent, StepStates
  <2>2. s[d].status # "running"
    BY <2>1 DEF Stranded
  <2>3. s[d].status # "failed"
    BY <1>5 DEF Blocked
  <2>4. s[d].status # "pending"
    <3> SUFFICES ASSUME d \in P PROVE FALSE
      BY <2>1
    <3>1. First(W) <= wave[d]
      BY <1>4
    <3>2. wave[d] \in Nat /\ wave[i] \in Nat
      BY <1>1, <1>2, <2>1
    <3> HIDE DEF W
    <3> QED BY <1>5, <2>1, <3>1, <3>2
  <2> QED BY <2>1, <2>2, <2>3, <2>4 DEF Statuses
<1>7. i \in Ready(s)
  BY <1>5, <1>6 DEF Ready, Satisfied
<1> QED BY <1>7

(* A terminal comes to rest with nothing ready by that event alone.        *)
LEMMA OverByNothing ==
  ASSUME IInv, [Next]_vars, NEW t \in Terminals, pc'[t] = "over", why'[t] = "nothing"
  PROVE  \/ (pc[t] = "over" /\ why[t] = "nothing" /\ mem'[t] = mem[t])
         \/ EndNothingReady(t)
<1> USE DEF IInv, Values
<1>1. CASE UNCHANGED vars
  BY <1>1 DEF vars
<1>2. CASE Rest
  BY <1>2 DEF Rest, vars
<1>3. ASSUME NEW u \in Terminals, Drives(u)
      PROVE  \/ UNCHANGED <<pc[t], why[t], mem[t]>>
             \/ (t = u /\ pc'[t] # "over")
             \/ (t = u /\ why'[t] # "nothing")
             \/ EndNothingReady(t)
  <2>1. ASSUME NEW reason, Conclude(u, reason), u # t \/ reason # "nothing"
        PROVE  \/ UNCHANGED <<pc[t], why[t], mem[t]>>
               \/ (t = u /\ why'[t] # "nothing")
    <3>1. /\ pc' = [pc EXCEPT ![u] = "over"] /\ why' = [why EXCEPT ![u] = reason]
          /\ \A v \in Terminals \ {u} : mem'[v] = mem[v]
      BY <2>1 DEF Conclude, Hold, Goto, Locals
    <3>2. CASE t # u
      <4>1. pc'[t] = pc[t]
        BY <3>1, <3>2
      <4>2. why'[t] = why[t]
        BY <3>1, <3>2
      <4>3. mem'[t] = mem[t]
        BY <3>1, <3>2
      <4> QED BY <4>1, <4>2, <4>3
    <3>3. CASE t = u
      BY <2>1, <3>1, <3>3
    <3> QED BY <3>2, <3>3
  <2>2. CASE EndAborted(u) \/ EndDeclared(u) \/ EndExhausted(u)
    BY <2>1, <2>2 DEF EndAborted, EndDeclared, EndExhausted
  <2>3. CASE EndNothingReady(u)
    BY <2>1, <2>3 DEF EndNothingReady
  <2>4. CASE Pause(u)
    BY <2>4 DEF Pause, Hold, Goto, Locals
  <2>5. CASE SkipBlocked(u)
    <3>1. pc[u] = "loop" /\ \A v \in Terminals \ {u} : mem'[v] = mem[v]
      BY <2>5 DEF SkipBlocked, Goes, LoopOpen, Hold
    <3>2. UNCHANGED <<pc, why>>
      BY <2>5 DEF SkipBlocked
    <3> QED BY <3>1, <3>2
  <2>6. CASE RunStep(u) \/ StepReturns(u) \/ Reassess(u)
    <3>1. \A v \in Terminals \ {u} : mem'[v] = mem[v] /\ pc'[v] = pc[v] /\ why'[v] = why[v]
      <4>1. CASE RunStep(u)
        BY <4>1 DEF RunStep, Hold, Goto
      <4>2. CASE StepReturns(u)
        BY <4>2 DEF StepReturns, Hold, Goto
      <4>3. CASE Reassess(u)
        BY <4>3 DEF Reassess, AcceptResult, GiveUp, DeclareDone, Retry, Escalate,
                    Replan, Decide, Hold, Goto
      <4> QED BY <2>6, <4>1, <4>2, <4>3
    <3>2. pc'[u] # "over"
      <4>1. CASE RunStep(u)
        BY <4>1 DEF RunStep, Goto
      <4>2. CASE StepReturns(u)
        BY <4>2 DEF StepReturns, Goto
      <4>3. CASE Reassess(u)
        BY <4>3 DEF Reassess, AcceptResult, GiveUp, DeclareDone, Retry, Escalate,
                    Replan, Decide, Goto
      <4> QED BY <2>6, <4>1, <4>2, <4>3
    <3> QED BY <3>1, <3>2
  <2> QED BY <1>3, <2>2, <2>3, <2>4, <2>5, <2>6 DEF Drives, Loop
<1>4. ASSUME NEW u \in Terminals, Users(u)
      PROVE  UNCHANGED <<pc[t], why[t], mem[t]>> \/ pc'[t] # "over"
  BY <1>4 DEF Users, Start, Offer, TakeOffer, DeclineOffer, Crash, Escape, Drive,
              Locals, Active
<1> QED BY <1>1, <1>2, <1>3, <1>4 DEF Next

(* A mission that ends because nothing is ready left no step pending,      *)
(* unless a crash cut one of its steps: a pending step always has a reason *)
(* to run, to be skipped or to wait for a running one.                     *)
THEOREM NothingStranded == Spec => []NoStrandedSteps
<1>1. Init => IInv /\ NoStrandedSteps
  <2>1. Init => NoStrandedSteps
    BY DEF Init, NoStrandedSteps
  <2> QED BY <2>1, InitInv
<1>2. (IInv /\ NoStrandedSteps) /\ [Next]_vars => (IInv /\ NoStrandedSteps)'
  <2> SUFFICES ASSUME IInv, NoStrandedSteps, [Next]_vars,
                      NEW t \in Terminals, pc'[t] = "over", why'[t] = "nothing"
               PROVE  LET s == mem'[t].steps
                      IN \/ \A i \in DOMAIN s : s[i].status # "pending"
                         \/ \E i \in DOMAIN s : s[i].status = "running"
    BY NextInv DEF NoStrandedSteps
  <2>1. CASE pc[t] = "over" /\ why[t] = "nothing" /\ mem'[t] = mem[t]
    BY <2>1 DEF NoStrandedSteps
  <2>2. CASE EndNothingReady(t)
    <3>1. /\ pc[t] = "loop" /\ Ready(mem[t].steps) = {} /\ Blocked(mem[t].steps) = {}
          /\ Conclude(t, "nothing")
      BY <2>2 DEF EndNothingReady, Goes, LoopOpen
    <3>2. mem[t] \in Missions /\ Coherent(mem[t].steps)
      BY <3>1 DEF IInv, Place, Holding, MemOK
    <3>3. mem'[t].steps = mem[t].steps
      BY <3>1, <3>2 DEF Conclude, Hold, IInv, Values, Missions
    <3>4. ~Stranded(mem[t].steps)
      BY <3>1, <3>2, SomeStepIsNext DEF Missions
    <3> QED BY <3>3, <3>4 DEF Stranded
  <2> QED BY <2>1, <2>2, OverByNothing
<1> QED BY <1>1, <1>2, PTL DEF Spec

-----------------------------------------------------------------------------
(* What a crash costs.                                                     *)

NobodyCrashes == \A t \in Terminals : ~Crash(t)

(* A lone drive's record of a completed mission has no step cut in half.   *)
CompletedWhole == ~overlapped => InterruptedStepsRun

Whole(s) == \A i \in DOMAIN s : s[i].status # "running"

EndedWhole(m) == m.outcome = "completed" => Whole(m.steps)

(* Only the step a terminal executes is marked running.                    *)
OwnStepRuns(t) ==
    \A i \in DOMAIN mem[t].steps :
        mem[t].steps[i].status = "running" => pc[t] = "executing" /\ i = at[t]

Uncut ==
    /\ \A t \in Terminals : Active(t) => mem[t].outcome # "completed" /\ OwnStepRuns(t)
    /\ \A t \in Terminals : pc[t] = "offering" => mem[t].outcome # "completed"
    /\ \A t \in Terminals : pc[t] = "over" => EndedWhole(mem[t])
    /\ \A t \in Terminals : pc[t] = "idle" => mem[t] = NoMission
    /\ disk \in Missions =>
          /\ disk.outcome = "completed" => disk.done /\ Whole(disk.steps)
          /\ (\A t \in Terminals : ~Active(t)) => Whole(disk.steps)

(* An event of the one active terminal.                                    *)
LEMMA UncutMove ==
  ASSUME IInv, Lone, Uncut, NEW t \in Terminals, Active(t), NEW m, NEW sv,
         mem' = [mem EXCEPT ![t] = m], disk' \in {sv, Torn},
         NEW where \in {"loop", "executing", "reassessing", "over"},
         pc' = [pc EXCEPT ![t] = where],
         sv.outcome = "completed" => sv.done /\ Whole(sv.steps),
         where = "over" => Whole(m.steps) /\ Whole(sv.steps),
         where # "over" =>
            /\ m.outcome # "completed"
            /\ \A i \in DOMAIN m.steps :
                 m.steps[i].status = "running" => where = "executing" /\ i = at'[t]
  PROVE  Uncut'
<1>1. /\ pc'[t] = where /\ mem'[t] = m
      /\ \A u \in Terminals \ {t} :
           pc'[u] = pc[u] /\ mem'[u] = mem[u] /\ ~Active(u) /\ ~Active(u)'
  BY DEF IInv, Values, Lone, Active
<1>2. ASSUME NEW u \in Terminals, Active(u)'
      PROVE  mem'[u].outcome # "completed" /\ OwnStepRuns(u)'
  <2>1. u = t /\ where # "over"
    BY <1>1, <1>2 DEF Active
  <2> QED BY <1>1, <2>1 DEF OwnStepRuns
<1>3. ASSUME NEW u \in Terminals
      PROVE  /\ pc'[u] = "offering" => mem'[u].outcome # "completed"
             /\ pc'[u] = "over" => EndedWhole(mem'[u])
             /\ pc'[u] = "idle" => mem'[u] = NoMission
  <2>1. CASE u = t
    BY <1>1, <2>1 DEF EndedWhole
  <2>2. CASE u # t
    BY <1>1, <2>2 DEF Uncut
  <2> QED BY <2>1, <2>2
<1>4. (\A u \in Terminals : ~Active(u)') => where = "over"
  BY <1>1 DEF Active
<1>5. disk' \in Missions => disk' = sv
  BY MarkersAreNoMissions
<1> QED BY <1>2, <1>3, <1>4, <1>5 DEF Uncut, Active, EndedWhole, Whole, OwnStepRuns

LEMMA WholeExcept ==
  ASSUME NEW s \in Seq(StepStates), NEW i \in DOMAIN s, NEW st,
         \A j \in DOMAIN s : s[j].status = "running" => j = i,
         st.status # "running"
  PROVE  Whole([s EXCEPT ![i] = st])
BY DEF Whole

LEMMA SpliceWhole ==
  ASSUME NEW s \in Seq(StepStates), NEW add \in Seq(PlanSteps), Whole(s)
  PROVE  Whole(Spliced(s, add))
<1> DEFINE new == [k \in DOMAIN add |->
                    [cap |-> add[k].cap, gate |-> add[k].gate,
                     deps |-> {d \in add[k].deps : 0 < d /\ d < Len(s) + k},
                     status |-> "pending", attempts |-> 0]]
           r == s \o new
<1>1. /\ DOMAIN s = 1 .. Len(s) /\ Len(s) \in Nat
      /\ DOMAIN add = 1 .. Len(add) /\ Len(add) \in Nat
  BY LenProperties
<1>2. new \in Seq(StepStates)
  <2>1. ASSUME NEW k \in DOMAIN add PROVE new[k] \in StepStates
    <3>1. add[k] \in PlanSteps
      BY <1>1, ElementOfSeq
    <3> QED BY <3>1 DEF PlanSteps, StepStates, Statuses
  <2>2. new \in [1 .. Len(add) -> StepStates]
    BY <1>1, <2>1
  <2> HIDE DEF new
  <2> QED BY <2>2, <1>1, SeqDef
<1>3. \A k \in DOMAIN new : new[k].status = "pending"
  OBVIOUS
<1> HIDE DEF new
<1>4. /\ DOMAIN new = 1 .. Len(new) /\ Len(new) \in Nat
      /\ DOMAIN r = 1 .. (Len(s) + Len(new))
      /\ \A i \in 1 .. Len(s) + Len(new) :
           r[i] = IF i <= Len(s) THEN s[i] ELSE new[i - Len(s)]
  BY <1>2, ConcatProperties, LenProperties
<1> HIDE DEF r
<1>5. Whole(r)
  <2> SUFFICES ASSUME NEW i \in DOMAIN r PROVE r[i].status # "running"
    BY DEF Whole
  <2>1. CASE i <= Len(s)
    <3>1. i \in DOMAIN s /\ r[i] = s[i]
      BY <2>1, <1>1, <1>4
    <3> QED BY <3>1 DEF Whole
  <2>2. CASE ~(i <= Len(s))
    <3>1. i - Len(s) \in DOMAIN new /\ r[i] = new[i - Len(s)]
      BY <2>2, <1>1, <1>4
    <3> QED BY <3>1, <1>3
  <2> QED BY <2>1, <2>2
<1> QED BY <1>5 DEF Spliced, r, new

(* Where a driver stands between two events.                               *)
LEMMA Driving ==
  ASSUME IInv, Uncut, NEW t \in Terminals, Active(t)
  PROVE  /\ mem[t] \in Missions /\ mem[t].steps \in Seq(StepStates)
         /\ mem[t].outcome # "completed" /\ OwnStepRuns(t)
         /\ pc[t] # "executing" => Whole(mem[t].steps)
BY DEF IInv, Place, Holding, Active, Uncut, OwnStepRuns, Whole, Missions

LEMMA EndUncut ==
  ASSUME IInv, Lone, Uncut, NEW t \in Terminals, pc[t] = "loop", NEW reason,
         Conclude(t, reason) \/ Pause(t)
  PROVE  Uncut'
<1>1. Active(t) /\ mem[t] \in Missions /\ Whole(mem[t].steps)
  BY Driving DEF Active
<1>2. pc' = [pc EXCEPT ![t] = "over"]
  BY DEF Conclude, Pause, Goto
<1>3. PICK m : /\ m.steps = mem[t].steps /\ (m.outcome = "completed" => m.done)
               /\ mem' = [mem EXCEPT ![t] = m] /\ disk' \in {m, Torn}
  <2>1. CASE Conclude(t, reason)
    <3> DEFINE m == [mem[t] EXCEPT
                       !.done = TRUE,
                       !.outcome = FinalOutcome(mem[t].steps, reason = "abort")]
    <3>1. m.steps = mem[t].steps /\ m.done
      BY <1>1 DEF Missions
    <3>2. mem' = [mem EXCEPT ![t] = m] /\ disk' \in {m, Torn}
      BY <2>1 DEF Conclude, Hold, Save
    <3> HIDE DEF m
    <3> QED BY <3>1, <3>2
  <2>2. CASE Pause(t)
    <3> DEFINE m == [mem[t] EXCEPT !.done = FALSE, !.outcome = "paused"]
    <3>1. m.steps = mem[t].steps /\ m.outcome # "completed"
      BY <1>1 DEF Missions
    <3>2. mem' = [mem EXCEPT ![t] = m] /\ disk' \in {m, Torn}
      BY <2>2 DEF Pause, Hold, Save
    <3> HIDE DEF m
    <3> QED BY <3>1, <3>2
  <2> QED BY <2>1, <2>2
<1>4. PICK where : where = "over"
  OBVIOUS
<1> QED BY <1>1, <1>2, <1>3, <1>4, UncutMove

LEMMA SkipUncut ==
  ASSUME IInv, Lone, Uncut, NEW t \in Terminals, SkipBlocked(t)
  PROVE  Uncut'
<1> DEFINE s == mem[t].steps
           i == First(Blocked(s))
           st == [s[i] EXCEPT !.status = "skipped"]
           m == SetSteps(t, [s EXCEPT ![i].status = "skipped"])
<1>1. /\ pc[t] = "loop" /\ Blocked(s) # {} /\ pc' = pc
      /\ mem' = [mem EXCEPT ![t] = m] /\ disk' \in {m, Torn}
  BY DEF SkipBlocked, Goes, LoopOpen, Hold, Save
<1>2. /\ Active(t) /\ mem[t] \in Missions /\ s \in Seq(StepStates)
      /\ mem[t].outcome # "completed" /\ Whole(s)
  BY <1>1, Driving DEF Active
<1>3. DOMAIN s \subseteq Nat
  BY <1>2, LenProperties
<1>4. i \in DOMAIN s
  BY <1>1, <1>3, FirstIsMember DEF Blocked
<1>5. st.status = "skipped"
  BY <1>2, <1>4, StepTyping DEF StepStates
<1>6. m.steps = [s EXCEPT ![i] = st] /\ m.outcome = mem[t].outcome
  BY <1>2 DEF SetSteps, Missions
<1> HIDE DEF m, st, i
<1>7. Whole(m.steps)
  BY <1>2, <1>4, <1>5, <1>6, WholeExcept DEF Whole
<1>8. pc' = [pc EXCEPT ![t] = "loop"]
  BY <1>1 DEF IInv, Values
<1>9. PICK where : /\ where = "loop" /\ pc' = [pc EXCEPT ![t] = where]
                   /\ where # "over" /\ where \in {"loop", "executing", "reassessing", "over"}
  BY <1>8
<1> HIDE DEF s
<1> QED BY <1>1, <1>2, <1>6, <1>7, <1>8, <1>9, UncutMove DEF Whole

LEMMA RunUncut ==
  ASSUME IInv, Lone, Uncut, NEW t \in Terminals, RunStep(t)
  PROVE  Uncut'
<1> DEFINE s == mem[t].steps
           i == First(Ready(s))
           st == [s[i] EXCEPT !.status = "running", !.attempts = @ + 1]
           m == SetSteps(t, [s EXCEPT ![i].status = "running",
                                      ![i].attempts = @ + 1])
<1>1. /\ pc[t] = "loop"
      /\ mem' = [mem EXCEPT ![t] = m] /\ disk' \in {m, Torn}
      /\ pc' = [pc EXCEPT ![t] = "executing"]
      /\ at' = [at EXCEPT ![t] = i]
  BY DEF RunStep, Goes, LoopOpen, Hold, Save, Goto
<1>2. /\ Active(t) /\ mem[t] \in Missions
      /\ mem[t].outcome # "completed" /\ Whole(s)
  BY <1>1, Driving DEF Active
<1>3. m.steps = [s EXCEPT ![i] = st] /\ m.outcome = mem[t].outcome
  BY <1>2 DEF SetSteps, Missions
<1>4. at'[t] = i
  BY <1>1 DEF IInv, Values
<1> HIDE DEF m, st, i
<1>5. \A j \in DOMAIN m.steps : m.steps[j].status = "running" => j = i
  BY <1>2, <1>3 DEF Whole
<1>6. PICK where : /\ where = "executing" /\ pc' = [pc EXCEPT ![t] = where]
                   /\ where # "over" /\ where \in {"loop", "executing", "reassessing", "over"}
  BY <1>1
<1>7. /\ m.outcome # "completed"
      /\ \A j \in DOMAIN m.steps :
           m.steps[j].status = "running" => where = "executing" /\ j = at'[t]
  BY <1>2, <1>3, <1>4, <1>5, <1>6
<1>8. Active(t) /\ mem' = [mem EXCEPT ![t] = m] /\ disk' \in {m, Torn}
  BY <1>1, <1>2
<1> HIDE DEF s
<1> QED BY <1>6, <1>7, <1>8, UncutMove

LEMMA ReturnUncut ==
  ASSUME IInv, Lone, Uncut, NEW t \in Terminals, StepReturns(t)
  PROVE  Uncut'
<1> DEFINE s == mem[t].steps
           i == at[t]
<1>1. pc[t] = "executing"
  BY DEF StepReturns
<1>2. PICK ok \in BOOLEAN, cost \in Reported :
        LET m == [mem[t] EXCEPT
                    !.steps[i].status = IF ok THEN "done" ELSE "failed",
                    !.spent = @ + cost]
        IN /\ mem' = [mem EXCEPT ![t] = m] /\ disk' \in {m, Torn}
           /\ pc' = [pc EXCEPT ![t] =
                        IF ok /\ ~s[i].gate THEN "loop" ELSE "reassessing"]
  BY DEF StepReturns, Hold, Save, Goto
<1> DEFINE status == IF ok THEN "done" ELSE "failed"
           st == [s[i] EXCEPT !.status = status]
           m == [mem[t] EXCEPT !.steps[i].status = status, !.spent = @ + cost]
           where == IF ok /\ ~s[i].gate THEN "loop" ELSE "reassessing"
<1>3. /\ Active(t) /\ mem[t] \in Missions /\ s \in Seq(StepStates)
      /\ mem[t].outcome # "completed"
      /\ \A j \in DOMAIN s : s[j].status = "running" => j = i
  BY <1>1, Driving DEF Active, OwnStepRuns
<1>4. i \in DOMAIN s
  BY <1>1 DEF IInv, Place, Holding
<1>5. st.status # "running"
  BY <1>3, <1>4, StepTyping DEF StepStates
<1>6. m.steps = [s EXCEPT ![i] = st] /\ m.outcome = mem[t].outcome
  BY <1>3 DEF Missions
<1>7. mem' = [mem EXCEPT ![t] = m] /\ disk' \in {m, Torn} /\ pc' = [pc EXCEPT ![t] = where]
  BY <1>2
<1>8. where \in {"loop", "reassessing"}
  OBVIOUS
<1> HIDE DEF m, st, i, status, where
<1>9. Whole(m.steps)
  BY <1>3, <1>4, <1>5, <1>6, WholeExcept
<1> HIDE DEF s
<1> QED BY <1>3, <1>6, <1>7, <1>8, <1>9, UncutMove DEF Whole

LEMMA DecideUncut ==
  ASSUME IInv, Lone, Uncut, NEW t \in Terminals, Judging(t), NEW m, NEW sv,
         Decide(t, m, sv), Whole(m.steps),
         m.outcome = mem[t].outcome, sv.outcome = mem[t].outcome
  PROVE  Uncut'
<1>1. Active(t) /\ mem[t].outcome # "completed"
  BY Driving DEF Active, Judging
<1>2. /\ mem' = [mem EXCEPT ![t] = m] /\ disk' \in {sv, Torn}
      /\ pc' = [pc EXCEPT ![t] = "loop"]
  BY DEF Decide, Hold, Save, Goto
<1>3. PICK where : /\ where = "loop" /\ pc' = [pc EXCEPT ![t] = where]
                   /\ where # "over" /\ where \in {"loop", "executing", "reassessing", "over"}
  BY <1>2
<1>4. /\ m.outcome # "completed" /\ sv.outcome # "completed"
      /\ \A j \in DOMAIN m.steps :
           m.steps[j].status = "running" => where = "executing" /\ j = at'[t]
  BY <1>1 DEF Whole
<1>5. mem' = [mem EXCEPT ![t] = m] /\ disk' \in {sv, Torn}
  BY <1>2
<1> QED BY <1>1, <1>3, <1>4, <1>5, UncutMove

LEMMA ReassessUncut ==
  ASSUME IInv, Lone, Uncut, NEW t \in Terminals, Reassess(t)
  PROVE  Uncut'
<1> DEFINE s == mem[t].steps
           i == at[t]
<1>1. Judging(t)
  BY DEF Reassess, AcceptResult, GiveUp, DeclareDone, Retry, Escalate, Replan, MayRerun
<1>2. /\ mem[t] \in Missions /\ s \in Seq(StepStates) /\ Whole(s)
      /\ i \in DOMAIN s /\ s[i] \in StepStates
  BY <1>1, Driving, Judged DEF Active, Judging
<1>3. ASSUME NEW st, st.status # "running"
      PROVE  /\ SetSteps(t, [s EXCEPT ![i] = st]).outcome = mem[t].outcome
             /\ SetSteps(t, [s EXCEPT ![i] = st]).steps = [s EXCEPT ![i] = st]
             /\ Whole([s EXCEPT ![i] = st])
  <2>1. Whole([s EXCEPT ![i] = st])
    <3> HIDE DEF s, i
    <3> QED BY <1>2, <1>3, WholeExcept DEF Whole
  <2> QED BY <2>1, <1>2 DEF SetSteps, Missions
<1>4. CASE AcceptResult(t) \/ GiveUp(t)
  <2>1. Decide(t, mem[t], mem[t])
    BY <1>4 DEF AcceptResult, GiveUp
  <2> QED BY <2>1, <1>1, <1>2, DecideUncut
<1>5. CASE DeclareDone(t)
  <2> DEFINE m == [mem[t] EXCEPT !.done = TRUE]
  <2>1. Decide(t, m, mem[t])
    BY <1>5 DEF DeclareDone
  <2>2. m.steps = s /\ m.outcome = mem[t].outcome
    BY <1>2 DEF Missions
  <2> HIDE DEF m
  <2> QED BY <2>1, <2>2, <1>1, <1>2, DecideUncut
<1>6. CASE Retry(t)
  <2> DEFINE st == [s[i] EXCEPT !.status = "pending"]
             m == SetSteps(t, [s EXCEPT ![i] = st])
  <2>1. Decide(t, m, m)
    BY <1>6 DEF Retry
  <2>2. st.status # "running"
    BY <1>2 DEF StepStates
  <2>3. m.outcome = mem[t].outcome /\ Whole(m.steps)
    <3> HIDE DEF st
    <3> QED BY <1>3, <2>2
  <2> HIDE DEF m
  <2> QED BY <2>1, <2>3, <1>1, DecideUncut
<1>7. CASE Escalate(t)
  <2>1. PICK cap \in Stronger :
          LET m == SetSteps(t, [s EXCEPT ![i].status = "pending", ![i].cap = cap])
          IN Decide(t, m, m)
    BY <1>7 DEF Escalate
  <2> DEFINE st == [s[i] EXCEPT !.status = "pending", !.cap = cap]
             m == SetSteps(t, [s EXCEPT ![i] = st])
  <2>2. m = SetSteps(t, [s EXCEPT ![i].status = "pending", ![i].cap = cap])
    BY <1>2 DEF SetSteps
  <2>3. Decide(t, m, m)
    BY <2>1, <2>2
  <2>4. st.status # "running"
    BY <1>2 DEF StepStates
  <2>5. m.outcome = mem[t].outcome /\ Whole(m.steps)
    <3> HIDE DEF st
    <3> QED BY <1>3, <2>4
  <2> HIDE DEF m
  <2> QED BY <2>3, <2>5, <1>1, DecideUncut
<1>8. CASE Replan(t)
  <2> DEFINE st == [s[i] EXCEPT !.status = "skipped"]
             kept == IF Current(t).status = "failed"
                     THEN SetSteps(t, [s EXCEPT ![i] = st])
                     ELSE mem[t]
  <2>1. PICK add \in Additions :
          Decide(t, [kept EXCEPT !.steps = Spliced(kept.steps, add)], kept)
    BY <1>8 DEF Replan
  <2>2. st.status # "running"
    BY <1>2 DEF StepStates
  <2>3. kept \in Missions /\ kept.outcome = mem[t].outcome /\ Whole(kept.steps)
    <3>1. [s EXCEPT ![i] = st] \in Seq(StepStates)
      <4>1. st \in StepStates
        BY <1>2 DEF StepStates, Statuses
      <4> HIDE DEF st, s, i
      <4> QED BY <4>1, <1>2, LenProperties, ExceptSeq
    <3> HIDE DEF st
    <3>2. SetSteps(t, [s EXCEPT ![i] = st]) \in Missions
      BY <3>1, <1>2 DEF SetSteps, Missions
    <3> QED BY <3>2, <1>2, <1>3, <2>2
  <2> HIDE DEF kept
  <2> DEFINE r == Spliced(kept.steps, add)
             m == [kept EXCEPT !.steps = r]
  <2>4. Whole(r)
    BY <2>3, SpliceWhole, AdditionsAreSteps DEF Missions
  <2>5. m.steps = r /\ m.outcome = mem[t].outcome
    <3> HIDE DEF r
    <3> QED BY <2>3 DEF Missions
  <2>6. Decide(t, m, kept)
    BY <2>1
  <2> HIDE DEF m, r
  <2> QED BY <2>3, <2>4, <2>5, <2>6, <1>1, DecideUncut
<1> QED BY <1>4, <1>5, <1>6, <1>7, <1>8 DEF Reassess

(* A drive begins with no other active, from a mission no step of which is *)
(* marked running.                                                         *)
LEMMA DriveUncut ==
  ASSUME IInv, Lone, Uncut, NEW t \in Terminals, NEW m, NEW b, Drive(t, m, b),
         Whole(m.steps), m.outcome # "completed", \A u \in Terminals \ {t} : ~Active(u)
  PROVE  Uncut'
<1>1. /\ pc'[t] = "loop" /\ mem'[t] = m /\ disk' = disk
      /\ \A u \in Terminals \ {t} : pc'[u] = pc[u] /\ mem'[u] = mem[u] /\ ~Active(u)'
  BY DEF Drive, IInv, Values, Active
<1>2. Active(t)'
  BY <1>1 DEF Active
<1>3. ASSUME NEW u \in Terminals
      PROVE  /\ Active(u)' => mem'[u].outcome # "completed" /\ OwnStepRuns(u)'
             /\ pc'[u] = "offering" => mem'[u].outcome # "completed"
             /\ pc'[u] = "over" => EndedWhole(mem'[u])
             /\ pc'[u] = "idle" => mem'[u] = NoMission
  <2>1. CASE u = t
    BY <1>1, <2>1 DEF OwnStepRuns, Whole
  <2>2. CASE u # t
    BY <1>1, <2>2 DEF Uncut
  <2> QED BY <2>1, <2>2
<1> QED BY <1>1, <1>2, <1>3 DEF Uncut, EndedWhole, Whole

LEMMA UsersUncut ==
  ASSUME IInv, Lone, Uncut, ~overlapped, ~overlapped', NEW t \in Terminals,
         Users(t), ~Crash(t)
  PROVE  Uncut'
<1>1. CASE Start(t)
  <2>1. PICK p \in Plans, b \in Budgets \cup {NoBudget} :
          Drive(t, [steps |-> Fresh(p), spent |-> 0, done |-> FALSE,
                    outcome |-> "pending"], b)
    BY <1>1 DEF Start
  <2>2. Whole(Fresh(p))
    BY DEF Whole, Fresh
  <2>3. \A u \in Terminals : ~Active(u)
    BY <1>1 DEF Start, Active
  <2> DEFINE m == [steps |-> Fresh(p), spent |-> 0, done |-> FALSE,
                   outcome |-> "pending"]
  <2>4. m.steps = Fresh(p) /\ m.outcome # "completed" /\ Drive(t, m, b)
    BY <2>1
  <2> HIDE DEF m
  <2> QED BY <2>2, <2>3, <2>4, DriveUncut
<1>2. CASE TakeOffer(t)
  <2> DEFINE m == [mem[t] EXCEPT !.done = FALSE]
  <2>1. /\ pc[t] = "offering" /\ Drive(t, m, NoBudget) /\ disk = mem[t]
        /\ \A u \in Terminals \ {t} : ~Active(u)
    BY <1>2 DEF TakeOffer
  <2>2. mem[t] \in Missions /\ ~Active(t)
    BY <2>1 DEF IInv, Place, Holding, Active
  <2>3. Whole(mem[t].steps) /\ mem[t].outcome # "completed"
    BY <2>1, <2>2 DEF Uncut
  <2>4. m.steps = mem[t].steps /\ m.outcome = mem[t].outcome
    BY <2>2 DEF Missions
  <2> HIDE DEF m
  <2> QED BY <2>1, <2>3, <2>4, DriveUncut
<1>3. CASE Offer(t) \/ DeclineOffer(t)
  <2>1. /\ ~Active(t) /\ disk' = disk
        /\ pc'[t] \in {"offering", "idle"}
        /\ pc'[t] = "offering" => mem'[t] = disk /\ disk \in Missions /\ ~disk.done
        /\ pc'[t] = "idle" => mem'[t] = NoMission
        /\ \A u \in Terminals \ {t} : pc'[u] = pc[u] /\ mem'[u] = mem[u]
    BY <1>3 DEF Offer, DeclineOffer, Active, Readable, IInv, Values
  <2>2. UNCHANGED at
    BY <1>3 DEF Offer, DeclineOffer
  <2>3. \A u \in Terminals : Active(u)' <=> Active(u)
    BY <2>1 DEF Active
  <2>4. ASSUME NEW u \in Terminals
        PROVE  /\ Active(u)' => mem'[u].outcome # "completed" /\ OwnStepRuns(u)'
               /\ pc'[u] = "offering" => mem'[u].outcome # "completed"
               /\ pc'[u] = "over" => EndedWhole(mem'[u])
               /\ pc'[u] = "idle" => mem'[u] = NoMission
    <3>1. CASE u = t
      BY <3>1, <2>1, <2>3 DEF Uncut
    <3>2. CASE u # t
      BY <3>2, <2>1, <2>2, <2>3 DEF Uncut, OwnStepRuns
    <3> QED BY <3>1, <3>2
  <2> QED BY <2>1, <2>3, <2>4 DEF Uncut, EndedWhole, Whole
<1>4. CASE Escape(t)
  <2>1. UNCHANGED <<disk, pc, mem, at>>
    BY <1>4 DEF Escape
  <2> QED BY <2>1 DEF Uncut, Active, OwnStepRuns, EndedWhole, Whole
<1> QED BY <1>1, <1>2, <1>3, <1>4 DEF Users

LEMMA UncutNext ==
  ASSUME IInv, LimitInv, ~overlapped => Uncut, [Next /\ NobodyCrashes]_vars
  PROVE  ~overlapped' => Uncut'
<1> SUFFICES ASSUME ~overlapped' PROVE Uncut'
  OBVIOUS
<1>1. ~overlapped
  <2>1. CASE UNCHANGED vars
    BY <2>1 DEF vars
  <2>2. CASE Rest
    BY <2>2 DEF Rest, vars
  <2>3. ASSUME NEW t \in Terminals, Drives(t) PROVE overlapped' = overlapped
    <3>1. CASE RunStep(t)
      BY <3>1 DEF RunStep
    <3> QED BY <3>1, <2>3, DriveMoves DEF Moves
  <2>4. ASSUME NEW t \in Terminals, Users(t) PROVE overlapped => overlapped'
    BY <2>4 DEF Users, Start, Offer, TakeOffer, DeclineOffer, Crash, Escape
  <2> QED BY <2>1, <2>2, <2>3, <2>4 DEF Next
<1>2. Lone /\ Uncut
  BY <1>1 DEF LimitInv
<1>3. CASE UNCHANGED vars \/ Rest
  <2>1. UNCHANGED <<disk, pc, mem, at>>
    BY <1>3 DEF vars, Rest
  <2> QED BY <2>1, <1>2 DEF Uncut, Active, OwnStepRuns, EndedWhole, Whole
<1>4. ASSUME NEW t \in Terminals, Drives(t) PROVE Uncut'
  <2>1. CASE EndAborted(t) \/ EndDeclared(t) \/ EndExhausted(t) \/ EndNothingReady(t)
             \/ Pause(t)
    BY <2>1, <1>2, EndUncut DEF EndAborted, EndDeclared, EndExhausted, EndNothingReady,
                                Pause, Goes, LoopOpen
  <2> QED BY <2>1, <1>2, <1>4, SkipUncut, RunUncut, ReturnUncut, ReassessUncut
          DEF Drives, Loop
<1>5. ASSUME NEW t \in Terminals, Users(t), ~Crash(t) PROVE Uncut'
  BY <1>1, <1>2, <1>5, UsersUncut
<1> QED BY <1>3, <1>4, <1>5 DEF Next, NobodyCrashes

(* As long as no terminal crashes and none drives beside another, whatever *)
(* is stopped, paused and resumed, a mission recorded as completed has no  *)
(* step that was begun and never answered: the missed step of a resumed    *)
(* mission (which mission-run.ts says is picked up) takes a crash.         *)
THEOREM CrashIsTheOnlyWay ==
    Spec /\ [][NobodyCrashes]_vars => []CompletedWhole
<1> DEFINE K == IInv /\ LimitInv /\ (~overlapped => Uncut)
<1>1. Init => K
  <2> SUFFICES ASSUME Init PROVE Uncut
    BY InitInv, LimitInit
  <2> QED BY MarkersAreNoMissions DEF Init, Uncut, Active
<1>2. K /\ [Next]_vars /\ [NobodyCrashes]_vars => K'
  <2> SUFFICES ASSUME K, [Next]_vars, [NobodyCrashes]_vars PROVE K'
    OBVIOUS
  <2>1. [Next /\ NobodyCrashes]_vars
    OBVIOUS
  <2> QED BY <2>1, NextInv, LimitNext, UncutNext
<1>3. K => CompletedWhole
  <2> SUFFICES ASSUME K, ~overlapped, NEW m \in Copies, m.outcome = "completed",
                      NEW i \in DOMAIN m.steps
               PROVE  m.steps[i].status # "running"
    BY DEF CompletedWhole, InterruptedStepsRun
  <2>1. CASE m = disk
    BY <2>1 DEF Copies, IInv, Values, Uncut, Whole
  <2>2. ASSUME NEW t \in Terminals, m = mem[t] PROVE Whole(m.steps)
    <3>1. pc[t] \in {"offering", "over"} \/ Active(t) \/ pc[t] = "idle"
      BY DEF IInv, Values, Active
    <3> QED BY <2>2, <3>1 DEF Uncut, EndedWhole, Copies
  <2> QED BY <2>1, <2>2 DEF Copies, Whole
<1> HIDE DEF K
<1> QED BY <1>1, <1>2, <1>3, PTL DEF Spec

-----------------------------------------------------------------------------
(* What a drive may rewrite, and how it gets on.                           *)

(* From plan s to plan r nothing is lost: steps stay, with their           *)
(* dependencies, gates and attempts, and only step i may see a capability  *)
(* or a verdict changed.                                                   *)
Keeps(s, r, i) ==
    /\ DOMAIN s \subseteq DOMAIN r
    /\ \A j \in DOMAIN s :
          /\ r[j].deps = s[j].deps /\ r[j].gate = s[j].gate
          /\ s[j].attempts <= r[j].attempts
          /\ j # i => /\ r[j].cap = s[j].cap
                      /\ s[j].status # "pending" => r[j].status = s[j].status

(* Whatever a reassessor answers, a drive never rewrites history: a retry, *)
(* an escalation or a replan touches the verdict of the step it judges and *)
(* of no other, steps and attempts are never dropped, spend never falls.   *)
HistoryKept ==
    [][\A t \in Terminals :
         Active(t) /\ Active(t)' =>
            /\ Keeps(mem[t].steps, mem'[t].steps, at[t])
            /\ mem[t].spent <= mem'[t].spent]_vars

Pending(s) == {i \in DOMAIN s : s[i].status = "pending"}

Stage(p) == CASE p = "executing" -> 2 [] p = "reassessing" -> 1 [] OTHER -> 0

(* One more execution, or the next stage of it, or one pending step fewer. *)
Nearer(t) ==
    \/ executed'[t] = executed[t] + 1
    \/ /\ executed'[t] = executed[t]
       /\ Stage(pc'[t]) < Stage(pc[t])
    \/ /\ executed'[t] = executed[t] /\ pc'[t] = pc[t]
       /\ DOMAIN mem'[t].steps = DOMAIN mem[t].steps
       /\ Pending(mem'[t].steps) \subseteq Pending(mem[t].steps)
       /\ Pending(mem'[t].steps) # Pending(mem[t].steps)

Idles(t) == UNCHANGED <<mem[t], pc[t], executed[t], at[t]>>

(* Every event of a drive that goes on takes it nearer to its end: retries *)
(* and replans put steps back in the plan, but only after an execution,    *)
(* and those are counted up to maxSteps.                                   *)
MissionAdvances ==
    [][\A t \in Terminals : Active(t) /\ Active(t)' => Nearer(t) \/ Idles(t)]_vars

(* What one event does to an active terminal that stays so.                *)
Advance(t) ==
    /\ Keeps(mem[t].steps, mem'[t].steps, at[t])
    /\ mem[t].spent <= mem'[t].spent
    /\ Nearer(t) \/ Idles(t)

LEMMA StepsTyped ==
  ASSUME NEW s \in Seq(StepStates)
  PROVE  \A j \in DOMAIN s : s[j] \in StepStates /\ s[j].attempts \in Nat
<1> SUFFICES ASSUME NEW j \in DOMAIN s PROVE s[j] \in StepStates
  BY DEF StepStates
<1> QED BY LenProperties, ElementOfSeq

LEMMA KeepsSame ==
  ASSUME NEW s \in Seq(StepStates), NEW i PROVE Keeps(s, s, i)
BY StepsTyped DEF Keeps

(* One step is replaced: a pending one, or the one at i.                   *)
LEMMA KeepsStep ==
  ASSUME NEW s \in Seq(StepStates), NEW k \in DOMAIN s, NEW st, NEW i,
         st.deps = s[k].deps, st.gate = s[k].gate, s[k].attempts <= st.attempts,
         k # i => st.cap = s[k].cap /\ s[k].status = "pending"
  PROVE  Keeps(s, [s EXCEPT ![k] = st], i)
<1> DEFINE r == [s EXCEPT ![k] = st]
<1>1. DOMAIN r = DOMAIN s /\ \A j \in DOMAIN s : r[j] = IF j = k THEN st ELSE s[j]
  OBVIOUS
<1> HIDE DEF r
<1>2. Keeps(s, r, i)
  <2> SUFFICES ASSUME NEW j \in DOMAIN s
               PROVE  /\ r[j].deps = s[j].deps /\ r[j].gate = s[j].gate
                      /\ s[j].attempts <= r[j].attempts
                      /\ j # i => /\ r[j].cap = s[j].cap
                                  /\ s[j].status # "pending" => r[j].status = s[j].status
    BY <1>1 DEF Keeps
  <2>1. CASE j = k
    BY <2>1, <1>1
  <2>2. CASE j # k
    BY <2>2, <1>1, StepsTyped
  <2> QED BY <2>1, <2>2
<1> QED BY <1>2 DEF r

LEMMA KeepsOn ==
  ASSUME NEW s \in Seq(StepStates), NEW r \in Seq(StepStates), NEW q \in Seq(StepStates),
         NEW i, Keeps(s, r, i), Keeps(r, q, i)
  PROVE  Keeps(s, q, i)
<1> SUFFICES ASSUME NEW j \in DOMAIN s
             PROVE  /\ j \in DOMAIN q
                    /\ q[j].deps = s[j].deps /\ q[j].gate = s[j].gate
                    /\ s[j].attempts <= q[j].attempts
                    /\ j # i => /\ q[j].cap = s[j].cap
                                /\ s[j].status # "pending" => q[j].status = s[j].status
  BY DEF Keeps
<1>1. j \in DOMAIN r /\ j \in DOMAIN q
  BY DEF Keeps
<1>2. s[j].attempts \in Nat /\ r[j].attempts \in Nat /\ q[j].attempts \in Nat
  BY <1>1, StepsTyped
<1>3. s[j].attempts <= r[j].attempts /\ r[j].attempts <= q[j].attempts
  BY <1>1 DEF Keeps
<1>4. s[j].attempts <= q[j].attempts
  BY <1>2, <1>3
<1> QED BY <1>1, <1>4 DEF Keeps

LEMMA KeepsSplice ==
  ASSUME NEW s \in Seq(StepStates), NEW add \in Seq(PlanSteps), NEW i
  PROVE  Keeps(s, Spliced(s, add), i)
<1> DEFINE new == [k \in DOMAIN add |->
                    [cap |-> add[k].cap, gate |-> add[k].gate,
                     deps |-> {d \in add[k].deps : 0 < d /\ d < Len(s) + k},
                     status |-> "pending", attempts |-> 0]]
           r == s \o new
<1>1. /\ DOMAIN s = 1 .. Len(s) /\ Len(s) \in Nat
      /\ DOMAIN add = 1 .. Len(add) /\ Len(add) \in Nat
  BY LenProperties
<1>2. new \in Seq(StepStates)
  <2>1. ASSUME NEW k \in DOMAIN add PROVE new[k] \in StepStates
    <3>1. add[k] \in PlanSteps
      BY <1>1, ElementOfSeq
    <3> QED BY <3>1 DEF PlanSteps, StepStates, Statuses
  <2>2. new \in [1 .. Len(add) -> StepStates]
    BY <1>1, <2>1
  <2> HIDE DEF new
  <2> QED BY <2>2, <1>1, SeqDef
<1>3. r \in Seq(StepStates) /\ \A j \in DOMAIN s : j \in DOMAIN r /\ r[j] = s[j]
  <2> HIDE DEF new
  <2>1. /\ r \in Seq(StepStates) /\ Len(r) = Len(s) + Len(new) /\ Len(new) \in Nat
        /\ DOMAIN r = 1 .. Len(r)
        /\ \A j \in 1 .. Len(s) + Len(new) :
             r[j] = IF j <= Len(s) THEN s[j] ELSE new[j - Len(s)]
    BY <1>2, ConcatProperties, LenProperties
  <2> HIDE DEF r
  <2> QED BY <2>1, <1>1
<1>4. Keeps(s, r, i)
  <2> HIDE DEF r
  <2> QED BY <1>3, StepsTyped DEF Keeps
<1>5. Spliced(s, add) = r \/ Spliced(s, add) = s
  BY DEF Spliced
<1> HIDE DEF r
<1> QED BY <1>4, <1>5, KeepsSame

LEMMA SkipAdvances ==
  ASSUME IInv, NEW t \in Terminals, SkipBlocked(t) PROVE Advance(t)
<1> DEFINE s == mem[t].steps
           i == First(Blocked(s))
           st == [s[i] EXCEPT !.status = "skipped"]
<1>1. /\ pc[t] = "loop" /\ Blocked(s) # {}
      /\ mem' = [mem EXCEPT ![t] = SetSteps(t, [s EXCEPT ![i].status = "skipped"])]
      /\ UNCHANGED <<pc, executed>>
  BY DEF SkipBlocked, Goes, LoopOpen, Hold
<1>2. mem[t] \in Missions /\ s \in Seq(StepStates) /\ DOMAIN s \subseteq Nat
  <2>1. mem[t] \in Missions
    BY <1>1 DEF IInv, Place, Holding
  <2> QED BY <2>1, LenProperties DEF Missions
<1>3. i \in DOMAIN s /\ s[i].status = "pending"
  BY <1>1, <1>2, FirstIsMember DEF Blocked
<1>4. s[i] \in StepStates
  BY <1>2, <1>3, StepsTyped
<1>5. /\ st.deps = s[i].deps /\ st.gate = s[i].gate /\ st.cap = s[i].cap
      /\ st.attempts = s[i].attempts /\ st.attempts \in Nat /\ st.status = "skipped"
  BY <1>4 DEF StepStates
<1>6. mem'[t].steps = [s EXCEPT ![i] = st] /\ mem'[t].spent = mem[t].spent
  BY <1>1, <1>2 DEF SetSteps, Missions, IInv, Values
<1>7. mem[t].spent \in Nat
  BY <1>2 DEF Missions
<1> HIDE DEF st, i, s
<1>8. Keeps(s, [s EXCEPT ![i] = st], at[t])
  BY <1>2, <1>3, <1>5, KeepsStep
<1>9. /\ DOMAIN [s EXCEPT ![i] = st] = DOMAIN s
      /\ \A j \in DOMAIN s : [s EXCEPT ![i] = st][j] = IF j = i THEN st ELSE s[j]
  OBVIOUS
<1>10. /\ Pending([s EXCEPT ![i] = st]) \subseteq Pending(s)
       /\ i \in Pending(s) /\ i \notin Pending([s EXCEPT ![i] = st])
  BY <1>3, <1>5, <1>9 DEF Pending
<1>11. Nearer(t)
  BY <1>1, <1>6, <1>9, <1>10 DEF Nearer, s
<1> QED BY <1>6, <1>7, <1>8, <1>11 DEF Advance, s

LEMMA RunAdvances ==
  ASSUME IInv, NEW t \in Terminals, RunStep(t) PROVE Advance(t)
<1> DEFINE s == mem[t].steps
           i == First(Ready(s))
           st == [s[i] EXCEPT !.status = "running", !.attempts = @ + 1]
<1>1. /\ pc[t] = "loop" /\ Ready(s) # {}
      /\ mem' = [mem EXCEPT ![t] =
                   SetSteps(t, [s EXCEPT ![i].status = "running",
                                         ![i].attempts = @ + 1])]
      /\ executed' = [executed EXCEPT ![t] = @ + 1]
  BY DEF RunStep, Goes, LoopOpen, Hold
<1>2. mem[t] \in Missions /\ s \in Seq(StepStates) /\ DOMAIN s \subseteq Nat
  <2>1. mem[t] \in Missions
    BY <1>1 DEF IInv, Place, Holding
  <2> QED BY <2>1, LenProperties DEF Missions
<1>3. i \in DOMAIN s /\ s[i].status = "pending"
  BY <1>1, <1>2, FirstIsMember DEF Ready
<1>4. s[i] \in StepStates /\ s[i].attempts \in Nat
  BY <1>2, <1>3, StepsTyped
<1>5. /\ st.deps = s[i].deps /\ st.gate = s[i].gate /\ st.cap = s[i].cap
      /\ st.attempts = s[i].attempts + 1
  BY <1>4 DEF StepStates
<1>6. mem'[t].steps = [s EXCEPT ![i] = st] /\ mem'[t].spent = mem[t].spent
  <2>1. [s EXCEPT ![i].status = "running", ![i].attempts = @ + 1] = [s EXCEPT ![i] = st]
    BY <1>3, <1>4 DEF StepStates
  <2> QED BY <2>1, <1>1, <1>2 DEF SetSteps, Missions, IInv, Values
<1>7. mem[t].spent \in Nat
  BY <1>2 DEF Missions
<1> HIDE DEF st, i, s
<1>8. Keeps(s, [s EXCEPT ![i] = st], at[t])
  BY <1>2, <1>3, <1>4, <1>5, KeepsStep
<1>9. executed'[t] = executed[t] + 1
  BY <1>1 DEF IInv, Values
<1> QED BY <1>6, <1>7, <1>8, <1>9 DEF Advance, Nearer, s

LEMMA ReturnAdvances ==
  ASSUME IInv, NEW t \in Terminals, StepReturns(t) PROVE Advance(t)
<1> DEFINE s == mem[t].steps
           i == at[t]
<1>1. PICK ok \in BOOLEAN, cost \in Reported :
        LET m == [mem[t] EXCEPT
                    !.steps[i].status = IF ok THEN "done" ELSE "failed",
                    !.spent = @ + cost]
        IN /\ mem' = [mem EXCEPT ![t] = m]
           /\ pc' = [pc EXCEPT ![t] =
                        IF ok /\ ~s[i].gate THEN "loop" ELSE "reassessing"]
  BY DEF StepReturns, Hold, Goto
<1>2. pc[t] = "executing" /\ executed' = executed
  BY DEF StepReturns
<1>3. mem[t] \in Missions /\ s \in Seq(StepStates) /\ i \in DOMAIN s
  BY <1>2 DEF IInv, Place, Holding, Missions
<1>4. s[i] \in StepStates /\ s[i].attempts \in Nat
  BY <1>3, StepsTyped
<1> DEFINE status == IF ok THEN "done" ELSE "failed"
           st == [s[i] EXCEPT !.status = status]
<1>5. st.deps = s[i].deps /\ st.gate = s[i].gate /\ st.attempts = s[i].attempts
  BY <1>4 DEF StepStates
<1>6. mem'[t].steps = [s EXCEPT ![i] = st] /\ mem'[t].spent = mem[t].spent + cost
  BY <1>1, <1>3 DEF Missions, IInv, Values
<1>7. mem[t].spent \in Nat /\ cost \in Nat
  BY <1>1, <1>3, CostsAreBounded DEF Missions, Reported
<1> HIDE DEF st, i, s
<1>8. Keeps(s, [s EXCEPT ![i] = st], at[t])
  BY <1>3, <1>4, <1>5, KeepsStep DEF i
<1>9. pc'[t] \in {"loop", "reassessing"}
  BY <1>1 DEF IInv, Values
<1>10. Nearer(t)
  BY <1>2, <1>9 DEF Nearer, Stage
<1> QED BY <1>6, <1>7, <1>8, <1>10 DEF Advance, s

(* A decision goes back to the loop.                                       *)
LEMMA DecideAdvances ==
  ASSUME IInv, NEW t \in Terminals, Judging(t), NEW m, NEW sv, Decide(t, m, sv),
         Keeps(mem[t].steps, m.steps, at[t]), m.spent = mem[t].spent
  PROVE  Advance(t)
<1>1. pc[t] = "reassessing" /\ mem[t].spent \in Nat
  BY Judged
<1>2. pc'[t] = "loop" /\ mem'[t] = m /\ executed' = executed
  BY DEF Decide, Hold, Goto, IInv, Values
<1>3. Nearer(t)
  BY <1>1, <1>2 DEF Nearer, Stage
<1> QED BY <1>1, <1>2, <1>3 DEF Advance

LEMMA ReassessAdvances ==
  ASSUME IInv, NEW t \in Terminals, Reassess(t) PROVE Advance(t)
<1> DEFINE s == mem[t].steps
           i == at[t]
<1>1. Judging(t)
  BY DEF Reassess, AcceptResult, GiveUp, DeclareDone, Retry, Escalate, Replan, MayRerun
<1>2. /\ mem[t] \in Missions /\ s \in Seq(StepStates)
      /\ i \in DOMAIN s /\ s[i] \in StepStates /\ s[i].attempts \in Nat
  <2>1. mem[t] \in Missions /\ i \in DOMAIN s
    BY <1>1, Judged
  <2>2. s \in Seq(StepStates)
    BY <2>1 DEF Missions
  <2> QED BY <2>1, <2>2, StepsTyped
<1>3. ASSUME NEW st, st.deps = s[i].deps, st.gate = s[i].gate,
             st.attempts = s[i].attempts
      PROVE  /\ SetSteps(t, [s EXCEPT ![i] = st]).spent = mem[t].spent
             /\ SetSteps(t, [s EXCEPT ![i] = st]).steps = [s EXCEPT ![i] = st]
             /\ Keeps(s, [s EXCEPT ![i] = st], at[t])
  <2>1. Keeps(s, [s EXCEPT ![i] = st], at[t])
    BY <1>2, <1>3, KeepsStep
  <2> QED BY <2>1, <1>2 DEF SetSteps, Missions
<1>4. CASE AcceptResult(t) \/ GiveUp(t)
  <2>1. Decide(t, mem[t], mem[t])
    BY <1>4 DEF AcceptResult, GiveUp
  <2> QED BY <2>1, <1>1, <1>2, KeepsSame, DecideAdvances
<1>5. CASE DeclareDone(t)
  <2> DEFINE m == [mem[t] EXCEPT !.done = TRUE]
  <2>1. Decide(t, m, mem[t])
    BY <1>5 DEF DeclareDone
  <2>2. m.steps = s /\ m.spent = mem[t].spent
    BY <1>2 DEF Missions
  <2> HIDE DEF m
  <2> QED BY <2>1, <2>2, <1>1, <1>2, KeepsSame, DecideAdvances
<1>6. CASE Retry(t)
  <2> DEFINE st == [s[i] EXCEPT !.status = "pending"]
             m == SetSteps(t, [s EXCEPT ![i] = st])
  <2>1. Decide(t, m, m)
    BY <1>6 DEF Retry
  <2>2. st.deps = s[i].deps /\ st.gate = s[i].gate /\ st.attempts = s[i].attempts
    BY <1>2 DEF StepStates
  <2>3. m.spent = mem[t].spent /\ Keeps(s, m.steps, at[t])
    <3> HIDE DEF st
    <3> QED BY <1>3, <2>2
  <2> HIDE DEF m
  <2> QED BY <2>1, <2>3, <1>1, DecideAdvances
<1>7. CASE Escalate(t)
  <2>1. PICK cap \in Stronger :
          LET m == SetSteps(t, [s EXCEPT ![i].status = "pending", ![i].cap = cap])
          IN Decide(t, m, m)
    BY <1>7 DEF Escalate
  <2> DEFINE st == [s[i] EXCEPT !.status = "pending", !.cap = cap]
             m == SetSteps(t, [s EXCEPT ![i] = st])
  <2>2. m = SetSteps(t, [s EXCEPT ![i].status = "pending", ![i].cap = cap])
    BY <1>2 DEF SetSteps
  <2>3. Decide(t, m, m)
    BY <2>1, <2>2
  <2>4. st.deps = s[i].deps /\ st.gate = s[i].gate /\ st.attempts = s[i].attempts
    BY <1>2 DEF StepStates
  <2>5. m.spent = mem[t].spent /\ Keeps(s, m.steps, at[t])
    <3> HIDE DEF st
    <3> QED BY <1>3, <2>4
  <2> HIDE DEF m
  <2> QED BY <2>3, <2>5, <1>1, DecideAdvances
<1>8. CASE Replan(t)
  <2> DEFINE st == [s[i] EXCEPT !.status = "skipped"]
             kept == IF Current(t).status = "failed"
                     THEN SetSteps(t, [s EXCEPT ![i] = st])
                     ELSE mem[t]
  <2>1. PICK add \in Additions :
          Decide(t, [kept EXCEPT !.steps = Spliced(kept.steps, add)], kept)
    BY <1>8 DEF Replan
  <2>2. /\ st.deps = s[i].deps /\ st.gate = s[i].gate /\ st.attempts = s[i].attempts
        /\ st \in StepStates
    BY <1>2 DEF StepStates, Statuses
  <2>3. /\ kept \in Missions /\ kept.spent = mem[t].spent
        /\ Keeps(s, kept.steps, at[t])
    <3>1. [s EXCEPT ![i] = st] \in Seq(StepStates)
      <4> HIDE DEF st, s, i
      <4> QED BY <2>2, <1>2, LenProperties, ExceptSeq
    <3> HIDE DEF st
    <3>2. SetSteps(t, [s EXCEPT ![i] = st]) \in Missions
      BY <3>1, <1>2 DEF SetSteps, Missions
    <3>3. /\ SetSteps(t, [s EXCEPT ![i] = st]).spent = mem[t].spent
          /\ Keeps(s, SetSteps(t, [s EXCEPT ![i] = st]).steps, at[t])
      BY <1>3, <2>2
    <3> QED BY <3>2, <3>3, <1>2, KeepsSame
  <2> HIDE DEF kept
  <2> DEFINE r == Spliced(kept.steps, add)
             m == [kept EXCEPT !.steps = r]
  <2>4. kept.steps \in Seq(StepStates) /\ add \in Seq(PlanSteps)
    BY <2>3, AdditionsAreSteps DEF Missions
  <2>5. Coherent(kept.steps)
    <3>1. ASSUME Current(t).status = "failed" PROVE Coherent(kept.steps)
      <4>1. Coherent(s) /\ Replaces(st, s, i)
        BY <1>1, <2>2, Judged, JudgedReplaces
      <4>2. Coherent([s EXCEPT ![i] = st])
        <5> HIDE DEF st, s, i
        <5> QED BY <4>1, <1>2, SetStep
      <4>3. kept.steps = [s EXCEPT ![i] = st]
        BY <3>1, <1>2 DEF kept, SetSteps, Missions
      <4> QED BY <4>2, <4>3
    <3>2. ASSUME Current(t).status # "failed" PROVE Coherent(kept.steps)
      BY <3>2, <1>1, Judged DEF kept
    <3> QED BY <3>1, <3>2
  <2>6. Keeps(kept.steps, r, at[t]) /\ r \in Seq(StepStates)
    BY <2>4, <2>5, KeepsSplice, SpliceJoins
  <2>7. Keeps(s, r, at[t])
    <3> HIDE DEF r, s
    <3> QED BY <1>2, <2>3, <2>4, <2>6, KeepsOn
  <2>8. m.steps = r /\ m.spent = mem[t].spent
    <3> HIDE DEF r
    <3> QED BY <2>3 DEF Missions
  <2>9. Decide(t, m, kept)
    BY <2>1
  <2> HIDE DEF m, r
  <2> QED BY <2>7, <2>8, <2>9, <1>1, DecideAdvances
<1> QED BY <1>4, <1>5, <1>6, <1>7, <1>8 DEF Reassess

(* An event of another terminal, or of its user, moves nothing of a drive. *)
LEMMA IdleAdvances ==
  ASSUME IInv, NEW t \in Terminals, Active(t), Idles(t) PROVE Advance(t)
<1>1. mem[t] \in Missions
  BY DEF IInv, Place, Holding, Active
<1>2. mem[t].steps \in Seq(StepStates) /\ mem[t].spent \in Nat
  BY <1>1 DEF Missions
<1> QED BY <1>2, KeepsSame DEF Advance, Idles

LEMMA OtherIdles ==
  ASSUME IInv, NEW t \in Terminals, NEW u \in Terminals, u # t, Drives(u) \/ Users(u)
  PROVE  Idles(t)
<1> USE DEF IInv, Values, Idles
<1>1. CASE Loop(u)
  BY <1>1 DEF Loop, EndAborted, EndDeclared, EndExhausted, EndNothingReady, Pause,
              SkipBlocked, RunStep, Conclude, Locals, Hold, Goto
<1>2. CASE StepReturns(u)
  BY <1>2 DEF StepReturns, Hold, Goto
<1>3. CASE Reassess(u)
  BY <1>3 DEF Reassess, AcceptResult, GiveUp, DeclareDone, Retry, Escalate, Replan,
              Decide, Hold, Goto
<1>4. CASE Users(u)
  BY <1>4 DEF Users, Start, Offer, TakeOffer, DeclineOffer, Crash, Escape, Drive, Locals
<1> QED BY <1>1, <1>2, <1>3, <1>4 DEF Drives

LEMMA EveryStepAdvances ==
  ASSUME IInv, [Next]_vars, NEW t \in Terminals, Active(t), Active(t)'
  PROVE  Advance(t)
<1>1. CASE UNCHANGED vars \/ Rest
  <2>1. Idles(t)
    BY <1>1 DEF Rest, vars, Idles
  <2> QED BY <2>1, IdleAdvances
<1>2. ASSUME NEW u \in Terminals, u # t, Drives(u) \/ Users(u) PROVE Advance(t)
  BY <1>2, OtherIdles, IdleAdvances
<1>3. CASE Loop(t)
  <2>1. ~(EndAborted(t) \/ EndDeclared(t) \/ EndExhausted(t) \/ EndNothingReady(t)
          \/ Pause(t))
    <3> SUFFICES ASSUME pc' = [pc EXCEPT ![t] = "over"] PROVE FALSE
      BY DEF EndAborted, EndDeclared, EndExhausted, EndNothingReady, Pause, Conclude, Goto
    <3> QED BY DEF Active, IInv, Values
  <2> QED BY <2>1, <1>3, SkipAdvances, RunAdvances DEF Loop
<1>4. CASE StepReturns(t) \/ Reassess(t)
  BY <1>4, ReturnAdvances, ReassessAdvances
<1>5. CASE Users(t)
  <2>1. CASE Escape(t)
    BY <2>1, IdleAdvances DEF Escape, Idles
  <2>2. CASE Crash(t)
    BY <2>2 DEF Crash, Active, IInv, Values
  <2> QED BY <2>1, <2>2, <1>5 DEF Users, Start, Offer, TakeOffer, DeclineOffer, Active
<1> QED BY <1>1, <1>2, <1>3, <1>4, <1>5 DEF Next, Drives

(* A drive never loses a step, an attempt or a cent, and gives a verdict   *)
(* again only to the step it judges: resuming can trust what it reads.     *)
THEOREM HistoryIsKept == Spec => HistoryKept
<1>1. IInv /\ [Next]_vars =>
        [\A t \in Terminals :
           Active(t) /\ Active(t)' =>
              /\ Keeps(mem[t].steps, mem'[t].steps, at[t])
              /\ mem[t].spent <= mem'[t].spent]_vars
  BY EveryStepAdvances DEF Advance
<1> QED BY <1>1, InitInv, NextInv, PTL DEF Spec, HistoryKept

(* Every event of a drive takes it nearer to its end, along executions     *)
(* (bounded by maxSteps, MissionTypes), the stages of one, and the pending *)
(* steps: no answer of a reassessor keeps a drive going without executing. *)
THEOREM DrivesGetOn == Spec => MissionAdvances
<1>1. IInv /\ [Next]_vars =>
        [\A t \in Terminals : Active(t) /\ Active(t)' => Nearer(t) \/ Idles(t)]_vars
  BY EveryStepAdvances DEF Advance
<1> QED BY <1>1, InitInv, NextInv, PTL DEF Spec, MissionAdvances

=============================================================================
