-------------------------- MODULE ScheduleProofs ---------------------------
(***************************************************************************)
(* Theorems about Schedule for any jobs, cadences, daemons, editors and    *)
(* clock: type correctness, that no slot of a job starts two runs while no *)
(* two processes cross on the file, that jobs keep to their slots and pass *)
(* none over, and when a paused job stays so.                              *)
(*                                                                         *)
(* The second needs that a job in the file is always scheduled past the    *)
(* slot it was last fired for, except between the start of its run and     *)
(* its rescheduling, and that one daemon at a time is in that span.        *)
(***************************************************************************)
EXTENDS Schedule, TLAPS

(* A job is rescheduled strictly later than it was, and than now.          *)
LEMMA DivNat ==
  ASSUME NEW a \in Nat, NEW b \in Nat \ {0}
  PROVE  a \div b \in Nat
OBVIOUS

LEMMA Product ==
  ASSUME NEW a \in Nat \ {0}, NEW b \in Nat \ {0}
  PROVE  a * b \in Nat \ {0}
OBVIOUS

LEMMA NextRunLater ==
  ASSUME NEW s \in Specs, NEW t \in Nat
  PROVE  NextRun(s, t) \in Nat /\ NextRun(s, t) > t
<1>1. s \in Spec0 /\ Day \in Nat \ {0}
  BY ScheduleAssumption
<1>2. CASE s \in [type : {"interval"}, every : Nat \ {0}]
  BY <1>2 DEF NextRun
<1>3. CASE s \in [type : {"dailyAt"}, minutesOfDay : 0 .. Day - 1]
  <2>1. t % Day \in 0 .. Day - 1 /\ t % Day <= t
    BY <1>1
  <2>2. s.type # "interval" /\ s.minutesOfDay \in 0 .. Day - 1
    BY <1>3
  <2> QED BY <1>1, <2>1, <2>2 DEF NextRun
<1> QED BY <1>1, <1>2, <1>3 DEF Spec0

LEMMA AdvanceLater ==
  ASSUME NEW j \in ScheduledJob, NEW t \in Nat
  PROVE  /\ Advance(j, t) \in ScheduledJob
         /\ t >= j.nextRun => Advance(j, t).nextRun > j.nextRun
         /\ Advance(j, t).enabled = j.enabled
<1> DEFINE elapsed == t - j.nextRun
           steps == IF elapsed >= 0 THEN (elapsed \div j.spec.every) + 1 ELSE 1
           slot == IF j.spec.type = "interval" THEN j.nextRun + steps * j.spec.every
                                               ELSE NextRun(j.spec, t)
<1>1. j.spec \in Specs /\ j.nextRun \in Nat
  BY DEF ScheduledJob
<1>2. slot \in Nat /\ (t >= j.nextRun => slot > j.nextRun)
  <2>1. CASE j.spec.type = "interval"
    <3>1. j.spec.every \in Nat \ {0}
      BY <1>1, <2>1, ScheduleAssumption DEF Spec0
    <3>2. steps \in Nat \ {0}
      <4>1. CASE elapsed >= 0
        <5>1. elapsed \in Nat
          BY <1>1, <4>1
        <5>2. elapsed \div j.spec.every \in Nat
          BY <5>1, <3>1, DivNat
        <5> QED BY <4>1, <5>2
      <4>2. CASE ~(elapsed >= 0)
        BY <4>2
      <4> QED BY <4>1, <4>2
    <3>3. steps * j.spec.every \in Nat \ {0}
      BY <3>1, <3>2, Product
    <3> HIDE DEF steps
    <3>4. slot = j.nextRun + steps * j.spec.every
      BY <2>1
    <3> QED BY <1>1, <3>3, <3>4
  <2>2. CASE j.spec.type # "interval"
    <3>1. NextRun(j.spec, t) \in Nat /\ NextRun(j.spec, t) > t
      BY <1>1, NextRunLater
    <3>2. slot = NextRun(j.spec, t)
      BY <2>2
    <3> QED BY <1>1, <3>1, <3>2
  <2> QED BY <2>1, <2>2
<1>3. Advance(j, t) = [j EXCEPT !.lastRun = t, !.nextRun = slot]
  BY DEF Advance
<1> HIDE DEF slot
<1> QED BY <1>2, <1>3 DEF ScheduledJob

-----------------------------------------------------------------------------
(* Type correctness.                                                       *)

(* The processes of each kind, and where they can be.                      *)
DaemonPlace(d) ==
  /\ pc[d] \in {"off", "sleep", "fire", "starting", "write"}
  /\ pc[d] \notin {"starting", "write"} => job[d] = {}

EditorPlace(e) ==
  /\ pc[e] \in {"idle", "write"}
  /\ pc[e] = "write" => edit[e] # NoEdit
  /\ edit[e] # NoEdit /\ edit[e].do # "add" =>
       pc[e] = "write" /\ edit[e].id \in DOMAIN view[e]

PlacesOK ==
  /\ \A d \in Daemons : DaemonPlace(d)
  /\ \A e \in Editors : EditorPlace(e)

TInv == TypeOK /\ PlacesOK

LEMMA Tables ==
  /\ IsTable(Empty)
  /\ \A t : IsTable(t) =>
       /\ \A ids \in SUBSET Jobs : IsTable(Without(t, ids))
       /\ \A id \in Jobs, j \in ScheduledJob : IsTable(With(t, id, j))
<1>1. IsTable(Empty)
  BY DEF IsTable, Empty
<1>2. ASSUME NEW t, IsTable(t), NEW ids \in SUBSET Jobs
      PROVE  IsTable(Without(t, ids))
  BY <1>2 DEF IsTable, Without
<1>3. ASSUME NEW t, IsTable(t), NEW id \in Jobs, NEW j \in ScheduledJob
      PROVE  IsTable(With(t, id, j))
  BY <1>3 DEF IsTable, With
<1> QED BY <1>1, <1>2, <1>3

LEMMA EditedIsTable ==
  ASSUME NEW t, IsTable(t), NEW w \in Edit, w # NoEdit,
         w.do # "add" => w.id \in DOMAIN t
  PROVE  IsTable(Edited(t, w))
<1>1. CASE w \in [do : {"add"}, id : Jobs, job : ScheduledJob]
  BY <1>1, Tables DEF Edited
<1>2. CASE w \in [do : {"remove", "enable", "disable"}, id : Jobs]
  <2>1. CASE w.do = "remove"
    BY <1>2, <2>1, Tables DEF Edited
  <2>2. CASE w.do # "remove"
    <3>1. w.id \in DOMAIN t /\ w.do # "add"
      BY <1>2
    <3>2. t[w.id] \in ScheduledJob
      BY <3>1 DEF IsTable
    <3>3. [t[w.id] EXCEPT !.enabled = w.do = "enable"] \in ScheduledJob
      BY <3>2 DEF ScheduledJob
    <3>4. Edited(t, w) = With(t, w.id, [t[w.id] EXCEPT !.enabled = w.do = "enable"])
      BY <3>1, <2>2 DEF Edited
    <3> QED BY <1>2, <3>3, <3>4, Tables
  <2> QED BY <2>1, <2>2
<1> QED BY <1>1, <1>2 DEF Edit

(* Where each variable that a step of a daemon leaves alone stays put.     *)
LEMMA TInit ==
  ASSUME Init
  PROVE  TInv
<1>1. PlacesOK
  BY ScheduleAssumption DEF Init, PlacesOK, DaemonPlace, EditorPlace, Processes
<1>2. TypeOK
  <2>1. 0 \in 0 .. MaxTime /\ 0 \in 0 .. MaxEdits /\ 0 \in 0 .. MaxCrashes
    BY ScheduleAssumption
  <2>2. DOMAIN Empty = {} /\ IsTable(Empty)
    BY Tables DEF Empty
  <2>3. pc \in [Processes -> {"off", "sleep", "fire", "starting", "idle", "write"}]
    BY DEF Init
  <2> QED BY <2>1, <2>2, <2>3 DEF Init, TypeOK, Edit
<1> QED BY <1>1, <1>2 DEF TInv

LEMMA TDaemon ==
  ASSUME TInv, NEW d \in Daemons, Start(d) \/ Work(d) \/ Stop(d)
  PROVE  TInv'
<1> USE DEF TInv, daemon, history, bounds, DaemonPlace, EditorPlace
<1>1. PlacesOK'
  <2>1. /\ pc'[d] \in {"off", "sleep", "fire", "starting", "write"}
        /\ \A p \in Processes \ {d} : pc'[p] = pc[p] /\ view'[p] = view[p]
        /\ pc'[d] \notin {"starting", "write"} => job'[d] = {}
        /\ \A c \in Daemons \ {d} : job'[c] = job[c]
        /\ edit' = edit
    <3>1. CASE Start(d) \/ Tick(d) \/ Fire(d) \/ Sleep(d)
      BY <3>1 DEF Start, Tick, Fire, Sleep, TypeOK, PlacesOK, Processes
    <3>2. CASE Started(d)
      BY <3>2 DEF Started, List, TypeOK, Processes
    <3>3. CASE Update(d)
      BY <3>3 DEF Update, ReplaceAll, TypeOK, Processes
    <3>4. CASE Stop(d)
      BY <3>4 DEF Stop, TypeOK, Processes
    <3> QED BY <3>1, <3>2, <3>3, <3>4 DEF Work
  <2>2. \A e \in Editors : e \in Processes \ {d}
    BY ScheduleAssumption DEF Processes
  <2>3. \A e \in Daemons \ {d} : e \in Processes \ {d}
    BY DEF Processes
  <2> QED BY <2>1, <2>2, <2>3 DEF PlacesOK
<1>2. TypeOK'
  <2>1. CASE Start(d) \/ Fire(d) \/ Sleep(d)
    <3>1. CASE Start(d)
      BY <3>1 DEF Start, TypeOK
    <3>2. CASE Fire(d)
      <4>1. PICK j \in DOMAIN due[d] : job' = [job EXCEPT ![d] = {j}]
        BY <3>2 DEF Fire
      <4>2. j \in Jobs
        BY DEF TypeOK, IsTable
      <4>3. job' \in [Daemons -> SUBSET Jobs] /\ \A c \in Daemons : job'[c] \subseteq DOMAIN due[c]
        BY <4>1, <4>2 DEF TypeOK
      <4> QED BY <3>2, <4>3 DEF Fire, TypeOK
    <3>3. CASE Sleep(d)
      <4>1. at' \in [Daemons -> 0 .. MaxTime]
        BY <3>3, ScheduleAssumption DEF Sleep, TypeOK
      <4> QED BY <3>3, <4>1 DEF Sleep, TypeOK
    <3> QED BY <2>1, <3>1, <3>2, <3>3
  <2>2. CASE Tick(d)
    <3>1. IsTable([j \in {i \in DOMAIN file : IsDue(file[i], now)} |-> file[j]])
      BY DEF TypeOK, IsTable
    <3>2. job[d] = {}
      BY <2>2 DEF Tick, PlacesOK
    <3>3. /\ DOMAIN due' = Daemons /\ \A c \in Daemons : IsTable(due'[c])
          /\ \A c \in Daemons : job[c] \subseteq DOMAIN due'[c]
      BY <2>2, <3>1, <3>2 DEF Tick, TypeOK
    <3>4. at' \in [Daemons -> 0 .. MaxTime]
      BY <2>2 DEF Tick, TypeOK
    <3>5. clash' \in BOOLEAN
      BY <2>2 DEF Tick, TypeOK
    <3> QED BY <2>2, <3>3, <3>4, <3>5 DEF Tick, TypeOK
  <2>3. CASE Started(d)
    <3>1. fired' \in [Jobs -> Nat \cup {Never}] /\ again' \in BOOLEAN
      <4>1. \A j \in job[d] : due[d][j].nextRun \in Nat
        BY DEF TypeOK, IsTable, ScheduledJob
      <4> QED BY <2>3, <4>1 DEF Started, FireSlot, TypeOK
    <3> QED BY <2>3, <3>1 DEF Started, List, TypeOK
  <2>4. CASE Update(d)
    <3>1. /\ IsTable(view[d]) /\ IsTable(due[d]) /\ job[d] \subseteq DOMAIN due[d]
          /\ at[d] \in Nat
      BY DEF TypeOK, Processes
    <3>2. \A j \in job[d] : Advance(due[d][j], at[d]) \in ScheduledJob
      BY <3>1, AdvanceLater DEF IsTable
    <3>3. IsTable(file')
      BY <2>4, <3>1, <3>2 DEF Update, ReplaceAll, IsTable
    <3>4. IsTable(Without(due[d], job[d]))
      BY <3>1, Tables DEF TypeOK
    <3> QED BY <2>4, <3>3, <3>4, Tables DEF Update, ReplaceAll, TypeOK
  <2>5. CASE Stop(d)
    <3> USE <2>5 DEF Stop
    <3>1. /\ DOMAIN due' = Daemons /\ \A c \in Daemons : IsTable(due'[c])
          /\ job' \in [Daemons -> SUBSET Jobs]
          /\ \A c \in Daemons : job'[c] \subseteq DOMAIN due'[c]
      BY Tables DEF TypeOK
    <3>2. DOMAIN view' = Processes /\ \A p \in Processes : IsTable(view'[p])
      BY Tables DEF TypeOK
    <3>3. at' \in [Daemons -> 0 .. MaxTime] /\ crashes' \in 0 .. MaxCrashes
      BY ScheduleAssumption DEF TypeOK
    <3> QED BY <3>1, <3>2, <3>3 DEF TypeOK
  <2> QED BY <2>1, <2>2, <2>3, <2>4, <2>5 DEF Work
<1> QED BY <1>1, <1>2

LEMMA TEditor ==
  ASSUME TInv, NEW e \in Editors, Ask(e) \/ Write(e)
  PROVE  TInv'
<1> USE DEF TInv, daemon, history, bounds, DaemonPlace, EditorPlace
<1>1. /\ \A p \in Processes \ {e} : pc'[p] = pc[p] /\ view'[p] = view[p]
      /\ \A f \in Editors \ {e} : edit'[f] = edit[f] /\ f \in Processes \ {e}
      /\ \A d \in Daemons : d \in Processes \ {e}
      /\ e \in Processes /\ job' = job
  BY ScheduleAssumption DEF Ask, Write, List, ReplaceAll, TypeOK, Processes
<1>2. CASE Ask(e)
  <2>1. IsTable(file) /\ view'[e] = file /\ pc'[e] = "write"
    BY <1>1, <1>2 DEF Ask, List, TypeOK
  <2>2. \A s \in Specs : New(s) \in ScheduledJob
    BY NextRunLater DEF New, ScheduledJob, TypeOK
  <2>3. /\ edit'[e] \in Edit /\ edit'[e] # NoEdit
        /\ edit'[e].do # "add" => edit'[e].id \in DOMAIN file
    BY <1>2, <2>1, <2>2 DEF Ask, TypeOK, IsTable, Edit, NoEdit
  <2>4. PlacesOK'
    BY <1>1, <2>1, <2>3 DEF PlacesOK
  <2>5. edits' \in 0 .. MaxEdits /\ known' \subseteq Jobs
    BY <1>2, ScheduleAssumption DEF Ask, TypeOK
  <2>6. edit' \in [Editors -> Edit]
    BY <1>2, <2>3 DEF Ask, TypeOK
  <2>7. DOMAIN view' = Processes /\ \A p \in Processes : IsTable(view'[p])
    BY <1>1, <1>2, <2>1 DEF Ask, List, TypeOK
  <2> QED BY <1>2, <2>4, <2>5, <2>6, <2>7 DEF Ask, TypeOK
<1>3. CASE Write(e)
  <2>0. /\ edit[e] \in Edit /\ edit[e] # NoEdit /\ IsTable(view[e])
        /\ edit[e].do # "add" => edit[e].id \in DOMAIN view[e]
    <3>0. pc[e] = "write"
      BY <1>3 DEF Write
    <3>1. edit[e] # NoEdit
      BY <3>0 DEF PlacesOK
    <3>2. edit[e] \in Edit /\ IsTable(view[e])
      BY <1>1 DEF TypeOK
    <3> QED BY <3>1, <3>2 DEF PlacesOK
  <2>1. IsTable(file')
    BY <1>3, <2>0, EditedIsTable DEF Write, ReplaceAll
  <2>2. /\ pc'[e] = "idle" /\ edit'[e] = NoEdit
        /\ DOMAIN view' = Processes /\ \A p \in Processes : IsTable(view'[p])
    BY <1>1, <1>3, Tables DEF Write, ReplaceAll, TypeOK
  <2>3. PlacesOK'
    BY <1>1, <2>2 DEF PlacesOK
  <2>4. paused' \subseteq Jobs
    <3>1. edit[e].id \in Jobs
      BY <2>0 DEF Edit
    <3> QED BY <1>3, <3>1 DEF Write, TypeOK
  <2>5. edit' \in [Editors -> Edit]
    BY <1>3 DEF Write, TypeOK, Edit
  <2> QED BY <1>3, <2>1, <2>2, <2>3, <2>4, <2>5 DEF Write, ReplaceAll, TypeOK
<1> QED BY <1>2, <1>3

LEMMA TWait ==
  ASSUME TInv, Wait \/ UNCHANGED vars
  PROVE  TInv'
<1> USE DEF TInv, daemon, history, bounds, DaemonPlace, EditorPlace
<1>1. now' \in 0 .. MaxTime
  BY ScheduleAssumption DEF Wait, vars, TypeOK
<1> QED BY <1>1 DEF Wait, vars, TypeOK, PlacesOK

(* Every variable has its type, for any processes, cadences and bounds.    *)
THEOREM ScheduleTypeCorrect == Spec => []TypeOK
<1>1. TInv /\ [Next]_vars => TInv'
  BY TDaemon, TEditor, TWait DEF Next
<1>2. TInv => TypeOK
  BY DEF TInv
<1> QED BY <1>1, <1>2, TInit, PTL DEF Spec

-----------------------------------------------------------------------------
(* One run for a slot.                                                     *)

Pending(e) == edit[e] # NoEdit /\ edit[e].do = "add"

(* An id is new when it is given out: until its job is in the file nobody  *)
(* can have fired it.                                                      *)
Unseen(id) ==
  /\ id \in known \ DOMAIN file
  /\ \A d \in Daemons : id \notin DOMAIN due[d]
  /\ fired[id] = Never

FreshIds ==
  /\ DOMAIN file \subseteq known
  /\ \A d \in Daemons : DOMAIN due[d] \subseteq known
  /\ \A j \in Jobs \ known : fired[j] = Never
  /\ \A e \in Editors : Pending(e) => Unseen(edit[e].id)
  /\ \A e, f \in Editors : Pending(e) /\ Pending(f) /\ e # f => edit[e].id # edit[f].id

(* The daemon d has started a run of j and not rescheduled it yet.         *)
Firing(d, j) == pc[d] = "write" /\ j \in job[d]

Alone == \A d, e \in Daemons : Busy(d) /\ Busy(e) => d = e

FilePast ==
  \A j \in DOMAIN file :
     file[j].nextRun > fired[j] \/ \E d \in Daemons : Firing(d, j)

DuePast ==
  \A d \in Daemons : Busy(d) =>
    \A j \in DOMAIN due[d] :
       /\ at[d] >= due[d][j].nextRun
       /\ IF Firing(d, j) THEN due[d][j].nextRun >= fired[j]
                          ELSE due[d][j].nextRun > fired[j]

SInv == FreshIds /\ Alone /\ FilePast /\ DuePast /\ ~again

(* A table of jobs has numbers for slots.                                  *)
LEMMA Numbers ==
  ASSUME TInv
  PROVE  /\ \A j \in DOMAIN file : j \in Jobs /\ file[j].nextRun \in Nat
         /\ \A d \in Daemons : \A j \in DOMAIN due[d] :
               j \in Jobs /\ due[d][j] \in ScheduledJob /\ due[d][j].nextRun \in Nat
         /\ \A j \in Jobs : fired[j] \in Nat \cup {Never}
BY DEF TInv, TypeOK, IsTable, ScheduledJob

(* A daemon that neither starts a run nor writes leaves the file, the      *)
(* edits and what was fired alone.                                         *)
LEMMA QuietSteps ==
  ASSUME TInv, SInv, NEW d \in Daemons, Start(d) \/ Tick(d) \/ Fire(d) \/ Sleep(d) \/ Stop(d),
         ~clash'
  PROVE  SInv'
<1> USE DEF TInv, SInv, history, bounds, daemon
<1>1. /\ file' = file /\ edit' = edit /\ known' = known /\ fired' = fired /\ again' = again
      /\ \A c \in Daemons \ {d} : pc'[c] = pc[c] /\ job'[c] = job[c] /\ due'[c] = due[c] /\ at'[c] = at[c]
      /\ pc[d] # "write" /\ pc'[d] # "write"
  BY DEF Start, Tick, Fire, Sleep, Stop, TypeOK, Processes
<1>2. \A j \in DOMAIN due'[d] : j \in DOMAIN due[d] \/ j \in DOMAIN file
  BY DEF Start, Tick, Fire, Sleep, Stop, TypeOK, Empty
<1>3. FreshIds'
  BY <1>1, <1>2 DEF FreshIds, Unseen, Pending
<1>4. \A c \in Daemons, j \in Jobs : Firing(c, j)' <=> Firing(c, j)
  BY <1>1 DEF Firing
<1>5. FilePast'
  BY <1>1, <1>4, Numbers DEF FilePast
<1>6. Alone'
  <2>1. Busy(d)' => Busy(d) \/ \A e \in Daemons \ {d} : ~Busy(e)
    BY DEF Start, Tick, Fire, Sleep, Stop, TypeOK, Processes, Busy
  <2>2. \A c \in Daemons \ {d} : Busy(c)' <=> Busy(c)
    BY <1>1 DEF Busy
  <2> QED BY <2>1, <2>2 DEF Alone
<1>7. DuePast'
  <2>1. \A c \in Daemons \ {d} : Busy(c)' => Busy(c)
    BY <1>1 DEF Busy
  <2>2. ASSUME NEW j \in DOMAIN due'[d], Busy(d)'
        PROVE  at'[d] >= due'[d][j].nextRun /\ due'[d][j].nextRun > fired[j]
    <3>1. CASE Tick(d)
      <4>1. /\ due'[d] = [k \in {i \in DOMAIN file : IsDue(file[i], now)} |-> file[k]]
            /\ at'[d] = now
        BY <3>1 DEF Tick, TypeOK
      <4>2. \A c \in Daemons : ~Firing(c, j)
        BY <3>1 DEF Tick, Busy, Firing
      <4>3. j \in DOMAIN file /\ file[j].nextRun > fired[j]
        BY <4>1, <4>2 DEF FilePast
      <4> QED BY <4>1, <4>3 DEF IsDue
    <3>2. CASE ~Tick(d)
      <4>1. Busy(d) /\ due'[d] = due[d] /\ at'[d] = at[d]
        BY <3>2, <2>2 DEF Start, Fire, Sleep, Stop, TypeOK, Processes, Busy
      <4> QED BY <4>1, <2>2, <1>1 DEF DuePast, Firing
    <3> QED BY <3>1, <3>2
  <2>3. \A j \in DOMAIN due'[d] : ~Firing(d, j)'
    BY <1>1 DEF Firing
  <2>4. \A c \in Daemons \ {d} : \A j : Firing(c, j)' <=> Firing(c, j)
    BY <1>1 DEF Firing
  <2> QED BY <1>1, <2>1, <2>2, <2>3, <2>4 DEF DuePast
<1> QED BY <1>1, <1>3, <1>5, <1>6, <1>7

LEMMA StartedStep ==
  ASSUME TInv, SInv, NEW d \in Daemons, Started(d), ~clash'
  PROVE  SInv'
<1> USE DEF TInv, SInv, history, bounds, daemon
<1>1. /\ file' = file /\ edit' = edit /\ known' = known /\ due' = due /\ job' = job /\ at' = at
      /\ pc[d] = "starting" /\ pc' = [pc EXCEPT ![d] = "write"] /\ d \in Processes
      /\ pc'[d] = "write" /\ \A c \in Daemons \ {d} : pc'[c] = pc[c]
  BY DEF Started, TypeOK, Processes
<1>2. job[d] \subseteq DOMAIN due[d] /\ job[d] \subseteq Jobs /\ Busy(d)
  BY <1>1 DEF TypeOK, Busy
<1>3. \A j \in DOMAIN due[d] : due[d][j].nextRun > fired[j] /\ at[d] >= due[d][j].nextRun
  BY <1>1, <1>2 DEF DuePast, Firing
<1>4. /\ \A j \in Jobs : fired'[j] = fired[j]
                          \/ (j \in job[d] /\ fired'[j] = due[d][j].nextRun)
      /\ ~again'
  <2>1. CASE UNCHANGED <<fired, again>>
    BY <2>1
  <2>2. CASE FireSlot(d)
    <3>1. \A j \in job[d] : ~(due[d][j].nextRun <= fired[j])
      BY <1>2, <1>3, Numbers DEF Never
    <3> QED BY <2>2, <3>1 DEF FireSlot
  <2> QED BY <2>1, <2>2 DEF Started
<1>5. FreshIds'
  <2>1. \A j \in Jobs : j \notin DOMAIN due[d] => fired'[j] = fired[j]
    BY <1>2, <1>4
  <2>2. \A e \in Editors : Pending(e) => edit[e].id \in Jobs
    BY DEF TypeOK, Pending, Edit, NoEdit
  <2> QED BY <1>1, <2>1, <2>2 DEF FreshIds, Unseen, Pending
<1>6. \A c \in Daemons \ {d} : ~Busy(c) /\ ~Busy(c)'
  BY <1>1, <1>2 DEF Alone, Busy
<1>7. Alone'
  BY <1>6 DEF Alone
<1>8. FilePast'
  BY <1>1, <1>4, <1>6, Numbers DEF FilePast, Firing, Busy
<1>9. DuePast'
  <2>1. \A j \in DOMAIN due[d] :
          /\ at[d] >= due[d][j].nextRun
          /\ j \in job[d] => due[d][j].nextRun >= fired'[j]
          /\ j \notin job[d] => due[d][j].nextRun > fired'[j]
    BY <1>3, <1>4, Numbers DEF Never
  <2>2. \A j : Firing(d, j)' <=> j \in job[d]
    BY <1>1 DEF Firing
  <2> QED BY <1>1, <1>6, <2>1, <2>2 DEF DuePast
<1> QED BY <1>4, <1>5, <1>7, <1>8, <1>9

LEMMA UpdateStep ==
  ASSUME TInv, SInv, NEW d \in Daemons, Update(d), ~clash'
  PROVE  SInv'
<1> USE DEF TInv, SInv, history, bounds, daemon
<1>1. /\ edit' = edit /\ known' = known /\ fired' = fired /\ again' = again /\ at' = at
      /\ pc[d] = "write" /\ pc'[d] = "fire" /\ Busy(d)
      /\ \A c \in Daemons \ {d} : pc'[c] = pc[c] /\ due'[c] = due[c] /\ job'[c] = job[c]
      /\ due'[d] = Without(due[d], job[d])
  BY DEF Update, TypeOK, Processes, Busy
<1>2. file' = [j \in DOMAIN file |-> IF j \in job[d] THEN Advance(due[d][j], at[d]) ELSE file[j]]
  BY DEF Update, ReplaceAll
<1>3. \A c \in Daemons \ {d} : ~Busy(c) /\ ~Busy(c)'
  BY <1>1 DEF Alone, Busy
<1>4. FreshIds'
  <2>1. DOMAIN file' = DOMAIN file /\ DOMAIN due'[d] \subseteq DOMAIN due[d]
    BY <1>1, <1>2 DEF Without
  <2> QED BY <1>1, <2>1 DEF FreshIds, Unseen, Pending
<1>5. Alone'
  BY <1>3 DEF Alone
<1>6. FilePast'
  <2> SUFFICES ASSUME NEW j \in DOMAIN file
               PROVE  file'[j].nextRun > fired[j]
    BY <1>1, <1>2 DEF FilePast
  <2>1. CASE j \in job[d]
    <3>1. j \in DOMAIN due[d] /\ at[d] \in Nat
      BY <2>1 DEF TypeOK
    <3>2. /\ at[d] >= due[d][j].nextRun /\ due[d][j].nextRun >= fired[j]
      BY <1>1, <3>1, Numbers DEF DuePast, Never
    <3>3. due[d][j] \in ScheduledJob
      BY <3>1, Numbers
    <3>4. /\ Advance(due[d][j], at[d]).nextRun > due[d][j].nextRun
          /\ Advance(due[d][j], at[d]).nextRun \in Nat
      BY <3>1, <3>2, <3>3, AdvanceLater DEF ScheduledJob
    <3>5. file'[j].nextRun = Advance(due[d][j], at[d]).nextRun
      BY <1>2, <2>1
    <3> QED BY <3>1, <3>2, <3>3, <3>4, <3>5, Numbers DEF Never, ScheduledJob
  <2>2. CASE j \notin job[d]
    <3>1. \A c \in Daemons : ~Firing(c, j)
      BY <1>3, <2>2 DEF Firing, Busy
    <3> QED BY <1>2, <2>2, <3>1 DEF FilePast
  <2> QED BY <2>1, <2>2
<1>7. DuePast'
  <2>1. \A j \in DOMAIN due'[d] :
          /\ j \in DOMAIN due[d] /\ due'[d][j] = due[d][j] /\ ~Firing(d, j) /\ ~Firing(d, j)'
    BY <1>1 DEF Without, Firing
  <2> QED BY <1>1, <1>3, <2>1 DEF DuePast
<1> QED BY <1>1, <1>4, <1>5, <1>6, <1>7

LEMMA EditorSteps ==
  ASSUME TInv, SInv, NEW e \in Editors, Ask(e) \/ Write(e), ~clash'
  PROVE  SInv'
<1> USE DEF TInv, SInv, history, bounds, daemon
<1>1. /\ \A d \in Daemons : pc'[d] = pc[d]
      /\ due' = due /\ job' = job /\ at' = at /\ fired' = fired /\ again' = again
      /\ \A f \in Editors \ {e} : edit'[f] = edit[f]
  BY ScheduleAssumption DEF Ask, Write, TypeOK, Processes
<1>2. /\ \A d \in Daemons : Busy(d)' <=> Busy(d)
      /\ \A d \in Daemons : \A j : Firing(d, j)' <=> Firing(d, j)
  BY <1>1 DEF Busy, Firing
<1>3. Alone' /\ DuePast'
  BY <1>1, <1>2 DEF Alone, DuePast
<1>4. CASE Ask(e)
  <2>1. file' = file
    BY <1>4 DEF Ask
  <2>2. FilePast'
    BY <1>1, <1>2, <2>1 DEF FilePast
  <2>3. known \subseteq known'
    BY <1>4 DEF Ask
  <2>4. edit'[e] # NoEdit /\ edit'[e].do = "add" =>
          edit'[e].id \in Jobs \ known /\ edit'[e].id \in known'
    BY <1>4 DEF Ask, TypeOK, NoEdit
  <2>5. FreshIds'
    BY <1>1, <2>1, <2>3, <2>4 DEF FreshIds, Unseen, Pending
  <2> QED BY <1>1, <1>3, <2>2, <2>5
<1>5. CASE Write(e)
  <2>1. file' = Edited(file, edit[e]) /\ known' = known /\ edit'[e] = NoEdit /\ view[e] = file
    BY <1>5 DEF Write, ReplaceAll, TypeOK
  <2>2. edit[e] \in Edit /\ edit[e] # NoEdit /\ (edit[e].do # "add" => edit[e].id \in DOMAIN file)
    BY <1>5, <2>1 DEF Write, PlacesOK, EditorPlace, TypeOK
  <2>3. /\ DOMAIN file' \subseteq DOMAIN file \cup (IF Pending(e) THEN {edit[e].id} ELSE {})
        /\ \A j \in DOMAIN file' :
              IF Pending(e) /\ j = edit[e].id
              THEN file'[j].nextRun \in Nat
              ELSE file'[j].nextRun = file[j].nextRun
    <3>1. CASE edit[e].do = "add"
      <4>1. edit[e].job.nextRun \in Nat
        BY <2>2, <3>1 DEF Edit, ScheduledJob
      <4> QED BY <2>1, <2>2, <3>1, <4>1 DEF Edited, With, Pending
    <3>2. CASE edit[e].do = "remove"
      BY <2>1, <3>2 DEF Edited, Without, Pending
    <3>3. CASE edit[e].do # "add" /\ edit[e].do # "remove"
      <4>1. file' = With(file, edit[e].id, [file[edit[e].id] EXCEPT !.enabled = edit[e].do = "enable"])
        BY <2>1, <3>3 DEF Edited
      <4>2. file[edit[e].id] \in ScheduledJob
        BY <2>2, <3>3 DEF TypeOK, IsTable
      <4>3. [file[edit[e].id] EXCEPT !.enabled = edit[e].do = "enable"].nextRun = file[edit[e].id].nextRun
        BY <4>2 DEF ScheduledJob
      <4> QED BY <2>2, <3>3, <4>1, <4>3 DEF With, Pending
    <3> QED BY <3>1, <3>2, <3>3
  <2>4. Pending(e) => Unseen(edit[e].id)
    BY DEF FreshIds
  <2>5. FilePast'
    <3> SUFFICES ASSUME NEW j \in DOMAIN file'
                 PROVE  file'[j].nextRun > fired[j] \/ \E d \in Daemons : Firing(d, j)
      BY <1>1, <1>2 DEF FilePast
    <3>1. CASE Pending(e) /\ j = edit[e].id
      BY <2>3, <2>4, <3>1 DEF Unseen, Never
    <3>2. CASE ~(Pending(e) /\ j = edit[e].id)
      BY <2>3, <3>2 DEF FilePast
    <3> QED BY <3>1, <3>2
  <2>6. FreshIds'
    <3>1. ~Pending(e)' /\ \A f \in Editors \ {e} : Pending(f)' <=> Pending(f)
      BY <1>1, <2>1 DEF Pending
    <3>2. DOMAIN file' \subseteq known
      BY <2>3, <2>4 DEF FreshIds, Unseen
    <3>3. \A f \in Editors \ {e} : Pending(f) => Unseen(edit[f].id) /\ edit[f].id \notin DOMAIN file'
      BY <2>3 DEF FreshIds, Unseen
    <3> QED BY <1>1, <2>1, <3>1, <3>2, <3>3 DEF FreshIds, Unseen
  <2> QED BY <1>1, <1>3, <2>5, <2>6
<1> QED BY <1>4, <1>5

(* No slot of a job starts two runs as long as no two processes cross on   *)
(* the file and no daemon dies between a run and its rescheduling.         *)
THEOREM NoSlotTwice == Spec => []OncePerSlot
<1> DEFINE Inv == TInv /\ (~clash => SInv)
<1>1. Init => Inv
  <2> SUFFICES ASSUME Init PROVE SInv
    BY TInit
  <2>1. file = Empty /\ (\A d \in Daemons : due[d] = Empty /\ ~Busy(d)) /\ fired = [j \in Jobs |-> Never]
    BY DEF Init, Busy, Processes
  <2>2. DOMAIN Empty = {}
    BY DEF Empty
  <2>3. \A e \in Editors : ~Pending(e)
    BY DEF Init, Pending
  <2> QED BY <2>1, <2>2, <2>3 DEF Init, SInv, FreshIds, Alone, FilePast, DuePast
<1>2. Inv /\ [Next]_vars => Inv'
  <2> SUFFICES ASSUME Inv, [Next]_vars PROVE Inv'
    OBVIOUS
  <2>1. TInv'
    BY TDaemon, TEditor, TWait DEF Next
  <2>2. ASSUME ~clash' PROVE SInv'
    <3>1. ~clash
      BY <2>2 DEF Next, Work, Start, Tick, Fire, Started, Update, Sleep, Stop, Ask, Write, Wait,
                  ReplaceAll, history, vars
    <3>2. CASE \E d \in Daemons : Start(d) \/ Work(d) \/ Stop(d)
      BY <2>2, <3>1, <3>2, QuietSteps, StartedStep, UpdateStep DEF Work
    <3>3. CASE \E e \in Editors : Ask(e) \/ Write(e)
      BY <2>2, <3>1, <3>3, EditorSteps
    <3>4. CASE Wait \/ UNCHANGED vars
      BY <3>1, <3>4 DEF Wait, vars, daemon, history, bounds, SInv, FreshIds, Unseen, Pending, Alone,
                        Busy, FilePast, DuePast, Firing
    <3> QED BY <3>2, <3>3, <3>4 DEF Next
  <2> QED BY <2>1, <2>2
<1>3. Inv => OncePerSlot
  BY DEF SInv, OncePerSlot
<1> QED BY <1>1, <1>2, <1>3, PTL DEF Spec

-----------------------------------------------------------------------------
(* Slots.                                                                  *)

LEMMA DivBounds ==
  ASSUME NEW a \in Nat, NEW b \in Nat \ {0}
  PROVE  a \div b \in Nat /\ (a \div b) * b <= a /\ a < ((a \div b) + 1) * b
OBVIOUS

LEMMA DivMod ==
  ASSUME NEW a \in Nat, NEW b \in Nat \ {0}
  PROVE  a \div b \in Nat /\ a - (a % b) = (a \div b) * b
OBVIOUS

LEMMA ModOfSum ==
  ASSUME NEW q \in Nat, NEW b \in Nat \ {0}, NEW m \in 0 .. b - 1
  PROVE  (q * b + m) % b = m
OBVIOUS

(* A daily slot is at its time of day.                                     *)
LEMMA DailySlot ==
  ASSUME NEW s \in Specs, s.type # "interval", NEW t \in Nat
  PROVE  NextRun(s, t) % Day = s.minutesOfDay
<1>1. s.minutesOfDay \in 0 .. Day - 1 /\ Day \in Nat \ {0}
  BY ScheduleAssumption DEF Spec0
<1> DEFINE q == t \div Day
<1>2. q \in Nat /\ t - (t % Day) = q * Day
  BY <1>1, DivMod
<1>3. NextRun(s, t) \in {q * Day + s.minutesOfDay, (q * Day + s.minutesOfDay) + Day}
  BY <1>2 DEF NextRun
<1> HIDE DEF q
<1>4. (q * Day + s.minutesOfDay) % Day = s.minutesOfDay
  BY <1>1, <1>2, ModOfSum
<1>5. ((q + 1) * Day + s.minutesOfDay) % Day = s.minutesOfDay
  <2>1. q + 1 \in Nat
    BY <1>2
  <2> QED BY <1>1, <2>1, ModOfSum, Zenon
<1>6. (q + 1) * Day + s.minutesOfDay = (q * Day + s.minutesOfDay) + Day
  BY <1>1, <1>2
<1> QED BY <1>3, <1>4, <1>5, <1>6

(* A job starts on its first slot ...                                      *)
LEMMA NewAnchored ==
  ASSUME TInv, NEW s \in Specs
  PROVE  Anchored(New(s))
<1>1. now \in Nat /\ MaxTime \in Nat
  BY ScheduleAssumption DEF TInv, TypeOK
<1>2. NextRun(s, now) \in Nat /\ NextRun(s, now) > now
  BY <1>1, NextRunLater
<1>3. CASE s.type = "interval"
  <2>1. s.every \in Nat \ {0}
    BY <1>3, ScheduleAssumption DEF Spec0
  <2>2. 1 \in 1 .. MaxTime + s.every /\ NextRun(s, now) = now + 1 * s.every
    BY <1>1, <1>3, <2>1 DEF NextRun
  <2> QED BY <1>1, <1>2, <1>3, <2>2 DEF Anchored, New, Never
<1>4. CASE s.type # "interval"
  BY <1>1, <1>2, <1>4, DailySlot DEF Anchored, New, Never
<1> QED BY <1>3, <1>4

(* ... and goes from slot to slot: the one after the firing is at most a   *)
(* period later than the clock.                                            *)
LEMMA AdvanceAnchored ==
  ASSUME NEW j \in ScheduledJob, Anchored(j), NEW t \in 0 .. MaxTime, t >= j.nextRun
  PROVE  Anchored(Advance(j, t))
<1> DEFINE a == Advance(j, t)
<1>1. /\ j.spec \in Specs /\ j.nextRun \in Nat /\ j.createdAt \in Nat
      /\ t \in Nat /\ MaxTime \in Nat /\ j.createdAt < j.nextRun
  BY ScheduleAssumption DEF ScheduledJob, Anchored
<1>2. a.spec = j.spec /\ a.createdAt = j.createdAt /\ a.lastRun = t
  BY DEF Advance, ScheduledJob
<1>3. CASE j.spec.type = "interval"
  <2> DEFINE every == j.spec.every
             gone == (t - j.nextRun) \div every
  <2>1. every \in Nat \ {0}
    BY <1>1, <1>3, ScheduleAssumption DEF Spec0
  <2>2. PICK k \in 1 .. MaxTime + every : j.nextRun = j.createdAt + k * every
    BY <1>3 DEF Anchored
  <2>3. /\ gone \in Nat /\ gone * every <= t - j.nextRun
        /\ t - j.nextRun < (gone + 1) * every
    <3>1. t - j.nextRun \in Nat
      BY <1>1
    <3> QED BY <2>1, <3>1, DivBounds
  <2>4. a.nextRun = j.nextRun + (gone + 1) * every
    BY <1>1, <1>3 DEF Advance, ScheduledJob
  <2> HIDE DEF every, gone, a
  <2>5. k \in Nat /\ k + gone \in Nat
    BY <1>1, <2>1, <2>2, <2>3
  <2>6. a.nextRun = j.createdAt + (k + gone + 1) * every
    BY <1>1, <2>1, <2>2, <2>3, <2>4, <2>5
  <2>7. (k + gone) * every <= MaxTime
    <3>1. (k + gone) * every = k * every + gone * every
      BY <2>1, <2>3, <2>5
    <3>2. k * every \in Nat /\ gone * every \in Nat
      BY <2>1, <2>3, <2>5
    <3> QED BY <1>1, <2>2, <2>3, <3>1, <3>2
  <2>8. k + gone <= (k + gone) * every
    BY <2>1, <2>5
  <2>9. k + gone + 1 \in 1 .. MaxTime + every
    <3>1. (k + gone) * every \in Nat
      BY <2>1, <2>5
    <3> QED BY <1>1, <2>1, <2>5, <2>7, <2>8, <3>1
  <2>10. a.lastRun < a.nextRun /\ a.createdAt < a.nextRun
    <3>1. (gone + 1) * every \in Nat
      BY <2>1, <2>3
    <3> QED BY <1>1, <1>2, <2>3, <2>4, <3>1
  <2> QED BY <1>2, <1>3, <2>6, <2>9, <2>10 DEF Anchored, every, a
<1>4. CASE j.spec.type # "interval"
  <2>1. a.nextRun = NextRun(j.spec, t)
    BY <1>4 DEF Advance, ScheduledJob
  <2>2. NextRun(j.spec, t) \in Nat /\ NextRun(j.spec, t) > t
    BY <1>1, NextRunLater
  <2>3. NextRun(j.spec, t) % Day = j.spec.minutesOfDay
    BY <1>1, <1>4, DailySlot
  <2> HIDE DEF a
  <2> QED BY <1>1, <1>2, <1>4, <2>1, <2>2, <2>3 DEF Anchored, a
<1> QED BY <1>3, <1>4

(* Every copy of a job, in the file, listed by a process, due or about to  *)
(* be added, is on its slots, and what is due is past its own.             *)
AllAnchored(table) == \A j \in DOMAIN table : Anchored(table[j])

AInv ==
  /\ AllAnchored(file)
  /\ \A p \in Processes : AllAnchored(view[p])
  /\ \A d \in Daemons : /\ AllAnchored(due[d])
                        /\ \A j \in DOMAIN due[d] : at[d] >= due[d][j].nextRun
  /\ \A e \in Editors : Pending(e) => Anchored(edit[e].job)

LEMMA AInit ==
  ASSUME Init
  PROVE  AInv
<1>1. DOMAIN Empty = {}
  BY DEF Empty
<1> QED BY <1>1 DEF Init, AInv, AllAnchored, Pending

LEMMA ADaemon ==
  ASSUME TInv, AInv, NEW d \in Daemons, Start(d) \/ Work(d) \/ Stop(d)
  PROVE  AInv'
<1> USE DEF history, bounds, daemon
<1>0. DOMAIN Empty = {} /\ d \in Processes /\ TypeOK
  BY DEF Empty, Processes, TInv
<1>1. edit' = edit
  BY DEF Start, Work, Tick, Fire, Started, Update, Sleep, Stop
<1>2. CASE Start(d) \/ Fire(d)
  BY <1>1, <1>2 DEF Start, Fire, AInv, AllAnchored, Anchored, Pending
<1>3. CASE Tick(d)
  <2>1. /\ due'[d] = [j \in {i \in DOMAIN file : IsDue(file[i], now)} |-> file[j]]
        /\ at'[d] = now
        /\ \A c \in Daemons \ {d} : due'[c] = due[c] /\ at'[c] = at[c]
    BY <1>0, <1>3 DEF Tick, TypeOK
  <2>2. \A j \in DOMAIN due'[d] : at'[d] >= due'[d][j].nextRun /\ Anchored(due'[d][j])
    BY <2>1 DEF IsDue, AInv, AllAnchored
  <2> QED BY <1>1, <1>3, <2>1, <2>2 DEF Tick, AInv, AllAnchored, Pending
<1>4. CASE Started(d)
  BY <1>0, <1>1, <1>4 DEF Started, List, TypeOK, AInv, AllAnchored, Pending
<1>5. CASE Update(d)
  <2>1. /\ job[d] \subseteq DOMAIN due[d] /\ at[d] \in 0 .. MaxTime
        /\ \A j \in DOMAIN due[d] : due[d][j] \in ScheduledJob
    BY <1>0 DEF TypeOK, IsTable
  <2>2. \A j \in job[d] : Anchored(Advance(due[d][j], at[d]))
    BY <2>1, AdvanceAnchored DEF AInv, AllAnchored
  <2>3. file' = [j \in DOMAIN view[d] |-> IF j \in job[d] THEN Advance(due[d][j], at[d]) ELSE view[d][j]]
    BY <1>5 DEF Update, ReplaceAll
  <2>4. AllAnchored(file')
    BY <1>0, <2>2, <2>3 DEF AInv, AllAnchored
  <2>5. /\ view'[d] = Empty /\ \A p \in Processes \ {d} : view'[p] = view[p]
        /\ due'[d] = Without(due[d], job[d]) /\ \A c \in Daemons \ {d} : due'[c] = due[c]
        /\ at' = at
    BY <1>0, <1>5 DEF Update, ReplaceAll, TypeOK
  <2>6. \A j \in DOMAIN due'[d] : j \in DOMAIN due[d] /\ due'[d][j] = due[d][j]
    BY <2>5 DEF Without
  <2> QED BY <1>0, <1>1, <2>4, <2>5, <2>6 DEF AInv, AllAnchored, Pending
<1>6. CASE Sleep(d) \/ Stop(d)
  <2>1. /\ file' = file /\ DOMAIN due'[d] = {}
        /\ \A p \in Processes : view'[p] = view[p] \/ view'[p] = Empty
        /\ \A c \in Daemons \ {d} : due'[c] = due[c] /\ at'[c] = at[c]
    BY <1>0, <1>6 DEF Sleep, Stop, TypeOK
  <2> QED BY <1>0, <1>1, <2>1 DEF AInv, AllAnchored, Pending
<1> QED BY <1>2, <1>3, <1>4, <1>5, <1>6 DEF Work

LEMMA AEditor ==
  ASSUME TInv, AInv, NEW e \in Editors, Ask(e) \/ Write(e)
  PROVE  AInv'
<1> USE DEF history, bounds, daemon
<1>0. DOMAIN Empty = {} /\ e \in Processes /\ TypeOK /\ EditorPlace(e)
  BY DEF Empty, Processes, TInv, PlacesOK
<1>1. due' = due /\ at' = at /\ \A f \in Editors \ {e} : edit'[f] = edit[f]
  BY <1>0 DEF Ask, Write, TypeOK
<1>2. CASE Ask(e)
  <2>1. file' = file /\ \A p \in Processes : view'[p] = view[p] \/ view'[p] = file
    BY <1>0, <1>2 DEF Ask, List, TypeOK
  <2>2. Pending(e)' => Anchored(edit'[e].job)
    BY <1>0, <1>2, NewAnchored DEF Ask, TypeOK, Pending
  <2> QED BY <1>1, <2>1, <2>2 DEF AInv, AllAnchored, Pending
<1>3. CASE Write(e)
  <2>1. /\ file' = Edited(view[e], edit[e]) /\ edit'[e] = NoEdit
        /\ \A p \in Processes : view'[p] = view[p] \/ view'[p] = Empty
    BY <1>0, <1>3 DEF Write, ReplaceAll, TypeOK
  <2>2. /\ edit[e] # NoEdit /\ (edit[e].do # "add" => edit[e].id \in DOMAIN view[e])
    BY <1>0, <1>3 DEF Write, EditorPlace
  <2>3. AllAnchored(file')
    <3>1. CASE edit[e].do = "add"
      BY <1>0, <2>1, <2>2, <3>1 DEF Edited, With, AInv, AllAnchored, Pending
    <3>2. CASE edit[e].do = "remove"
      BY <1>0, <2>1, <3>2 DEF Edited, Without, AInv, AllAnchored
    <3>3. CASE edit[e].do # "add" /\ edit[e].do # "remove"
      <4> DEFINE old == view[e][edit[e].id]
                 new == [old EXCEPT !.enabled = edit[e].do = "enable"]
      <4>1. file' = With(view[e], edit[e].id, new)
        BY <2>1, <3>3 DEF Edited
      <4>2. old \in ScheduledJob /\ Anchored(old)
        BY <1>0, <2>2, <3>3 DEF TypeOK, IsTable, AInv, AllAnchored
      <4>3. /\ new.spec = old.spec /\ new.createdAt = old.createdAt
            /\ new.lastRun = old.lastRun /\ new.nextRun = old.nextRun
        BY <4>2 DEF ScheduledJob
      <4>4. Anchored(new)
        BY <4>2, <4>3 DEF Anchored
      <4> HIDE DEF new
      <4> QED BY <1>0, <4>1, <4>4 DEF With, AInv, AllAnchored
    <3> QED BY <3>1, <3>2, <3>3
  <2> QED BY <1>0, <1>1, <2>1, <2>3 DEF AInv, AllAnchored, Pending
<1> QED BY <1>2, <1>3

(* Whatever the file has been through, crossings and crashes included, a   *)
(* job's next slot is one of its creation's, after the run it last made.   *)
THEOREM SlotsAreKept == Spec => []OnSlots
<1> DEFINE Inv == TInv /\ AInv
<1>1. Init => Inv
  BY TInit, AInit
<1>2. Inv /\ [Next]_vars => Inv'
  <2> SUFFICES ASSUME Inv, [Next]_vars PROVE Inv'
    OBVIOUS
  <2>1. TInv'
    BY TDaemon, TEditor, TWait DEF Next
  <2>2. AInv'
    <3>1. CASE Wait \/ UNCHANGED vars
      BY <3>1 DEF Wait, vars, daemon, history, bounds, AInv, AllAnchored, Pending
    <3> QED BY <3>1, ADaemon, AEditor DEF Next
  <2> QED BY <2>1, <2>2
<1>3. Inv => OnSlots
  BY DEF AInv, AllAnchored, OnSlots
<1> QED BY <1>1, <1>2, <1>3, PTL DEF Spec

-----------------------------------------------------------------------------
(* Pauses.                                                                 *)

LEMMA ClashStays ==
  ASSUME [Next]_vars, ~clash'
  PROVE  ~clash
BY DEF Next, Work, Start, Tick, Fire, Started, Update, Sleep, Stop, Ask, Write, Wait,
       ReplaceAll, history, vars

(* A job is disabled only while no daemon holds it as due.                 *)
DisabledBetweenTicks ==
  \A e \in Editors : Write(e) /\ edit[e].do = "disable" =>
    \A d \in Daemons : edit[e].id \notin DOMAIN due[d]

(* A paused job is disabled in the file, and no daemon is about to write   *)
(* back a copy it listed before.                                           *)
PauseInv ==
  \A j \in paused : /\ \A d \in Daemons : j \notin DOMAIN due[d]
                    /\ j \in DOMAIN file => ~file[j].enabled

LEMMA PauseDaemon ==
  ASSUME TInv, PauseInv, NEW d \in Daemons, Start(d) \/ Work(d) \/ Stop(d), ~clash'
  PROVE  PauseInv'
<1> USE DEF TInv, history, bounds, daemon
<1>1. paused' = paused
  BY DEF Start, Work, Tick, Fire, Started, Update, Sleep, Stop
<1>2. CASE Start(d) \/ Fire(d) \/ Started(d) \/ Sleep(d)
  BY <1>1, <1>2 DEF Start, Fire, Started, Sleep, PauseInv
<1>3. CASE Tick(d)
  <2>1. /\ due'[d] = [j \in {i \in DOMAIN file : IsDue(file[i], now)} |-> file[j]]
        /\ \A c \in Daemons \ {d} : due'[c] = due[c]
        /\ file' = file
    BY <1>3 DEF Tick, TypeOK
  <2>2. \A j \in DOMAIN due'[d] : j \in DOMAIN file /\ file[j].enabled
    BY <2>1 DEF IsDue
  <2> QED BY <1>1, <2>1, <2>2 DEF PauseInv
<1>4. CASE Update(d)
  <2>1. file' = [j \in DOMAIN file |-> IF j \in job[d] THEN Advance(due[d][j], at[d]) ELSE file[j]]
    BY <1>4 DEF Update, ReplaceAll
  <2>2. job[d] \subseteq DOMAIN due[d]
    BY DEF TypeOK
  <2>3. /\ due'[d] = Without(due[d], job[d])
        /\ \A c \in Daemons \ {d} : due'[c] = due[c]
    BY <1>4 DEF Update, TypeOK
  <2>4. \A c \in Daemons : DOMAIN due'[c] \subseteq DOMAIN due[c]
    BY <2>3 DEF Without
  <2>5. \A j \in paused : j \in DOMAIN file' => ~file'[j].enabled
    BY <2>1, <2>2 DEF PauseInv
  <2> QED BY <1>1, <2>4, <2>5 DEF PauseInv
<1>5. CASE Stop(d)
  <2>1. file' = file /\ due' = [due EXCEPT ![d] = Empty]
    BY <1>5 DEF Stop
  <2>2. \A c \in Daemons : DOMAIN due'[c] \subseteq DOMAIN due[c]
    BY <2>1 DEF TypeOK, Empty
  <2> QED BY <1>1, <2>1, <2>2 DEF PauseInv
<1> QED BY <1>2, <1>3, <1>4, <1>5 DEF Work

LEMMA PauseEditor ==
  ASSUME TInv, PauseInv, NEW e \in Editors, Ask(e) \/ Write(e), DisabledBetweenTicks, ~clash'
  PROVE  PauseInv'
<1> USE DEF TInv, history, bounds, daemon
<1>1. due' = due
  BY DEF Ask, Write
<1>2. CASE Ask(e)
  BY <1>1, <1>2 DEF Ask, PauseInv
<1>3. CASE Write(e)
  <2> DEFINE w == edit[e]
  <2>1. /\ file' = Edited(file, w) /\ view[e] = file
        /\ paused' = IF w.do = "disable" THEN paused \cup {w.id} ELSE paused \ {w.id}
    BY <1>3 DEF Write, ReplaceAll
  <2>2. w \in Edit /\ w # NoEdit /\ (w.do # "add" => w.id \in DOMAIN file)
    BY <1>3, <2>1 DEF Write, PlacesOK, EditorPlace, TypeOK
  <2>3. w.do = "disable" => \A d \in Daemons : w.id \notin DOMAIN due[d]
    BY <1>3 DEF DisabledBetweenTicks
  <2> HIDE DEF w
  <2>4. \A j \in paused' : \A d \in Daemons : j \notin DOMAIN due[d]
    BY <2>1, <2>3 DEF PauseInv
  <2>5. ASSUME NEW j \in paused', j \in DOMAIN file' PROVE ~file'[j].enabled
    <3>1. CASE w.do = "add" \/ w.do = "remove"
      <4>1. j \in paused /\ j # w.id
        BY <2>1, <2>5, <3>1
      <4>2. j \in DOMAIN file /\ file'[j] = file[j]
        BY <2>1, <2>5, <3>1, <4>1 DEF Edited, With, Without
      <4> QED BY <4>1, <4>2 DEF PauseInv
    <3>2. CASE w.do # "add" /\ w.do # "remove"
      <4> DEFINE new == [file[w.id] EXCEPT !.enabled = w.do = "enable"]
      <4>1. file' = With(file, w.id, new)
        BY <2>1, <3>2 DEF Edited
      <4>2. file[w.id] \in ScheduledJob
        BY <2>2, <3>2 DEF TypeOK, IsTable
      <4>3. new.enabled = (w.do = "enable")
        BY <4>2 DEF ScheduledJob
      <4> HIDE DEF new
      <4>4. CASE j = w.id
        BY <2>1, <2>5, <4>1, <4>3, <4>4 DEF With
      <4>5. CASE j # w.id
        BY <2>1, <2>5, <4>1, <4>5 DEF With, PauseInv
      <4> QED BY <4>4, <4>5
    <3> QED BY <3>1, <3>2
  <2> QED BY <1>1, <2>4, <2>5 DEF PauseInv
<1> QED BY <1>2, <1>3

(* A pause is lost only to a daemon that has the job in hand: when a job   *)
(* is disabled while no daemon holds it as due, and no two processes cross *)
(* on the file, it stays disabled until it is enabled again, as            *)
(* schedule-store.ts (setEnabled) promises.                                *)
THEOREM PausesHold ==
  Spec /\ [][DisabledBetweenTicks]_vars => []PausedStaysPaused
<1> DEFINE Inv == TInv /\ (~clash => PauseInv)
<1>1. Init => Inv
  BY TInit DEF Init, PauseInv
<1>2. Inv /\ [Next]_vars /\ [DisabledBetweenTicks]_vars => Inv'
  <2> SUFFICES ASSUME Inv, [Next]_vars, [DisabledBetweenTicks]_vars PROVE Inv'
    OBVIOUS
  <2>1. TInv'
    BY TDaemon, TEditor, TWait DEF Next
  <2>2. ASSUME ~clash' PROVE PauseInv'
    <3>1. PauseInv
      BY <2>2, ClashStays
    <3>2. CASE UNCHANGED vars \/ Wait
      BY <3>1, <3>2 DEF Wait, vars, daemon, history, bounds, PauseInv
    <3>3. CASE ~UNCHANGED vars /\ ~Wait
      BY <2>2, <3>1, <3>3, PauseDaemon, PauseEditor DEF Next
    <3> QED BY <3>2, <3>3
  <2> QED BY <2>1, <2>2
<1>3. Inv => PausedStaysPaused
  BY DEF PauseInv, PausedStaysPaused
<1> QED BY <1>1, <1>2, <1>3, PTL DEF Spec

-----------------------------------------------------------------------------
(* Slots follow one another.                                               *)

Period(spec) == IF spec.type = "interval" THEN spec.every ELSE Day

(* From o to n a job is not moved, or the slot it had was reached by the   *)
(* tick recorded as its last run, and the new one is the next after that.  *)
GoesForward(o, n) ==
  n.nextRun # o.nextRun =>
    /\ n.spec = o.spec
    /\ o.nextRun <= n.lastRun /\ n.lastRun <= now
    /\ n.lastRun < n.nextRun
    /\ n.nextRun <= n.lastRun + Period(n.spec)

(* As long as no two processes cross on the file, a job's slot is changed  *)
(* only once it has come, and then to the next one after the tick: never   *)
(* back, and over none that is still to come.                              *)
SlotsGoForward ==
  [][~clash' => \A j \in DOMAIN file \cap DOMAIN file' : GoesForward(file[j], file'[j])]_vars

(* No slot between t and the new one: it is at most a period after t.      *)
LEMMA NextRunNear ==
  ASSUME NEW s \in Specs, NEW t \in Nat
  PROVE  NextRun(s, t) <= t + Period(s)
<1>1. s \in Spec0 /\ Day \in Nat \ {0}
  BY ScheduleAssumption
<1>2. CASE s \in [type : {"interval"}, every : Nat \ {0}]
  BY <1>2 DEF NextRun, Period
<1>3. CASE s \in [type : {"dailyAt"}, minutesOfDay : 0 .. Day - 1]
  <2>1. t % Day \in 0 .. Day - 1 /\ t % Day <= t
    BY <1>1
  <2>2. s.type # "interval" /\ s.minutesOfDay \in 0 .. Day - 1
    BY <1>3
  <2> QED BY <1>1, <2>1, <2>2 DEF NextRun, Period
<1> QED BY <1>1, <1>2, <1>3 DEF Spec0

LEMMA AdvanceNear ==
  ASSUME NEW j \in ScheduledJob, NEW t \in Nat, t >= j.nextRun
  PROVE  LET a == Advance(j, t)
         IN /\ a.spec = j.spec /\ a.lastRun = t
            /\ t < a.nextRun /\ a.nextRun <= t + Period(j.spec)
<1> DEFINE a == Advance(j, t)
<1>1. j.spec \in Specs /\ j.nextRun \in Nat
  BY DEF ScheduledJob
<1>2. a.spec = j.spec /\ a.lastRun = t
  BY DEF Advance, ScheduledJob
<1>3. CASE j.spec.type = "interval"
  <2> DEFINE every == j.spec.every
             gone == (t - j.nextRun) \div every
  <2>1. every \in Nat \ {0}
    BY <1>1, <1>3, ScheduleAssumption DEF Spec0
  <2>2. /\ gone \in Nat /\ gone * every <= t - j.nextRun
        /\ t - j.nextRun < (gone + 1) * every
    <3>1. t - j.nextRun \in Nat
      BY <1>1
    <3> QED BY <2>1, <3>1, DivBounds
  <2>3. a.nextRun = j.nextRun + (gone + 1) * every
    BY <1>1, <1>3 DEF Advance, ScheduledJob
  <2>4. Period(j.spec) = every
    BY <1>3 DEF Period
  <2> HIDE DEF every, gone, a
  <2>5. (gone + 1) * every = gone * every + every /\ gone * every \in Nat
    BY <2>1, <2>2
  <2> QED BY <1>1, <1>2, <2>1, <2>2, <2>3, <2>4, <2>5 DEF a
<1>4. CASE j.spec.type # "interval"
  <2>1. a.nextRun = NextRun(j.spec, t)
    BY <1>4 DEF Advance, ScheduledJob
  <2> HIDE DEF a
  <2> QED BY <1>1, <1>2, <2>1, NextRunLater, NextRunNear DEF a
<1> QED BY <1>3, <1>4

(* What a busy daemon holds as due, the file still has at the same slot.   *)
SameDue ==
  \A d \in Daemons : Busy(d) =>
    /\ at[d] <= now
    /\ \A j \in DOMAIN due[d] \cap DOMAIN file :
         file[j].nextRun = due[d][j].nextRun /\ file[j].spec = due[d][j].spec

LEMMA SameInit ==
  ASSUME Init
  PROVE  SInv /\ SameDue
<1>1. file = Empty /\ (\A d \in Daemons : due[d] = Empty /\ ~Busy(d)) /\ fired = [j \in Jobs |-> Never]
  BY DEF Init, Busy, Processes
<1>2. DOMAIN Empty = {}
  BY DEF Empty
<1>3. \A e \in Editors : ~Pending(e)
  BY DEF Init, Pending
<1> QED BY <1>1, <1>2, <1>3 DEF Init, SInv, FreshIds, Alone, FilePast, DuePast, SameDue

LEMMA SNext ==
  ASSUME TInv, SInv, [Next]_vars, ~clash'
  PROVE  SInv'
<1>1. CASE \E d \in Daemons : Start(d) \/ Work(d) \/ Stop(d)
  BY <1>1, QuietSteps, StartedStep, UpdateStep DEF Work
<1>2. CASE \E e \in Editors : Ask(e) \/ Write(e)
  BY <1>2, EditorSteps
<1>3. CASE Wait \/ UNCHANGED vars
  BY <1>3 DEF Wait, vars, daemon, history, bounds, SInv, FreshIds, Unseen, Pending, Alone,
              Busy, FilePast, DuePast, Firing
<1> QED BY <1>1, <1>2, <1>3 DEF Next

(* The edits of a file and its jobs' slots.                                *)
LEMMA EditKeepsSlots ==
  ASSUME TInv, SInv, NEW e \in Editors, Write(e), ~clash',
         NEW j \in DOMAIN file', j \in DOMAIN file
  PROVE  file'[j].nextRun = file[j].nextRun /\ file'[j].spec = file[j].spec
<1> DEFINE w == edit[e]
<1>1. file' = Edited(file, w) /\ view[e] = file
  BY DEF Write, ReplaceAll
<1>2. w # NoEdit /\ (w.do # "add" => w.id \in DOMAIN file)
  BY <1>1 DEF Write, TInv, PlacesOK, EditorPlace
<1>3. w.do = "add" => w.id \notin DOMAIN file
  BY <1>2 DEF SInv, FreshIds, Pending, Unseen
<1> HIDE DEF w
<1>4. CASE w.do = "add" \/ w.do = "remove"
  BY <1>1, <1>3, <1>4 DEF Edited, With, Without
<1>5. CASE w.do # "add" /\ w.do # "remove"
  <2> DEFINE new == [file[w.id] EXCEPT !.enabled = w.do = "enable"]
  <2>1. file' = With(file, w.id, new)
    BY <1>1, <1>5 DEF Edited
  <2>2. file[w.id] \in ScheduledJob
    BY <1>2, <1>5 DEF TInv, TypeOK, IsTable
  <2>3. new.nextRun = file[w.id].nextRun /\ new.spec = file[w.id].spec
    BY <2>2 DEF ScheduledJob
  <2> HIDE DEF new
  <2> QED BY <2>1, <2>3 DEF With
<1> QED BY <1>4, <1>5

LEMMA SameNext ==
  ASSUME TInv, SInv, SameDue, [Next]_vars, ~clash'
  PROVE  SameDue'
<1> USE DEF TInv, history, bounds, daemon
<1>1. CASE Wait \/ UNCHANGED vars
  BY <1>1 DEF Wait, vars, SameDue, Busy, TypeOK
<1>2. ASSUME NEW d \in Daemons, Start(d) \/ Fire(d) \/ Started(d) \/ Sleep(d) \/ Stop(d)
      PROVE  SameDue'
  <2>1. /\ file' = file /\ now' = now
        /\ \A c \in Daemons \ {d} :
             due'[c] = due[c] /\ at'[c] = at[c] /\ (Busy(c)' <=> Busy(c))
    BY <1>2 DEF Start, Fire, Started, Sleep, Stop, TypeOK, Processes, Busy
  <2>2. Busy(d)' => Busy(d) /\ due'[d] = due[d] /\ at'[d] = at[d]
    BY <1>2 DEF Start, Fire, Started, Sleep, Stop, TypeOK, Processes, Busy
  <2> QED BY <2>1, <2>2 DEF SameDue
<1>3. ASSUME NEW d \in Daemons, Tick(d) PROVE SameDue'
  <2>1. /\ due'[d] = [j \in {i \in DOMAIN file : IsDue(file[i], now)} |-> file[j]]
        /\ at'[d] = now /\ now' = now /\ file' = file
        /\ \A c \in Daemons \ {d} :
             due'[c] = due[c] /\ at'[c] = at[c] /\ (Busy(c)' <=> Busy(c))
    BY <1>3 DEF Tick, TypeOK, Processes, Busy
  <2>2. now \in Nat
    BY DEF TypeOK
  <2> QED BY <2>1, <2>2 DEF SameDue
<1>4. ASSUME NEW d \in Daemons, Update(d) PROVE SameDue'
  <2>1. /\ \A c \in Daemons \ {d} : ~Busy(c)'
        /\ due'[d] = Without(due[d], job[d]) /\ at' = at /\ now' = now /\ Busy(d)
    BY <1>4 DEF Update, TypeOK, Processes, Busy, SInv, Alone
  <2>2. file' = [j \in DOMAIN file |-> IF j \in job[d] THEN Advance(due[d][j], at[d]) ELSE file[j]]
    BY <1>4 DEF Update, ReplaceAll
  <2>3. \A j \in DOMAIN due'[d] \cap DOMAIN file' :
           j \in DOMAIN due[d] /\ due'[d][j] = due[d][j] /\ file'[j] = file[j] /\ j \in DOMAIN file
    BY <2>1, <2>2 DEF Without
  <2> QED BY <2>1, <2>3 DEF SameDue
<1>5. ASSUME NEW e \in Editors, Ask(e) PROVE SameDue'
  <2>1. \A d \in Daemons : pc'[d] = pc[d]
    BY <1>5, ScheduleAssumption DEF Ask, TypeOK, Processes
  <2> QED BY <1>5, <2>1 DEF Ask, SameDue, Busy
<1>6. ASSUME NEW e \in Editors, Write(e) PROVE SameDue'
  <2>1. /\ \A d \in Daemons : pc'[d] = pc[d]
        /\ due' = due /\ at' = at /\ now' = now
    BY <1>6, ScheduleAssumption DEF Write, TypeOK, Processes
  <2>2. ASSUME NEW d \in Daemons, NEW j \in DOMAIN due[d] \cap DOMAIN file' PROVE j \in DOMAIN file
    <3>1. file' = Edited(file, edit[e])
      BY <1>6 DEF Write, ReplaceAll
    <3>2. edit[e] # NoEdit
      BY <1>6 DEF Write, PlacesOK, EditorPlace
    <3>3. edit[e].do = "add" => edit[e].id \notin DOMAIN due[d]
      BY <3>2 DEF SInv, FreshIds, Pending, Unseen
    <3>4. edit[e].do # "add" => edit[e].id \in DOMAIN file
      BY <1>6, <3>2 DEF Write, ReplaceAll, PlacesOK, EditorPlace
    <3> QED BY <2>2, <3>1, <3>3, <3>4 DEF Edited, With, Without
  <2>3. \A d \in Daemons : Busy(d)' <=> Busy(d)
    BY <2>1 DEF Busy
  <2> QED BY <1>6, <2>1, <2>2, <2>3, EditKeepsSlots DEF SameDue
<1> QED BY <1>1, <1>2, <1>3, <1>4, <1>5, <1>6 DEF Next, Work

LEMMA UpdateForward ==
  ASSUME TInv, SInv, SameDue, NEW d \in Daemons, Update(d), ~clash',
         NEW j \in DOMAIN file
  PROVE  GoesForward(file[j], file'[j])
<1> USE DEF TInv
<1>1. file' = [i \in DOMAIN file |-> IF i \in job[d] THEN Advance(due[d][i], at[d]) ELSE file[i]]
  BY DEF Update, ReplaceAll
<1>2. Busy(d) /\ job[d] \subseteq DOMAIN due[d] /\ at[d] \in Nat
  BY DEF Update, Busy, TypeOK
<1>3. CASE j \in job[d]
  <2>1. /\ due[d][j] \in ScheduledJob /\ at[d] >= due[d][j].nextRun
        /\ file[j].nextRun = due[d][j].nextRun /\ file[j].spec = due[d][j].spec
        /\ at[d] <= now
    BY <1>2, <1>3, Numbers DEF SInv, DuePast, SameDue
  <2>2. due[d][j].nextRun \in Nat /\ now \in Nat
    BY <2>1 DEF ScheduledJob, TypeOK
  <2> DEFINE a == Advance(due[d][j], at[d])
  <2>3. /\ a.spec = due[d][j].spec /\ a.lastRun = at[d]
        /\ at[d] < a.nextRun /\ a.nextRun <= at[d] + Period(due[d][j].spec)
    BY <1>2, <2>1, AdvanceNear
  <2>4. file'[j] = a
    BY <1>1, <1>3
  <2> HIDE DEF a
  <2> QED BY <2>1, <2>2, <2>3, <2>4 DEF GoesForward
<1>4. CASE j \notin job[d]
  BY <1>1, <1>4 DEF GoesForward
<1> QED BY <1>3, <1>4

(* What the daemons and the editors do to the file moves a job only from a *)
(* slot that has come to the next one, while no two of them cross.         *)
THEOREM NoSlotPassedOver == Spec => SlotsGoForward
<1> DEFINE Inv == TInv /\ (~clash => SInv /\ SameDue)
           Forward == ~clash' => \A j \in DOMAIN file \cap DOMAIN file' :
                                    GoesForward(file[j], file'[j])
<1>1. Init => Inv
  BY TInit, SameInit
<1>2. Inv /\ [Next]_vars => Inv'
  <2> SUFFICES ASSUME Inv, [Next]_vars PROVE Inv'
    OBVIOUS
  <2>1. TInv'
    BY TDaemon, TEditor, TWait DEF Next
  <2> QED BY <2>1, ClashStays, SNext, SameNext
<1>3. Inv /\ [Next]_vars => [Forward]_vars
  <2> SUFFICES ASSUME TInv, [Next]_vars, ~clash', SInv, SameDue,
                      NEW j \in DOMAIN file, j \in DOMAIN file'
               PROVE  GoesForward(file[j], file'[j])
    BY ClashStays
  <2>1. CASE file' = file
    BY <2>1 DEF GoesForward
  <2>2. CASE file' # file
    <3>1. (\E d \in Daemons : Update(d)) \/ (\E e \in Editors : Write(e))
      BY <2>2 DEF Next, Work, Start, Tick, Fire, Started, Sleep, Stop, Ask, Wait, vars
    <3>2. (\E e \in Editors : Write(e)) => GoesForward(file[j], file'[j])
      BY EditKeepsSlots DEF GoesForward
    <3> QED BY <3>1, <3>2, UpdateForward
  <2> QED BY <2>1, <2>2
<1> QED BY <1>1, <1>2, <1>3, PTL DEF Spec, SlotsGoForward

=============================================================================
