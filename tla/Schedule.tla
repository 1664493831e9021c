------------------------------ MODULE Schedule ------------------------------
(***************************************************************************)
(* Scheduled jobs: the arithmetic of schedule.ts and the store of          *)
(* schedule-store.ts (packages/core/src/scheduling), shared without a lock *)
(* by the daemons (`excalibur schedule run`, commands/schedule.ts) and by  *)
(* the processes that edit it: `schedule add` and `remove`, the write      *)
(* surface of `serve`, and the shell.                                      *)
(*                                                                         *)
(* A process lists the whole file and later replaces it (atomically, by a  *)
(* rename); between the two another process may have replaced it.  Time    *)
(* counts in slices of the tick; a day has Day of them.  The order of the  *)
(* jobs in the file is left out.                                           *)
(***************************************************************************)
EXTENDS Integers

CONSTANTS
  Jobs,      \* ids; each is given out once
  Specs,     \* cadences that may be asked for
  Day,       \* length of a day
  Daemons, Editors,
  MaxTime, MaxEdits, MaxCrashes   \* model bounds

Spec0 == [type : {"interval"}, every : Nat \ {0}]
           \cup [type : {"dailyAt"}, minutesOfDay : 0 .. Day - 1]

ASSUME ScheduleAssumption ==
  /\ Day \in Nat \ {0}
  /\ Specs \subseteq Spec0
  /\ Daemons \cap Editors = {}
  /\ MaxTime \in Nat /\ MaxEdits \in Nat /\ MaxCrashes \in Nat

VARIABLES
  now,      \* the clock
  file,     \* schedules.json: the jobs by id
  view,     \* what each process has last listed
  pc,       \* daemons: off, sleep, fire, starting, write; editors: idle, write
  at,       \* the daemon's `now`, read at the head of its tick
  due,      \* the due jobs its tick has still to fire, as listed then
  job,      \* the one it is firing, if any
  edit,     \* what an editor is about to write
  known,    \* ids given out (history)
  fired,    \* the slot each job was last fired for (history)
  again,    \* a job was fired for that slot, or an earlier one, again (history)
  clash,    \* two processes worked on the file at once, or a daemon died
            \* with a job fired and not rescheduled (history)
  paused,   \* jobs disabled since they were last enabled (history)
  edits, crashes   \* model bounds: how many there have been

Processes == Daemons \cup Editors
daemon == <<at, due, job>>
history == <<known, fired, again, clash, paused>>
bounds == <<edits, crashes>>
vars == <<now, file, view, pc, daemon, edit, history, bounds>>

Never == -1
ScheduledJob == [spec : Specs, createdAt : Nat, lastRun : Nat \cup {Never},
                 nextRun : Nat, enabled : BOOLEAN]
IsTable(t) == DOMAIN t \subseteq Jobs /\ t \in [DOMAIN t -> ScheduledJob]
Empty == [j \in {} |-> {}]
NoEdit == [do |-> "none"]
Edit == {NoEdit} \cup [do : {"add"}, id : Jobs, job : ScheduledJob]
          \cup [do : {"remove", "enable", "disable"}, id : Jobs]

TypeOK ==
  /\ now \in 0 .. MaxTime
  /\ IsTable(file)
  /\ DOMAIN view = Processes /\ \A p \in Processes : IsTable(view[p])
  /\ pc \in [Processes -> {"off", "sleep", "fire", "starting", "idle", "write"}]
  /\ at \in [Daemons -> 0 .. MaxTime]
  /\ DOMAIN due = Daemons /\ \A d \in Daemons : IsTable(due[d])
  /\ job \in [Daemons -> SUBSET Jobs]
  /\ \A d \in Daemons : job[d] \subseteq DOMAIN due[d]
  /\ edit \in [Editors -> Edit]
  /\ known \subseteq Jobs
  /\ fired \in [Jobs -> Nat \cup {Never}]
  /\ again \in BOOLEAN /\ clash \in BOOLEAN
  /\ paused \subseteq Jobs
  /\ edits \in 0 .. MaxEdits /\ crashes \in 0 .. MaxCrashes

Init ==
  /\ now = 0
  /\ file = Empty
  /\ view = [p \in Processes |-> Empty]
  /\ pc = [p \in Processes |-> IF p \in Daemons THEN "off" ELSE "idle"]
  /\ at = [d \in Daemons |-> 0]
  /\ due = [d \in Daemons |-> Empty]
  /\ job = [d \in Daemons |-> {}]
  /\ edit = [e \in Editors |-> NoEdit]
  /\ known = {} /\ fired = [j \in Jobs |-> Never] /\ again = FALSE /\ clash = FALSE /\ paused = {}
  /\ edits = 0 /\ crashes = 0

-----------------------------------------------------------------------------
(* The arithmetic.                                                         *)

(* Strictly after from: a period later, or at the time of day, today or    *)
(* tomorrow.                                                               *)
NextRun(spec, from) ==
  IF spec.type = "interval" THEN from + spec.every
  ELSE LET today == from - (from % Day) + spec.minutesOfDay
       IN  IF today <= from THEN today + Day ELSE today

IsDue(j, t) == j.enabled /\ t >= j.nextRun

(* As it would be if the next slot were counted from now.                  *)
AdvanceFromNow(j, t) == [j EXCEPT !.lastRun = t, !.nextRun = NextRun(j.spec, t)]

(* As it would be if the slots gone by were counted without the next one.  *)
AdvanceToLast(j, t) ==
  LET elapsed == t - j.nextRun
  IN  [j EXCEPT !.lastRun = t,
                !.nextRun = IF j.spec.type = "interval"
                            THEN j.nextRun + (elapsed \div j.spec.every) * j.spec.every
                            ELSE NextRun(j.spec, t)]

(* advanceJob: an interval stays on its slots, and goes to the first one   *)
(* after now.                                                              *)
Advance(j, t) ==
  LET elapsed == t - j.nextRun
      steps == IF elapsed >= 0 THEN (elapsed \div j.spec.every) + 1 ELSE 1
  IN  [j EXCEPT !.lastRun = t,
                !.nextRun = IF j.spec.type = "interval"
                            THEN j.nextRun + steps * j.spec.every
                            ELSE NextRun(j.spec, t)]

(* As it would be if the first slot were left to the daemon.               *)
NewUnscheduled(spec) == [spec |-> spec, createdAt |-> now, lastRun |-> Never,
                         nextRun |-> Never, enabled |-> TRUE]

New(spec) == [spec |-> spec, createdAt |-> now, lastRun |-> Never,
              nextRun |-> NextRun(spec, now), enabled |-> TRUE]

-----------------------------------------------------------------------------
(* The store: list, then replaceAll.                                       *)

List(p) == view' = [view EXCEPT ![p] = file]

ReplaceAll(p, table) ==
  /\ file' = table
  /\ clash' = (clash \/ view[p] # file)
  /\ view' = [view EXCEPT ![p] = Empty]

Without(table, ids) == [j \in DOMAIN table \ ids |-> table[j]]
With(table, id, j) == [i \in DOMAIN table \cup {id} |-> IF i = id THEN j ELSE table[i]]

-----------------------------------------------------------------------------
(* The daemon.                                                             *)

Start(d) ==
  /\ pc[d] = "off"
  /\ pc' = [pc EXCEPT ![d] = "sleep"]
  /\ UNCHANGED <<now, file, view, daemon, edit, history, bounds>>

Busy(d) == pc[d] \in {"fire", "starting", "write"}

(* The head of the tick: the time, and the jobs due at it.                 *)
Tick(d) ==
  /\ pc[d] = "sleep"
  /\ at' = [at EXCEPT ![d] = now]
  /\ due' = [due EXCEPT ![d] = [j \in {i \in DOMAIN file : IsDue(file[i], now)} |-> file[j]]]
  /\ pc' = [pc EXCEPT ![d] = "fire"]
  /\ clash' = (clash \/ \E e \in Daemons \ {d} : Busy(e))
  /\ UNCHANGED <<now, file, view, job, edit, known, fired, again, paused, bounds>>

Fire(d) ==
  /\ pc[d] = "fire"
  /\ \E j \in DOMAIN due[d] : job' = [job EXCEPT ![d] = {j}]
  /\ pc' = [pc EXCEPT ![d] = "starting"]
  /\ UNCHANGED <<now, file, view, at, due, edit, history, bounds>>

FireSlot(d) ==
  /\ fired' = [j \in Jobs |-> IF j \in job[d] THEN due[d][j].nextRun ELSE fired[j]]
  /\ again' = (again \/ \E j \in job[d] : due[d][j].nextRun <= fired[j])

(* As it would be if a failed start were not rescheduled.                  *)
StartedOrSkipped(d) ==
  /\ pc[d] = "starting"
  /\ \/ /\ FireSlot(d)
        /\ List(d)
        /\ pc' = [pc EXCEPT ![d] = "write"]
        /\ UNCHANGED <<due, job>>
     \/ /\ due' = [due EXCEPT ![d] = Without(@, job[d])]
        /\ job' = [job EXCEPT ![d] = {}]
        /\ pc' = [pc EXCEPT ![d] = "fire"]
        /\ UNCHANGED <<fired, again, view>>
  /\ UNCHANGED <<now, file, at, edit, known, clash, paused, bounds>>

(* startRun has started the run (it is not waited for), or has thrown;     *)
(* store.update lists the file.                                            *)
Started(d) ==
  /\ pc[d] = "starting"
  /\ \/ FireSlot(d)
     \/ UNCHANGED <<fired, again>>
  /\ List(d)
  /\ pc' = [pc EXCEPT ![d] = "write"]
  /\ UNCHANGED <<now, file, daemon, edit, known, clash, paused, bounds>>

(* ... and replaces the job, as the tick listed it, advanced, if it is     *)
(* still there.                                                            *)
Update(d) ==
  /\ pc[d] = "write"
  /\ ReplaceAll(d, [j \in DOMAIN view[d] |->
                      IF j \in job[d] THEN Advance(due[d][j], at[d]) ELSE view[d][j]])
  /\ due' = [due EXCEPT ![d] = Without(@, job[d])]
  /\ job' = [job EXCEPT ![d] = {}]
  /\ pc' = [pc EXCEPT ![d] = "fire"]
  /\ UNCHANGED <<now, at, edit, known, fired, again, paused, bounds>>

Sleep(d) ==
  /\ pc[d] = "fire" /\ DOMAIN due[d] = {}
  /\ pc' = [pc EXCEPT ![d] = "sleep"]
  /\ at' = [at EXCEPT ![d] = 0]
  /\ UNCHANGED <<now, file, view, due, job, edit, history, bounds>>

(* Ctrl-C in its sleep, or death at any time.                              *)
Stop(d) ==
  /\ pc[d] # "off"
  /\ pc' = [pc EXCEPT ![d] = "off"]
  /\ at' = [at EXCEPT ![d] = 0] /\ due' = [due EXCEPT ![d] = Empty]
  /\ job' = [job EXCEPT ![d] = {}] /\ view' = [view EXCEPT ![d] = Empty]
  /\ clash' = (clash \/ pc[d] \in {"starting", "write"})
  /\ crashes < MaxCrashes /\ crashes' = crashes + 1
  /\ UNCHANGED <<now, file, edit, known, fired, again, paused, edits>>

-----------------------------------------------------------------------------
(* An editor lists, and goes on when what it asks for changes the file.    *)
Ask(e) ==
  /\ pc[e] = "idle" /\ edits < MaxEdits
  /\ \/ \E id \in Jobs \ known, s \in Specs :
          /\ edit' = [edit EXCEPT ![e] = [do |-> "add", id |-> id, job |-> New(s)]]
          /\ known' = known \cup {id}
     \/ \E id \in DOMAIN file, do \in {"remove", "enable", "disable"} :
          /\ edit' = [edit EXCEPT ![e] = [do |-> do, id |-> id]]
          /\ UNCHANGED known
  /\ List(e)
  /\ pc' = [pc EXCEPT ![e] = "write"]
  /\ edits' = edits + 1
  /\ UNCHANGED <<now, file, daemon, fired, again, clash, paused, crashes>>

Edited(table, w) ==
  CASE w.do = "add" -> With(table, w.id, w.job)
    [] w.do = "remove" -> Without(table, {w.id})
    [] OTHER -> With(table, w.id, [table[w.id] EXCEPT !.enabled = w.do = "enable"])

Write(e) ==
  /\ pc[e] = "write"
  /\ ReplaceAll(e, Edited(view[e], edit[e]))
  /\ paused' = IF edit[e].do = "disable" THEN paused \cup {edit[e].id}
                                         ELSE paused \ {edit[e].id}
  /\ edit' = [edit EXCEPT ![e] = NoEdit]
  /\ pc' = [pc EXCEPT ![e] = "idle"]
  /\ UNCHANGED <<now, daemon, known, fired, again, bounds>>

Wait ==
  /\ now < MaxTime
  /\ now' = now + 1
  /\ UNCHANGED <<file, view, pc, daemon, edit, history, bounds>>

-----------------------------------------------------------------------------
Work(d) == Tick(d) \/ Fire(d) \/ Started(d) \/ Update(d) \/ Sleep(d)

Next ==
  \/ \E d \in Daemons : Start(d) \/ Work(d) \/ Stop(d)
  \/ \E e \in Editors : Ask(e) \/ Write(e)
  \/ Wait

(* A daemon that runs goes on: its timers fire, and startRun, which only   *)
(* resolves a workflow and creates a record, settles.                      *)
Fairness == \A d \in Daemons : WF_vars(Work(d))

Spec == Init /\ [][Next]_vars /\ Fairness

-----------------------------------------------------------------------------
(* schedule.ts: an interval "never drifts", and a fired job goes to a slot *)
(* strictly after the firing: whatever the file has been through, a job's  *)
(* next slot is one of its creation's, after the run it last made.         *)
Anchored(j) ==
  /\ j.lastRun < j.nextRun /\ j.createdAt < j.nextRun
  /\ IF j.spec.type = "interval"
       THEN \E k \in 1 .. MaxTime + j.spec.every :
              j.nextRun = j.createdAt + k * j.spec.every
       ELSE j.nextRun % Day = j.spec.minutesOfDay

OnSlots == \A j \in DOMAIN file : Anchored(file[j])

(* "Fires ONCE and realigns": no slot of a job starts two runs, unless two *)
(* processes crossed on the file or a daemon died before it rescheduled.   *)
OncePerSlot == ~clash => ~again

(* A due job is rescheduled, disabled or removed as long as a daemon runs, *)
(* even when its start fails each time.                                    *)
Rescheduled ==
  \A j \in Jobs : (j \in DOMAIN file /\ IsDue(file[j], now)) ~>
     \/ j \notin DOMAIN file \/ ~IsDue(file[j], now)
     \/ \A d \in Daemons : pc[d] = "off"

(* schedule-store.ts (setEnabled) and serve.ts: an edit and the daemon's   *)
(* advance do not clobber each other: a job that was disabled stays so.    *)
(* Even when no two read-and-write spans cross, the daemon writes back the *)
(* job it listed at the head of its tick.                                  *)
PausedStaysPaused == ~clash => \A j \in paused \cap DOMAIN file : ~file[j].enabled
=============================================================================
