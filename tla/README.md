# A TLA+ development of Excalibur core

Excalibur is a TypeScript monorepo: a CLI and a set of packages with which
language-model agents work on a repository. This directory models the parts of
it whose correctness depends on the order in which things happen: the engine
that executes a run and the handle others drive it by, the supervisor of long
missions with its checkpoints, the executor that fans work out over git
worktrees and merges it again with the orchestration around it, approved plans
and their sidecars, the job file of the scheduler, and the clients of MCP and
language servers. The modules are checked with TLC on small instances, and the
safety properties that hold in them are proved with TLAPS for every value of the
constants.

Paths below are relative to the repository (`packages/...`, `apps/...`).

## The system

| Component | State | Operations | Talks to |
|---|---|---|---|
| Run engine, `packages/core/src/engine/execute-local-run.ts` | current phase, attempts, spend, collected diff, claim evidence, record | execute a workflow's phases under retry and continue policies, charge and cap model calls, gate completion on claims and on the verification mesh | the gateway, the agent adapter, `confirm` of its handle, the run store |
| Run handle, `engine/run-controller.ts` | pending question, buffered decision, abort signal | `confirm` (from the engine), `approve`, `cancel` (from clients), events | engine; ACP server, HTTP server, CLI |
| Native agent loop, `packages/agent-runtime/src/adapters/native` | iteration, tool calls of an answer, patch | call the model, run tools behind permissions, emit a patch | engine, gateway, permission engine |
| Claims and verification, `claims/`, `verification/` | evidence, verdicts | build a ledger, refute claims; review by lenses | engine |
| Mission supervisor, `packages/core/src/orchestrator` | live plan with step states, spend, outcome, `state.json` | drive steps, reassess (retry, escalate, replan, abort, declare done), pause, checkpoint, resume | executors in `apps/cli/src/session/mission-run.ts`, REPL offers |
| Swarm, `packages/core/src/swarm`, `git/git.ts` | lanes, worktrees, branches, merge tree | run lanes (retry, grade, heal), waves with conditions, merge, verify, tear down | CLI flow, git, agents |
| Orchestration flow, `apps/cli/src/lib/swarm.ts`, `orchestration-manifest.ts` | manifest, control file, budget ledger | decompose, run, apply, verify, retry, rerun, resume, pause, cancel a lane | swarm, run store |
| Structured plans, `packages/core/src/plans` | step statuses in a sidecar | run in order or a phase at once, checkpoint, resume | REPL, swarm |
| Scheduler, `packages/core/src/scheduling`, `schedule daemon` | job file | add, remove, enable, fire, advance | run controller |
| Sessions, `packages/core/src/sessions` | transcript, turn count, compactions | append, compact, chain | REPL |
| MCP and LSP clients, `packages/agent-runtime/src/{mcp,lsp}` | pending requests, close reason, diagnostics waiters | request, notify, time out, tear down | agent tools, engine |
| Interactive session, `apps/cli/src/session` | fleet registry and focus, loops, child process | dispatch, interrupt, goal and interval loops, respawn | all of the above |
| Model gateway, `packages/model-gateway` | routes, costs | chat with retries | providers |
| Context engine, extensions, schemas, work items, enterprise sync, discovery, onboarding, UI | mostly none | sequential or pure I/O | - |

What makes each of the first rows correct, and hard:

* *Engine and handle.* Everything is asynchronous: answers, late answers and
  cancellations arrive at any await. A waiting engine must not lose its answer;
  a required gate must hold through every retry and continue policy; a hard
  budget must stop the run; a patch must not be applied twice; a run with
  refuted claims must not complete; a run must end.
* *Mission.* Steps run one at a time, but crashes, aborts, resumes and second
  terminals fall between events, and the plan changes while it is driven.
  Dependencies must come first in every copy of the plan, the checkpoint must be
  what a resume needs, attempts and spend must stay bounded, and what a replan
  adds must not strand the mission.
* *Swarm.* Lanes run in parallel and fail, are retried and healed; a wave's merge
  may conflict, fail to commit or be undone by a gate. Dependents must start from
  exactly the work reported as merged, the final diff must hold exactly that work,
  and nothing must be left behind.
* *Shared files.* Job file, plan sidecar, session metadata and control file are
  read, changed and written back by several processes.
  What one of them did must not be undone, redone or lost by another, or by a
  crash that leaves a file half written.
* *Clients of servers.* A response, a timeout, a failing write and the death of the
  server race for one pending request; diagnostics come in waves, to one-shot
  waiters, and must be those of the last edit.

`PROJECT.json` lists every hazard at its line with the properties that cover it,
and the components that are not modelled with the reason.

## Modules

| Module | What it is |
|---|---|
| `RunController` | the approval bridge of a run handle (class `RunExecution`): `Confirm`, `Approve`, `CancelRun` |
| `LocalRun` | extends it with the engine (`LocalRunExecution`) and the native agent loop |
| `Mission` | `runMission`, `spliceSteps`, `saveMission`, the offer to resume, several terminals |
| `LaneDag` | what a fan-out promises of its lanes (the abstract specification) |
| `Swarm` | `runSwarm` and `runSwarmStaged` over the repository's worktrees and branches; implements `LaneDag` |
| `SwarmFlow` | the CLI's orchestration: gates of the lanes, budget, pause and cancellation, records, manifest, apply, verify, retry, re-run, resume |
| `Plans` | `runStructuredPlan` over the plan store, the plan gate, the board of a build, resumption, several shells |
| `Schedule` | the arithmetic of the next run, the job store, daemons and editors |
| `RpcCalls` | what a JSON-RPC client promises of the calls made through it (the abstract specification) |
| `RpcClient` | `McpClient` over stdio and HTTP, and `LspClient`; implements `RpcCalls` |
| `LspSession` | extends it with the session over one `LspClient`: edits, publications, waiters, queries |
| `MC...` | the instances TLC checks: workflows, plans, lanes, cadences |
| `...Proofs` | the theorems about the module of that name (`ClientProofs`: about `RpcClient` and `LspSession`) |

The modules compose by extension where the code composes by calls (`RunController`
in `LocalRun`, `RpcClient` in `LspSession`) and by refinement where one promises
something to the other (`RpcClient` implements `RpcCalls`, `Swarm` implements `LaneDag`,
`LspSession` is one of the users `RpcClient` admits). `SwarmFlow` does not repeat `Swarm`: what `Swarm` says of a
lane's worktree, of the merge and of the gate of a wave is what `SwarmFlow` takes for
granted of a fan-in.

### LocalRun

The engine is one `async` function; an action is what it does between two awaits
and the control point `pc` names the await, or the point inside an action
sequence that no client can see. `wf` and `ph` are the workflow and the phase;
`spent` is `spentCents`; `diff`, `inTree`, `applies`, `exits` and `lsp` are the
collected diff, whether it is in the tree, and the evidence of
`captureClaimEvidence`. `pending`, the buffered decision and the abort flag are
the handle's. Clients are `Reply` (a front end that answers what it was shown),
`ReplyLate` (an answer to an earlier question) and `Cancel`; they act only at
awaits. A front end without a controller answers yes by itself (`AskAuto`).
Prompts, answers and patches are abstracted to what the gates tell apart: a diff
is absent, clean or leaks a secret; a command passed or failed.
Ghost variables: `granted`, `denied`, `misrouted`, `announced`, `cancelPh`.

### Mission

`disk` is `state.json`: absent, unreadable (`Torn`, a write cut short) or a
mission. Each terminal has the mission it holds (`mem`), the step it runs (`at`),
its ceiling and abort flag. `Save` is part of every action whose code emits an
event, since the event handler writes the checkpoint. Steps are numbered, as the
ids the splice makes unique. The executor returns success or failure with some
cost; the reassessor may answer anything (`Decide` and the six decisions). An
offer holds the snapshot it was made from while the user thinks (`Offer`,
`TakeOffer`, `DeclineOffer`). The time ceiling is the `Pause` any drive may take;
the budget ceiling is explicit.

### LaneDag, Swarm

`LaneDag` has four variables: the status of the call, whether it looks at dependencies
(staged), its lanes, and the fate of each: waiting, taken, ran, failed or skipped. Its
actions are what the caller of a fan-out can rely on: lanes are taken up (`TakeUp`) once
those they need have settled, and only under their condition; a lane taken up settles
once (`Settle`); the gate takes a result back (`Undo`) while every lane that needs it is
still waiting; a call returns (`Return`) with all lanes settled, or is dropped (`Drop`)
by an exception or the death of the process. `Swarm` maps to it by what a lane's stage
means to the caller (`Fates`, `CallStatus`); worktrees, the pool, retries and the merge
are steps the abstract specification does not see.

The content of a tree is the set of contributions it holds: a lane's work, or
the markers a failed three-way merge left. `stage` follows a lane from waiting to
skipped, ran or failed; `edits` is the set of attempts whose edits are in its
worktree; `merging`, `tip` and `pre` are the merge worktree, its HEAD and the base
of the wave; `out` is `mergedDiff`. `worktrees` and `branches` belong to the
repository and outlive a call, so a second call meets what the first one left;
the user may clean up in between. Setting up, running, merging and gating are
separate actions, because a crash, a refused worktree or a lane's failure may come
at each. A commit may fail (`commitAll` runs the repository's hooks and its result
is not looked at). A reset or a staging does not fail: their results are not
looked at either, and nothing in the repository makes them fail short of a broken
git. A lane's own `maxAttempts` is the global one here; lanes of one name at two
depths are not modelled, nested calls having another prefix.

### SwarmFlow

`lane` is where a lane stands between its waves and its end: queued, at the gate,
held by a pause, working, back, settled. `EnterGate` is `runLane` up to its first
await, `Release` the poll that ends a hold, `LaneReturns` the end of the agent's turn
with its charge to the ledger, `LanePasses` and `LaneRejected` what the executor does
with the attempt (retry, heal, fail). `FanIn` writes the records and the manifest,
`Land` applies the merge, `Verify` tests and reviews it and may revert it, `Retry` is
the offer made once. `RunAgain`, `Resume` and `ResumeSpec` are the calls `excalibur
orchestrate` makes from a manifest. `ReadControl`, `OpenControl` and `FillControl` are a
second process that pauses or cancels: it reads the control file, truncates it and
fills it, and a gate may look in between.
Ghosts: `unlanded` (lanes whose diff did not land), `halted` (lanes cancelled in the
file before they worked), `crossed` (two writers crossed, or a gate read the file half
written).
Left out: lanes that depend on each other (the code then falls back to a flat
call), the worktrees and the gates of waves, which are `Swarm`'s (`SetUpThrows` is
all that is left of a refused worktree), writes of the control file that change
nothing, and re-runs of another manifest than the newest. A cancellation reads the file twice in
a row; the model reads once.

### Plans

`md` and `side` are the two files of a plan: the `.md` with its overall status, and
the sidecar with a status for each step, which is truncated and then filled
(`OpenSidecar`, `FillSidecar`), so that a crash or a failing write leaves it
unreadable and `readPlan` falls back to the prose, where every step is pending and
none has dependencies (`Stored`). A shell has the plan it drives in memory (`mem`,
`linked`), the phase it is in, the steps it executes (`cur`) and those it has still
to checkpoint (`todo`); the store's calls are synchronous, so it goes on when they
are done (`Quiet`). `Approve` and `ApproveFlat` are the two ways of a plan from the gate;
`OpenBuild` to `AloneThrows` the board of an automatic build, with its fall-back to one
gated run; `Offer`, `Resume`, `Decline` and `NothingLeft` the resumption.
Ghosts: `recorded` (what the sidecar has ever said is done), `lost` (it was found
unreadable), `overlap` (two shells drove the plan together), `blind` (a one-pass execution
settled the plan). The `.md` write is taken as atomic.

### Schedule

`file` is `schedules.json`; every process lists it (`view`) and later replaces it by a
rename. A daemon reads the clock and the due jobs at the head of its tick (`at`, `due`),
starts each and writes back the job *it listed then*, advanced (`Started`, `Update`).
`Advance` and `NextRun` translate `advanceJob` and `computeNextRun` with time in slices.
Editors add, remove, enable and disable. Ghosts: `known`, `fired`, `again`, `paused`, and
`clash` (two processes were on the file at once, or a daemon died with a job fired and not
rescheduled). Days that are not 24 hours long and the text of a cadence are left out.

### RpcCalls, RpcClient, LspSession

`RpcCalls` has three variables: what each call has come to, which calls the server has
replied to, and whether the connection is shut; a call is answered only by its own
reply, settles once, and the step that shuts the connection fails all that are open.

`RpcClient` has the code's maps: `pending` by id, `closedReason` (`shut`), the promise of
each caller (`state`), the subprocess, and the messages on their way. `Timeout`, `Receive`,
`SendThrows`, `TransportEnds` and `Close` race for one call. `kind` tells the three clients
apart where their code differs: only `LspClient` looks whether a message is a request;
only `McpClient` destroys itself when the handshake fails; an HTTP transport turns a
failing POST into an error reply. `Settle` matches by id alone, as the code does.

`LspSession` follows one file: `openDoc` is the version counter, `sent` the texts sent,
`feed` the publications on their way, `mail` the one-shot waiter, and `at` the place of
`diagnosticsFor` between its awaits. A server may skip a pass or a text, and its
publications come late, twice or not at all.

## Runs

Passing runs:

* `local_run`: five workflows with every phase type, a retried and a continued
  failure, an optional gate, two gated commands in one phase, three calls outside
  an agent (the third over the cap), two applies of one diff and two runs of one
  test; caps, costs, denied, asked and allowed tools; with and without a remote
  front end. One stale answer, two agent iterations, two tool calls per answer:
  enough for an answer to reach a question it was not given for, for the cap to be
  crossed inside the agent loop, and for a tool after a denial.
* `mission`: one plan of two steps listed out of order, replans that add none or
  two steps (four in all), two attempts, three executions per drive and two
  launches: enough for a crash and a resume, for a retry in each of the two, for a
  splice and a failure inside it, and for every way the loop can end. One terminal.
* `swarm`: a staged call of four lanes in two waves with `on_success` and
  `on_failure` lanes, a flat call of three lanes over two workers, a flat call of
  one lane; two calls in a row, two attempts and a heal. Two waves are what the
  gate's rollback and the conditions need; two calls are what left-over branches
  need.
* `swarm_flow`: two independent lanes and one that uses the work of the first, over a
  pool of two, a cap of one unit, two attempts and a heal; one controller that writes
  three times during the first call (a pause, a cancellation and a resume, in any
  order), and one more call of any kind. Two lanes in flight are what the overshoot
  needs; a dependent is what a resume needs.
* `plans`: plans of two steps (in two phases; in one; a build's board without, and
  with a dependency of the first step on the last), two shells, two resumptions, one
  fault (crash, abort, failed write, or a resumption while another shell drives). Two
  shells and one truncated sidecar already give every way the two files and the two
  copies in memory can differ; the proofs remove the bounds.
* `schedule`: two daemons and an editor over one job, of an interval of two slices or
  daily in a day of three, over five instants, with two edits and one death. Five
  instants hold a downtime of two slots.
* `clients`: the handshake and two calls of an MCP client over pipes or HTTP or of a
  language-server session, and two edits of the file: enough for a late, a repeated
  and a missing reply, for a wave of the edit before, and for a file deleted and
  opened again.

Runs that show a disagreement between the code and what the repository says of it
(`findings` in `PROJECT.json` quotes the lines):

* `cancel_hang`: a cancelled run parks its next question and never ends.
* `mission_resume`: a step interrupted by a crash is never run again, and the
  mission may be reported completed.
* `swarm_markers`: a conflicting lane is in `mergedDiff`, as conflict markers.
* `mcp_server_request`: a request of an MCP server settles the pending call that has
  the same id.
* `schedule_pause`: a job disabled while the daemon starts its run is enabled again.

### Properties

| Run | Safety | Actions and liveness |
|---|---|---|
| `local_run` | `TypeOK`, `BudgetHolds`, `GateHeld`, `NoLostWakeup`, `CancelledNeverCompletes`, `AppliedOnce`, `CompletedIsVerified` | `Terminates` |
| `mission` | `TypeOK`, `DependenciesFirst`, `CheckpointIsCurrent`, `LimitsHold`, `NoStrandedSteps`, `SplicesAreAccepted` | `Terminates` |
| `swarm` | `TypeOK`, `DiffIsLastAttempts`, `DependentsSeeWork`, `MergedIsComplete`, `TornDown` | `LanesAreDriven` (refinement), `Terminates` |
| `swarm_flow` | `TypeOK`, `CancelledNeverWorks`, `SpendBound`, `ReusedIsSound` | `CallsEnd` |
| `plans` | `TypeOK`, `DoneIsTrue`, `DepsRespected` | `NotRedone` |
| `schedule` | `TypeOK`, `OnSlots`, `OncePerSlot` | `Rescheduled` |
| `clients` | `TypeOK`, `NeverLeaksServer`, `DiagnosticsAreFresh` | `CallsAreKept` (refinement), `Settles` |

Each is stated in words above its definition. Some say less than one might hope,
because the code does less:

* the spend of a run may pass its cap by almost two calls, that of an orchestration by
  almost `MaxConcurrency` attempts;
* a step of a mission may be run by two terminals at once, so the counting
  properties speak of drives that do not overlap;
* a lost commit may cost work that the lanes report as merged, so the two completeness
  properties of Swarm then only bound the content from above;
* two processes that cross on a control file, a sidecar or a job file lose each other's
  writes: nothing is locked. `CancelledNeverWorks`, `NotRedone` and `OncePerSlot` say so in
  their premise (`crossed`, `overlap`, `clash`), and the premise is set by the crossing
  itself, not by the loss;
* a sidecar found unreadable forgets the dependencies and what was done (`lost`);
* a build that fell back to one gated run is settled done whatever came of the run
  (`blind`);
* a lane whose diff conflicted, or was declined or reverted, is still `done` in the
  manifest, and a resume reuses it (`unlanded`), as `planResume` documents;
* a file deleted and created again starts again at version 1, and a wave of its
  earlier life passes for a fresh one (`ReopenedSince`).

For every property of a passing run, `PROJECT.json` names a mutant: a definition
and the form a plausible bug would give it, under which TLC finds the property
violated. The mutants stand in the modules just before the definition they
replace, and nothing else uses them.

### Fairness

* `LocalRun`: `WF(Engine)`: model calls time out and commands exit, so every await
  that does not wait for a person settles. `AttendedSpec` adds `WF(Reply)`: the
  user of a front end answers what is shown. Nothing makes a user cancel or answer
  late. `Terminates` excludes the state in which a tool's question was announced to
  nobody (`Unheard`).
* `Mission`: `WF(Drives(t))` for each terminal: executors and the reassessor answer.
  Crashes, aborts and offers are not fair.
* `Swarm`: `WF(Step)`: lanes, graders and gates are bounded agents or commands. One
  condition for the whole call is enough, since each of its steps brings it closer
  to its end.
* `SwarmFlow`: weak fairness of the lanes' steps and the fan-in taken together (a turn of
  an agent ends, a hold polls), and of a controller that has begun to write. Nothing
  makes a user clear a pause: `CallsEnd` speaks of calls that are not paused, or
  aborted.
* `Schedule`: `WF(Work(d))` for each daemon: its timers fire and `startRun` settles. A
  daemon may be stopped; `Rescheduled` then asks nothing.
* `LspSession`: each call's timer, the waiter's timer and the continuation of a settled
  wait. Nothing is asked of the server or of the transport.
* `Plans` states none: its properties are about safety.

## Proofs

| Theorem | Says |
|---|---|
| `LocalRunProofs!TypeCorrect` | `Spec => []TypeOK` |
| `LocalRunProofs!BudgetIsFinal` | a denied call ends the run as failed, and the spend stays below the cap plus two calls |
| `LocalRunProofs!GatesHold` | no phase after a required approval without a yes |
| `LocalRunProofs!WakeupsAreKept` | a waiting engine has its question parked or its answer ready |
| `LocalRunProofs!CancelledStops` | a run cancelled before its last phase never completes |
| `LocalRunProofs!PatchOnce` | the collected diff is applied at most once |
| `LocalRunProofs!CompletionIsVerified` | a completed run has no refuted claim |
| `LocalRunProofs!NothingRunsUngated` | a command or an edit runs only if allowed, or asked about and answered yes |
| `LocalRunProofs!DeniedLeavesNoTrace` | what is denied has never run |
| `LocalRunProofs!RunsAdvance` | every step of the engine takes the run forward |
| `LocalRunProofs!RunsStayWithinWorkflow` | what `RunsAdvance` counts is bounded |
| `MissionProofs!MissionTypes` | `Spec => []TypeOK` |
| `MissionProofs!DependenciesHold` | dependencies first, in every copy of the plan |
| `MissionProofs!SplicesJoin` | a splice never meets a cycle |
| `MissionProofs!CheckpointHolds` | a lone driver's mission is on disk, or the file is unreadable |
| `MissionProofs!LimitsAreKept` | attempts over all resumptions, and the spend of a drive, are bounded |
| `MissionProofs!NothingStranded` | a mission that runs dry has no pending step, unless a crash cut one |
| `MissionProofs!CrashIsTheOnlyWay` | without a crash, a completed mission holds no step cut in half |
| `MissionProofs!HistoryIsKept` | no step, attempt or cent is lost; only the judged step's verdict changes |
| `MissionProofs!DrivesGetOn` | every event of a drive takes it nearer to its end |
| `SwarmProofs!SwarmTypes` | `Spec => []TypeOK`, with the bound on attempts |
| `SwarmProofs!LastAttemptOnly` | a lane's diff is its last attempt's alone |
| `SwarmProofs!WavesBuildOn` | a wave starts from exactly the merged work before it |
| `SwarmProofs!DiffIsMerged` | `mergedDiff` holds exactly the work reported as merged |
| `SwarmProofs!ConditionsStand` | a lane's condition holds of the final results of its dependencies |
| `SwarmProofs!NoTreeLeft` | a call that ends by itself leaves no worktree behind |
| `SwarmProofs!SwarmImplementsDag` | `Spec => LanesAreDriven`: the executors implement `LaneDag` |
| `SwarmProofs!PoolNeverStalls` | at most `MaxConcurrency` lanes at work, and no idle pool while one is ready |
| `SwarmProofs!CallsAdvance` | every step of a call takes it forward |
| `SwarmProofs!CallsStayWithinPlan` | what `CallsAdvance` counts is bounded |
| `SwarmFlowProofs!FlowTypeCorrect` | `Spec => []TypeOK` |
| `SwarmFlowProofs!BudgetBinds` | the overshoot of an orchestration's cap is bounded by the lanes in flight |
| `SwarmFlowProofs!ReuseIsSound` | a resume reuses no lane that depends on one it runs again |
| `SwarmFlowProofs!CancelledLanesRest` | a lane cancelled while held never works, unless writers cross |
| `SwarmFlowProofs!ResumeRunsTheLeast` | a resume runs the smallest set the unfinished and edited lanes call for |
| `SwarmFlowProofs!WavesTakeTurns` | a lane begins once the earlier waves of the call are over |
| `SwarmFlowProofs!LanesKeepAdvancing` | a lane only goes on: rounds, then its end |
| `PlansProofs!PlanTypeCorrect` | `Spec => []TypeOK` |
| `PlansProofs!CheckpointIsTrue` | what the sidecar says is done is finished in the tree |
| `PlansProofs!DependenciesFirst` | steps are executed on top of the work they depend on |
| `PlansProofs!ResumeDoesNotRedo` | what is recorded done is not run again (an action property) |
| `PlansProofs!StatusIsTrue` | a gate's plan marked executed has every step's work in the tree |
| `PlansProofs!PhasesAreOrdered` | a step of a gate's plan is executed over the earlier phases' work |
| `PlansProofs!DrivesAdvance` | a drive un-settles nothing and goes from phase to later phase |
| `ScheduleProofs!ScheduleTypeCorrect` | `Spec => []TypeOK` |
| `ScheduleProofs!NoSlotTwice` | a slot is fired twice only after a clash |
| `ScheduleProofs!SlotsAreKept` | a job's next slot is always one of its creation's, after its last run |
| `ScheduleProofs!NoSlotPassedOver` | without a clash a slot changes when due, to the first one after the tick |
| `ScheduleProofs!PausesHold` | a job disabled between ticks stays disabled |
| `ClientProofs!ClientImplementsCalls` | `RpcSpec => CallsAreKept`: the clients implement `RpcCalls` |
| `ClientProofs!McpNeverLeaksServer` | a failed or closed MCP client leaves no server running |
| `ClientProofs!SessionRefinesClient` | every behaviour of a session is one of `RpcClient` |
| `ClientProofs!FreshDiagnostics` | diagnostics are the last edit's |
| `ClientProofs!ClientTypeCorrect` | `Spec => []TypeOK` |
| `ClientProofs!CallsSettleOnce` | a call settles once, whatever the server sends |
| `ClientProofs!NoCallForgotten` | a call waits exactly as long as the pending map holds it |
| `ClientProofs!NoResultInvented` | no call comes to a result the server has not answered |

They hold for all constants that satisfy the named assumptions of the modules
(workflows are sequences of phases, plans are DAGs, costs are bounded, a wave
holds lanes whose dependencies are in earlier waves, and the like), which TLC
evaluates on every run. Four theorems assume more, in their statement:
`ClientImplementsCalls` that no MCP server sends requests of its own (the run
`mcp_server_request` shows that it must), `FreshDiagnostics` that the server stamps its
publications with a version (without stamps the code accepts any wave),
`CrashIsTheOnlyWay` that no terminal crashes, and `PausesHold` that a job is disabled
while no daemon holds it as due. The last two are companions of the findings
`mission_resume` and `schedule_pause`: the run shows the failure, the theorem that, as
long as drives do not overlap and processes do not cross, what its counterexample uses is
the only way to it. `NoResultInvented` says the same of
`mcp_server_request` from the other side: what a confused server cannot do to a call.

* *LocalRun.* `TypeOK` is not inductive: at most control points the engine reads the
  current phase, and only `Control` says that there is one and of which type. With
  it, `TypeInv` is inductive; the budget, gate, bridge, cancellation, apply and
  evidence invariants are each proved from it with a strengthening of their own.
  `PermInv` adds that what is asked about or runs has been gated.
* *Mission.* `Coherent` says of every copy, on disk or in memory, that dependencies
  are steps of the plan, that whatever started has settled dependencies, and that
  the plan is a DAG. A retry or an escalation takes a settled status back, so the
  invariant also says that no started step needs the one being run
  (`NoStartedNeeds`); two terminals may overlap. Acyclicity is the existence of a
  numbering; a splice is numbered after the plan, which is why dropping
  the dependencies it has not reached makes every splice acceptable. The limits rest
  on `LimitInv`: every copy keeps attempts in hand for what may still run
  (`BoundedCopies`), and without an overlap one terminal drives at a time and the
  attempts its copy remembers, and the disk's, are no fewer than the calls made
  (`Lone`). Every event of a drive but the start of a step changes the plan in one way
  (`Moves`, `Evolves`), so the invariant is carried once for all of them.
  That no step is stranded needs acyclicity again: of the pending steps, one in the
  lowest wave waits for nothing pending. Without crashes a step is marked running only in
  the copy of the terminal that executes it (`OwnStepRuns`), so no copy a lone terminal
  can resume holds one.
* *Swarm.* `LaneOK` ties a lane's edits and attempt to its stage. A wave's lanes are
  taken up when the wave begins, so `Ahead` says that the lanes of the waves to come
  are still untouched, for which the proof uses that a lane is in one wave only.
  `Contents` says of each of the three contents (merge worktree, tip, base) which lanes'
  work it may hold at each point of a wave (`Sound`) and, unless a commit failed, that it
  holds all of it (`Complete`); a lane the fan-in has yet to come to (`Open`) is in none.
  Stages change in the current wave alone (`Busy`), and dependencies are in earlier
  ones, so a condition once judged stands (`Judged`). The
  refinement needs the other side of `Ahead`: the lanes of the waves that were fanned in
  have settled (`Behind`). Together they place every dependency: of a lane being taken up
  it has settled, and what needs a lane of the wave the gate undoes is still waiting. That
  the pool never stalls needs that the set-up put every lane of the wave in hand
  (`InHand`) and that the lanes at work never exceed the pool.
* *SwarmFlow.* Two inductive invariants. `IInv` adds to the budget bound that at most
  `MaxConcurrency` lanes are busy (`PoolBound`): a lane that passes its gate below the cap
  adds one attempt to the bound, and the pool is what limits how many do; and that a lane
  done in the manifest is in the tree or known not to have landed (`DoneIsKnown`).
  `CInv` is about cancellation: without a crossing at most one controller is between its
  read and its write (`OneWriter`), so a cancellation once written stays in the file, and
  a halted lane is held or has settled without work (`HaltedLanes`).
* *Plans.* `TruthInv` carries the truth of a step's `done` through every copy: memory,
  buffer, sidecar. `LinkInv` says that copies with the dependencies stay
  with them as long as the sidecar was never found unreadable; `LoneInv` that the one
  shell that drives a plan knows all that is recorded.
* *Schedule.* `PlacesOK` ties what a daemon holds to its place. Without a clash only one
  process is inside its read-and-write span (`Alone`), and the next slot of a job in the
  file lies after the last one fired for it (`FilePast`, `DuePast`). That a job keeps to its slots rests on what every copy of it,
  listed, due or about to be written, satisfies (`AInv`), and on the arithmetic of
  `advanceJob`: the first multiple of the period after the clock, and the residue of a
  time of day (`AdvanceAnchored`).
* *Clients.* The mapping sends the five ways a promise can fail to one and both kinds of
  result to "answered". The invariant under it says that ids are given out once, that
  pending calls are the open ones, and that a message on its way answers its own id. A
  session's diagnostics are fresh because versions grow with the texts of one life of
  the file.

### Progress

Liveness is out of this prover's reach together with anything about `ENABLED`, so
`Terminates`, `CallsEnd`, `Settles` and `Rescheduled` stay with TLC. What they rest on is
proved for every value of the constants. A component that takes its
steps comes to an end because each of them moves a bounded measure one way, and the
measure is what is easy to break: by a retry that forgets its count, a rollback that
reopens a wave, a splice that adds steps without an execution. `RunsAdvance`, `DrivesGetOn`,
`CallsAdvance`, `LanesKeepAdvancing` and `DrivesAdvance` (of `PlansProofs`) say that no
step takes its run, drive, call or lane back; `RunsStayWithinWorkflow`,
`CallsStayWithinPlan` and the type invariants bound the measure. `PoolNeverStalls` and
`NoCallForgotten` say that what waits is waited for by somebody: a lane by a worker, a
call by the pending map. What is not proved, and is TLC's, is that the enabled step is
taken.

## Not modelled

Most of the repository's lines are not about order or state: the terminal
interface and its two languages, the formats of model providers, prompts, adapters
of remote APIs, scanning, ranking, parsing and rendering of files. A model of them
would be a second program, so the modules here cover the small part of the lines
in which several actors meet, and the map is a small share of the whole by design. The table of
components in `PROJECT.json` gives the reason for each part.

Of the components that are modelled, these parts are left out: event buffering and framing of the
run handle, the artifacts and the git publication of a run, compaction inside the
agent loop, the strategist and the executors of a mission, how the size of a swarm's
pool is chosen, a failing checkpoint of a mission that leaves the older one (a
cut-short write is modelled), the decomposition, lane schemas and panel of an
orchestration, the markdown of a plan, framing and installation of servers.

Two hazards that are listed belong to components without a module: the turn count of a
session (`session-store.ts`), raised after the turn is appended, and the respawning
supervisor of the interactive session, which counts fast deaths of its child.

## What could follow

`SessionStore` (turns and their numbers over crashes and two processes), `Fleet` (focus,
interruption and respawn of the interactive session), and a composition of `Plans` with
`SwarmFlow` for a batch of a plan that is itself an orchestration.
