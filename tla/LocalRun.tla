------------------------------ MODULE LocalRun ------------------------------
(***************************************************************************)
(* One local run: the workflow engine (class LocalRunExecution of          *)
(* packages/core/src/engine/execute-local-run.ts) with the native agent    *)
(* loop it drives and the run handle of RunController in front of it.      *)
(*                                                                         *)
(* The engine is one async function: every action below is what it does    *)
(* between two awaits.  A client of the handle (approve, cancel) acts at   *)
(* any await, which is where the interesting interleavings are.            *)
(***************************************************************************)
EXTENDS RunController, Sequences

CONSTANTS
    Workflows,     \* workflow definitions (sequences of phases) to run
    Commands,      \* the shell commands that occur
    Tools,         \* what an agent may call: commands and "edit"
    GateOf,        \* PermissionEngine's verdict on a command or on "edit"
    Configured,    \* config.commands.test and .build
    Typecheck,     \* config.commands.typecheck, as a set of at most one
    Fronts,        \* front ends: TRUE, the controller's confirm; FALSE, none (-y)
    HasCap, Cap,   \* the run's budget ceiling in cents, if it has one
    Costs, MaxCost,\* what one model call may cost, and its upper bound
    MeshMode,      \* config.verification.mesh
    MaxIterations, \* MAX_ITERATIONS of the native agent loop
    MaxToolCalls,  \* bound: tool calls in one model answer
    MaxStale       \* bound: decisions clients send about an earlier question

PhaseTypes == {"chat", "review", "patch", "agent_work", "commands",
               "human_approval", "apply_patch", "note"}

Phase == [type      : PhaseTypes,
          onFailure : {"abort", "continue", "retry"},
          retries   : Nat,
          required  : BOOLEAN,
          commands  : Seq(Commands)]

ASSUME WorkflowsAssumption == Workflows \subseteq Seq(Phase)
ASSUME ToolsAssumption ==
    /\ Tools \subseteq Commands \cup {"edit"}
    /\ GateOf \in [Commands \cup {"edit"} -> {"deny", "ask", "allow"}]
    /\ Configured \subseteq Commands
    /\ Typecheck \subseteq Commands
    /\ Fronts \subseteq BOOLEAN
    /\ MeshMode \in {"off", "auto", "always"}
ASSUME BudgetAssumption ==
    /\ HasCap \in BOOLEAN
    /\ Cap \in Nat
    /\ MaxCost \in Nat \ {0}
    /\ Costs \subseteq 0 .. MaxCost
ASSUME BoundsAssumption ==
    /\ MaxIterations \in Nat
    /\ MaxToolCalls \in Nat
    /\ MaxStale \in Nat

VARIABLES
    wf,        \* the workflow being run
    remote,    \* confirm is the run handle's bridge
    pc,        \* where the engine is: between awaits, or at which await
    ph,        \* index of the current (or next) phase
    attempt,   \* attempt at the current phase
    item,      \* next command of the phase; tool calls left in the agent's turn
    iter,      \* iterations of the agent loop
    tool,      \* the command or tool being gated or run
    why,       \* what the question being asked gates
    asked,     \* questions asked so far
    announced, \* questions announced by an approval_requested event
    spent,     \* spentCents
    diff,      \* collectedDiff: none, or whether its added lines hold a secret
    inTree,    \* the working tree already contains collectedDiff
    mutated,   \* the current agent has edited the tree
    exits,     \* commandExits: last exit of each command that ran
    lsp,       \* diagnostics gathered after an apply
    claimBlocked, \* the claim ledger's verdict
    status,    \* run.json's status
    denied,    \* ghost: the budget cap has denied a call
    granted,   \* ghost: the human_approval phases answered "yes"
    cancelPh,  \* ghost: the phase that was current at the first cancel, or 0
    applies,   \* ghost: how often the collected diff was applied
    stale      \* bound: stale decisions sent so far

fixed      == <<wf, remote>>
budgetVars == <<spent, denied>>
workVars   == <<diff, inTree, mutated, exits, lsp, applies>>
loopVars   == <<attempt, item, iter, tool, why>>
askVars    == <<asked, announced>>
clientVars == <<cancelPh, stale>>
endVars    == <<claimBlocked, status, granted>>

vars == <<fixed, pc, ph, loopVars, askVars, budgetVars, workVars, endVars,
          clientVars, bridgeVars>>

ThePhase == wf[ph]
Final == {"completed", "failed", "cancelled"}
HasReview == \E i \in 1 .. Len(wf) : wf[i].type = "review"

Init ==
    /\ wf \in Workflows /\ remote \in Fronts
    /\ pc = "start" /\ status = "created"
    /\ ph = 1 /\ attempt = 1 /\ item = 0 /\ iter = 0
    /\ tool = "edit" /\ why = "none"
    /\ asked = 0 /\ announced = {}
    /\ spent = 0 /\ denied = FALSE
    /\ diff = "none" /\ inTree = FALSE /\ mutated = FALSE /\ applies = 0
    /\ exits = [c \in Commands |-> "none"] /\ lsp = "none"
    /\ claimBlocked = FALSE /\ granted = {}
    /\ cancelPh = 0 /\ stale = 0
    /\ BridgeInit

-----------------------------------------------------------------------------
(* The steps every phase shares.                                           *)

Goto(l) == pc' = l

(* The phase is over (phase_completed): on to the next boundary. *)
PhaseOver ==
    /\ ph' = ph + 1
    /\ Goto("boundary")

(* The attempt threw: retry, give up and go on, or fail the run. *)
Attempts == IF ThePhase.onFailure = "retry" THEN 1 + ThePhase.retries ELSE 1

AttemptThrows ==
    \/ /\ attempt < Attempts
       /\ attempt' = attempt + 1
       /\ Goto("exec")
       /\ UNCHANGED <<ph, item, iter, tool, why>>
    \/ /\ attempt >= Attempts
       /\ ThePhase.onFailure = "continue"
       /\ PhaseOver
       /\ UNCHANGED loopVars
    \/ /\ attempt >= Attempts
       /\ ThePhase.onFailure # "continue"
       /\ Goto("caught")
       /\ UNCHANGED <<ph, loopVars>>

Finish(s) ==
    /\ status' = s
    /\ Goto("done")

OverCap == HasCap /\ spent >= Cap

(* A model call returned and is charged. *)
Charge(c) == spent' = spent + c

-----------------------------------------------------------------------------
(* The run's life: start, the phase loop, the gates, the end.              *)

Start ==
    /\ pc = "start"
    /\ status' = "running"
    /\ Goto("building")
    /\ UNCHANGED <<fixed, ph, loopVars, askVars, budgetVars, workVars,
                   claimBlocked, granted, clientVars, bridgeVars>>

(* Building the effective instructions may throw. *)
Build ==
    /\ pc = "building"
    /\ \E l \in {"boundary", "caught"} : Goto(l)
    /\ UNCHANGED <<fixed, ph, loopVars, askVars, budgetVars, workVars, endVars,
                   clientVars, bridgeVars>>

BoundaryCancelled ==
    /\ pc = "boundary"
    /\ ph <= Len(wf)
    /\ aborted
    /\ Finish("cancelled")
    /\ UNCHANGED <<fixed, ph, loopVars, askVars, budgetVars, workVars,
                   claimBlocked, granted, clientVars, bridgeVars>>

(* Mutant: the abort signal is not looked at between phases. *)
StartPhaseUnchecked ==
    /\ pc = "boundary"
    /\ ph <= Len(wf)
    /\ attempt' = 1
    /\ Goto("exec")
    /\ UNCHANGED <<fixed, ph, item, iter, tool, why, askVars, budgetVars,
                   workVars, endVars, clientVars, bridgeVars>>

StartPhase ==
    /\ pc = "boundary"
    /\ ph <= Len(wf)
    /\ ~aborted
    /\ attempt' = 1
    /\ Goto("exec")
    /\ UNCHANGED <<fixed, ph, item, iter, tool, why, askVars, budgetVars,
                   workVars, endVars, clientVars, bridgeVars>>

TypeErrors ==
    IF \E c \in Typecheck : exits[c] # "none"
    THEN \E c \in Typecheck : exits[c] = "fail"
    ELSE lsp = "errors"

(* ledgerBlocks: a refuted claim about tests, build, types or secrets. *)
LedgerBlocks ==
    \/ \E c \in Configured : exits[c] = "fail"
    \/ TypeErrors
    \/ diff = "leaky"

MeshRuns ==
    /\ MeshMode # "off"
    /\ diff # "none"
    /\ HasReview \/ MeshMode = "always"

Gates ==
    /\ pc = "boundary"
    /\ ph > Len(wf)
    /\ claimBlocked' = LedgerBlocks
    /\ \/ MeshRuns /\ Goto("mesh") /\ UNCHANGED status
       \/ ~MeshRuns /\ Finish(IF LedgerBlocks THEN "failed" ELSE "completed")
    /\ UNCHANGED <<fixed, ph, loopVars, askVars, budgetVars, workVars, granted,
                   clientVars, bridgeVars>>

(* Mutant: the mesh's verdict replaces the claim ledger's. *)
MeshReturnsAlone ==
    /\ pc = "mesh"
    /\ \E high \in BOOLEAN : Finish(IF high THEN "failed" ELSE "completed")
    /\ UNCHANGED <<fixed, ph, loopVars, askVars, budgetVars, workVars,
                   claimBlocked, granted, clientVars, bridgeVars>>

(* The lenses' calls are neither checked against the cap nor charged, and  *)
(* one that fails blocks nothing.                                          *)
MeshReturns ==
    /\ pc = "mesh"
    /\ \E high \in BOOLEAN :
          Finish(IF claimBlocked \/ high THEN "failed" ELSE "completed")
    /\ UNCHANGED <<fixed, ph, loopVars, askVars, budgetVars, workVars,
                   claimBlocked, granted, clientVars, bridgeVars>>

Caught ==
    /\ pc = "caught"
    /\ Finish("failed")
    /\ UNCHANGED <<fixed, ph, loopVars, askVars, budgetVars, workVars,
                   claimBlocked, granted, clientVars, bridgeVars>>

-----------------------------------------------------------------------------
(* Phases that make one model call, and phases that make none.             *)

IsChat(p) == p.type \in {"chat", "review", "patch"}

NotePhase ==
    /\ pc = "exec"
    /\ ThePhase.type = "note"
    /\ PhaseOver
    /\ UNCHANGED <<fixed, loopVars, askVars, budgetVars, workVars, endVars,
                   clientVars, bridgeVars>>

ChatDenied ==
    /\ pc = "exec"
    /\ IsChat(ThePhase)
    /\ OverCap
    /\ denied' = TRUE
    /\ Goto("caught")
    /\ UNCHANGED <<fixed, ph, loopVars, askVars, spent, workVars,
                   endVars, clientVars, bridgeVars>>

ChatCall ==
    /\ pc = "exec"
    /\ IsChat(ThePhase)
    /\ ~OverCap
    /\ Goto("chatting")
    /\ UNCHANGED <<fixed, ph, loopVars, askVars, budgetVars, workVars, endVars,
                   clientVars, bridgeVars>>

ChatReturns ==
    /\ pc = "chatting"
    /\ \E c \in Costs : Charge(c)
    /\ \/ /\ ThePhase.type = "patch"
          /\ diff' \in {"clean", "leaky"}
          /\ inTree' = FALSE
          /\ applies' = 0
       \/ /\ ThePhase.type # "patch"
          /\ UNCHANGED <<diff, inTree, applies>>
    /\ PhaseOver
    /\ UNCHANGED <<fixed, loopVars, askVars, denied, mutated, exits, lsp, endVars,
                   clientVars, bridgeVars>>

ChatFails ==
    /\ pc = "chatting"
    /\ AttemptThrows
    /\ UNCHANGED <<fixed, askVars, budgetVars, workVars, endVars, clientVars,
                   bridgeVars>>

-----------------------------------------------------------------------------
(* agent_work: the native tool loop.  Whatever way it ends, short of the   *)
(* budget cap, the phase completes.                                        *)

AgentStart ==
    /\ pc = "exec"
    /\ ThePhase.type = "agent_work"
    /\ iter' = 0
    /\ mutated' = FALSE
    /\ Goto("agent")
    /\ UNCHANGED <<fixed, ph, attempt, item, tool, why, askVars, budgetVars, diff,
                   inTree, exits, lsp, applies, endVars, clientVars, bridgeVars>>

(* maybeEmitPatch: the tree's diff, already applied, becomes collectedDiff. *)
AgentEnds ==
    /\ \/ /\ mutated
          /\ diff' \in {"clean", "leaky"}
          /\ inTree' = TRUE
          /\ applies' = 1
       \/ UNCHANGED <<diff, inTree, applies>>
    /\ PhaseOver

AgentStops ==
    /\ \/ pc = "agent" /\ (aborted \/ iter = MaxIterations)
       \/ pc = "tools" /\ item > 0 /\ aborted
    /\ AgentEnds
    /\ UNCHANGED <<fixed, loopVars, askVars, budgetVars, mutated, exits, lsp,
                   endVars, clientVars, bridgeVars>>

(* Mutant: one iteration too many. *)
AgentCallOnceMore ==
    /\ pc = "agent"
    /\ ~aborted
    /\ iter <= MaxIterations
    /\ Goto("agentCalling")
    /\ UNCHANGED <<fixed, ph, loopVars, askVars, budgetVars, workVars, endVars,
                   clientVars, bridgeVars>>

AgentCall ==
    /\ pc = "agent"
    /\ ~aborted
    /\ iter < MaxIterations
    /\ Goto("agentCalling")
    /\ UNCHANGED <<fixed, ph, loopVars, askVars, budgetVars, workVars, endVars,
                   clientVars, bridgeVars>>

(* Mutant: the agent's calls are charged and never held against the cap. *)
NeverReached(c) == FALSE

CapReachedBy(c) == HasCap /\ spent + c >= Cap

(* The call is charged after it returns, and only then is the cap checked. *)
AgentReturns ==
    /\ pc = "agentCalling"
    /\ \E c \in Costs :
        /\ Charge(c)
        /\ \/ /\ CapReachedBy(c)
              /\ denied' = TRUE
              /\ Goto("caught")
              /\ UNCHANGED <<ph, item, diff, inTree, applies>>
           \/ /\ ~CapReachedBy(c)
              /\ UNCHANGED denied
              /\ \/ AgentEnds /\ UNCHANGED item
                 \/ /\ item' \in 1 .. MaxToolCalls
                    /\ Goto("tools")
                    /\ UNCHANGED <<ph, diff, inTree, applies>>
    /\ UNCHANGED <<fixed, attempt, iter, tool, why, askVars, mutated, exits, lsp,
                   endVars, clientVars, bridgeVars>>

(* A provider error, an abort of the call included, ends the loop. *)
AgentCallFails ==
    /\ pc = "agentCalling"
    /\ AgentEnds
    /\ UNCHANGED <<fixed, loopVars, askVars, budgetVars, mutated, exits, lsp,
                   endVars, clientVars, bridgeVars>>

(* Mutant: iterations are not counted. *)
TurnOverUncounted ==
    /\ pc = "tools"
    /\ item = 0
    /\ Goto("agent")
    /\ UNCHANGED <<fixed, ph, loopVars, askVars, budgetVars, workVars, endVars,
                   clientVars, bridgeVars>>

TurnOver ==
    /\ pc = "tools"
    /\ item = 0
    /\ iter' = iter + 1
    /\ Goto("agent")
    /\ UNCHANGED <<fixed, ph, attempt, item, tool, why, askVars, budgetVars,
                   workVars, endVars, clientVars, bridgeVars>>

ToolCall ==
    /\ pc = "tools"
    /\ item > 0
    /\ ~aborted
    /\ tool' \in Tools
    /\ item' = item - 1
    /\ why' = "tool"
    /\ \/ GateOf[tool'] = "deny" /\ Goto("tools")
       \/ GateOf[tool'] = "ask" /\ Goto("asking")
       \/ GateOf[tool'] = "allow" /\ Goto("running")
    /\ UNCHANGED <<fixed, ph, attempt, iter, askVars, budgetVars, workVars, endVars,
                   clientVars, bridgeVars>>

-----------------------------------------------------------------------------
(* command_group, and running a command or an edit.                        *)

CommandsStart ==
    /\ pc = "exec"
    /\ ThePhase.type = "commands"
    /\ item' = 1
    /\ Goto("commands")
    /\ UNCHANGED <<fixed, ph, attempt, iter, tool, why, askVars, budgetVars,
                   workVars, endVars, clientVars, bridgeVars>>

CommandsOver ==
    /\ pc = "commands"
    /\ item > Len(ThePhase.commands)
    /\ PhaseOver
    /\ UNCHANGED <<fixed, loopVars, askVars, budgetVars, workVars, endVars,
                   clientVars, bridgeVars>>

CommandGate ==
    /\ pc = "commands"
    /\ item <= Len(ThePhase.commands)
    /\ tool' = ThePhase.commands[item]
    /\ item' = item + 1
    /\ why' = "command"
    /\ \/ GateOf[tool'] = "deny" /\ Goto("commands")
       \/ GateOf[tool'] = "ask" /\ Goto("asking")
       \/ GateOf[tool'] = "allow" /\ Goto("running")
    /\ UNCHANGED <<fixed, ph, attempt, iter, askVars, budgetVars, workVars, endVars,
                   clientVars, bridgeVars>>

Caller == IF why = "tool" THEN "tools" ELSE "commands"

(* captureClaimEvidence keeps the last exit of a command that really ran. *)
RecordExit(c, e) == exits' = [exits EXCEPT ![c] = e]

CommandExits ==
    /\ pc = "running"
    /\ tool \in Commands
    /\ \E e \in {"pass", "fail"} : RecordExit(tool, e)
    /\ Goto(Caller)
    /\ UNCHANGED <<fixed, ph, loopVars, askVars, budgetVars, diff, inTree, mutated,
                   lsp, applies, endVars, clientVars, bridgeVars>>

EditReturns ==
    /\ pc = "running"
    /\ tool = "edit"
    /\ mutated' \in {mutated, TRUE}
    /\ Goto(Caller)
    /\ UNCHANGED <<fixed, ph, loopVars, askVars, budgetVars, diff, inTree, exits,
                   lsp, applies, endVars, clientVars, bridgeVars>>

-----------------------------------------------------------------------------
(* Questions.                                                              *)

ApprovalStart ==
    /\ pc = "exec"
    /\ ThePhase.type = "human_approval"
    /\ why' = "approval"
    /\ Goto("asking")
    /\ UNCHANGED <<fixed, ph, attempt, item, iter, tool, askVars, budgetVars,
                   workVars, endVars, clientVars, bridgeVars>>

ApplyStart ==
    /\ pc = "exec"
    /\ ThePhase.type = "apply_patch"
    /\ \/ diff = "none" /\ PhaseOver /\ UNCHANGED why
       \/ diff # "none" /\ why' = "apply" /\ Goto("asking") /\ UNCHANGED ph
    /\ UNCHANGED <<fixed, attempt, item, iter, tool, askVars, budgetVars, workVars,
                   endVars, clientVars, bridgeVars>>

(* Without a confirm callback every question is approved at once. *)
AskAuto ==
    /\ pc = "asking"
    /\ ~remote
    /\ answer' = "yes"
    /\ asked' = asked + 1
    /\ announced' = IF why = "tool" THEN announced ELSE announced \cup {asked + 1}
    /\ Goto("waiting")
    /\ UNCHANGED <<fixed, ph, loopVars, budgetVars, workVars, endVars, clientVars,
                   pending, buffered, aborted>>

(* confirm(): only the engine's own wrapper emits approval_requested; the  *)
(* agent's tools call the callback directly.                               *)
Ask ==
    /\ pc = "asking"
    /\ remote
    /\ Confirm(asked + 1)
    /\ asked' = asked + 1
    /\ announced' = IF why = "tool" THEN announced ELSE announced \cup {asked + 1}
    /\ Goto("waiting")
    /\ UNCHANGED <<fixed, ph, loopVars, budgetVars, workVars, endVars, clientVars>>

(* A listener answers, or cancels, inside the approval_requested event. *)
AskAnswered ==
    /\ pc = "asking"
    /\ remote
    /\ why # "tool"
    /\ asked' = asked + 1
    /\ announced' = announced \cup {asked + 1}
    /\ \/ /\ \E d \in Decisions : ConfirmAnswered(d)
          /\ UNCHANGED <<aborted, cancelPh>>
       \/ /\ ConfirmAnswered("no")
          /\ aborted' = TRUE
          /\ cancelPh' = IF aborted THEN cancelPh ELSE ph
    /\ Goto("waiting")
    /\ UNCHANGED <<fixed, ph, loopVars, budgetVars, workVars, endVars, stale>>

(* The awaited promise is resolved and the engine takes the answer. *)
Resume(kind) ==
    /\ pc = "waiting"
    /\ why = kind
    /\ answer # "none"
    /\ answer' = "none"
    /\ UNCHANGED <<pending, buffered, aborted>>

ResumeCommand ==
    /\ \E kind \in {"tool", "command"} : Resume(kind)
    /\ Goto(IF answer = "yes" THEN "running" ELSE Caller)
    /\ UNCHANGED <<fixed, ph, loopVars, askVars, budgetVars, workVars, endVars,
                   clientVars>>

(* Mutant: required and optional are swapped. *)
RequiredSwapped(p) == ~p.required

(* A denied approval cancels the run unless the phase is optional. *)
Required(p) == p.required

ResumeApproval ==
    /\ Resume("approval")
    /\ \/ /\ answer = "yes"
          /\ granted' = granted \cup {ph}
          /\ PhaseOver
          /\ UNCHANGED status
       \/ /\ answer = "no" /\ ~Required(ThePhase)
          /\ PhaseOver
          /\ UNCHANGED <<status, granted>>
       \/ /\ answer = "no" /\ Required(ThePhase)
          /\ Finish("cancelled")
          /\ UNCHANGED <<ph, granted>>
    /\ UNCHANGED <<fixed, loopVars, askVars, budgetVars, workVars, claimBlocked,
                   clientVars>>

(* Mutant: no pre-flight check. *)
CheckNothing == TRUE

(* git apply --check: a tree that already has the diff takes it no more.   *)
CheckApplies == ~inTree

ApplyPatch ==
    /\ CheckApplies
    /\ inTree' = TRUE
    /\ applies' = applies + 1
    /\ lsp' \in {lsp, "errors", IF lsp = "none" THEN "clean" ELSE lsp}
    /\ PhaseOver
    /\ UNCHANGED loopVars

ApplyThrows ==
    /\ CheckApplies
    /\ AttemptThrows
    /\ UNCHANGED <<inTree, applies, lsp>>

(* Declined, or the check fails: a non-fatal error event at most. *)
ApplySkipped ==
    /\ PhaseOver
    /\ UNCHANGED <<loopVars, inTree, applies, lsp>>

(* The answer to the apply question, with the pre-flight check, the apply  *)
(* and the diagnostics of the files it touched.                            *)
ResumeApply ==
    /\ Resume("apply")
    /\ \/ answer = "yes" /\ (ApplyPatch \/ ApplyThrows)
       \/ ApplySkipped
    /\ UNCHANGED <<fixed, askVars, budgetVars, diff, mutated, exits, endVars,
                   clientVars>>

-----------------------------------------------------------------------------
(* The clients of the run handle.                                          *)

engineVars == <<fixed, pc, ph, loopVars, askVars, budgetVars, workVars, endVars>>

(* The awaits at which other callbacks of the process run.  At "boundary"   *)
(* they stand for the awaits that end a phase (git, language server).      *)
Awaiting == pc \in {"building", "boundary", "chatting", "agent", "agentCalling",
                    "running", "waiting", "mesh", "done"}

(* A client that saw the parked question's announcement answers it. *)
Reply ==
    /\ Awaiting
    /\ pending \in announced
    /\ \E d \in Decisions : Approve(d)
    /\ UNCHANGED <<engineVars, clientVars, aborted>>

(* A second client, or a late one, answers a question already settled. *)
ReplyLate ==
    /\ Awaiting
    /\ stale < MaxStale
    /\ stale' = stale + 1
    /\ announced \ {pending} # {}
    /\ \E d \in Decisions : Approve(d)
    /\ UNCHANGED <<engineVars, cancelPh, aborted>>

(* A second cancel() would be one more "no" to whatever is pending. *)
Cancel ==
    /\ remote
    /\ Awaiting
    /\ ~aborted
    /\ CancelRun
    /\ cancelPh' = ph
    /\ UNCHANGED <<engineVars, stale>>

-----------------------------------------------------------------------------
Lifecycle == \/ Start \/ Build \/ BoundaryCancelled \/ StartPhase
             \/ Gates \/ MeshReturns \/ Caught
Chats     == NotePhase \/ ChatDenied \/ ChatCall \/ ChatReturns \/ ChatFails
Agent     == \/ AgentStart \/ AgentStops \/ AgentCall \/ AgentReturns
             \/ AgentCallFails \/ TurnOver \/ ToolCall
Shell     == CommandsStart \/ CommandsOver \/ CommandGate \/ CommandExits \/ EditReturns
Asking    == \/ ApprovalStart \/ ApplyStart \/ AskAuto \/ Ask \/ AskAnswered
             \/ ResumeCommand \/ ResumeApproval \/ ResumeApply

Engine  == Lifecycle \/ Chats \/ Agent \/ Shell \/ Asking
Clients == Reply \/ ReplyLate \/ Cancel

Finished == pc = "done" /\ UNCHANGED vars

Next == Engine \/ Clients \/ Finished

(* Every await of the engine that does not wait for a person settles: the  *)
(* gateway times its calls out and commands exit.                          *)
Spec == Init /\ [][Next]_vars /\ WF_vars(Engine)

(* A front end whose user eventually answers what it is shown. *)
AttendedSpec == Spec /\ WF_vars(Reply)

-----------------------------------------------------------------------------
(* Properties.                                                             *)

PCs == {"start", "building", "boundary", "exec", "chatting", "agent",
        "agentCalling", "tools", "commands", "running", "asking", "waiting",
        "mesh", "caught", "done"}

Flags ==
    /\ remote \in BOOLEAN /\ denied \in BOOLEAN
    /\ inTree \in BOOLEAN /\ mutated \in BOOLEAN
    /\ claimBlocked \in BOOLEAN
    /\ BridgeFlags

Values ==
    /\ wf \in Workflows
    /\ pc \in PCs
    /\ ph \in 1 .. Len(wf) + 1
    /\ attempt \in Nat /\ item \in Nat
    /\ iter \in 0 .. MaxIterations
    /\ tool \in Commands \cup {"edit"}
    /\ why \in {"none", "tool", "command", "approval", "apply"}
    /\ asked \in Nat /\ announced \subseteq 1 .. asked
    /\ spent \in Nat
    /\ diff \in {"none", "clean", "leaky"}
    /\ applies \in Nat
    /\ exits \in [Commands -> {"none", "pass", "fail"}]
    /\ lsp \in {"none", "clean", "errors"}
    /\ status \in {"created", "running"} \cup Final
    /\ granted \subseteq 1 .. Len(wf)
    /\ cancelPh \in 0 .. Len(wf) + 1 /\ stale \in 0 .. MaxStale
    /\ BridgeTypeOK

(* Every variable stays in its type; the phase index never leaves the      *)
(* workflow by more than one and the agent loop never passes its limit.    *)
TypeOK == Flags /\ Values

(* The hard cap stops the run: once it has denied a call no retry and no   *)
(* onFailure: continue lets the run go on, and it ends failed.             *)
BudgetStops == denied => pc \in {"caught", "done"} /\ status \in {"running", "failed"}

(* The spend of a capped run (the mesh's calls apart) stays below the cap  *)
(* plus two calls: the call that crosses it and, because the agent loop    *)
(* checks only after its call, one more.                                   *)
SpendBound == HasCap => spent < Cap + 2 * MaxCost

(* The hard cap holds: it is final, and it is passed by two calls at most. *)
BudgetHolds == BudgetStops /\ SpendBound

(* No phase beyond a required human approval is reached before that        *)
(* approval was answered "yes".                                            *)
GateHeld ==
    \A i \in 1 .. ph - 1 :
        wf[i].type = "human_approval" /\ wf[i].required => i \in granted

(* A waiting engine has its own question parked, or an answer to take: an  *)
(* answer is never lost between approve() and the promise it resolves.     *)
NoLostWakeup ==
    /\ pc = "waiting" => pending = asked \/ answer # "none"
    /\ pending # 0 => pc = "waiting" /\ pending = asked /\ answer = "none"
    /\ answer # "none" => pc = "waiting"

(* A run cancelled before its last phase began never ends completed.       *)
CancelledNeverCompletes ==
    cancelPh # 0 /\ status = "completed" => cancelPh >= Len(wf)

(* The collected diff is never applied to a tree that already has it.      *)
AppliedOnce == applies <= 1

(* A completed run has no refuted claim: the last test and build runs did  *)
(* not fail, no type errors are known and the diff leaks no secret.        *)
CompletedIsVerified ==
    status = "completed" =>
        /\ \A c \in Configured : exits[c] # "fail"
        /\ diff # "leaky"
        /\ \/ \E c \in Typecheck : exits[c] = "pass"
           \/ \A c \in Typecheck : exits[c] = "none" /\ lsp # "errors"

(* The question an agent's tool asks the handle is announced to no client. *)
Unheard == pending # 0 /\ pending \notin announced

(* Every run ends while its user answers what it is shown, unless it is    *)
(* stuck on a question nobody was shown.                                   *)
Terminates == <>(pc = "done" \/ Unheard)

(* run-controller.ts, RunHandle.cancel: "Cancel the run: unblock any       *)
(* pending approval (declined) and abort the loop": a cancelled run ends.  *)
CancelUnblocks == aborted ~> pc = "done"

=============================================================================
