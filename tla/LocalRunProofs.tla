--------------------------- MODULE LocalRunProofs ---------------------------
(***************************************************************************)
(* Proofs about LocalRun, for every set of workflows, every cap and every  *)
(* bound.  Control says which phase the engine is in at each control       *)
(* point; with TypeOK it is inductive, and the other invariants are proved *)
(* from it one by one.  The last two parts are about permissions, and      *)
(* about how each step of the engine takes a run towards its end.          *)
(***************************************************************************)
EXTENDS LocalRun, TLAPS

InPhase == {"exec", "chatting", "agent", "agentCalling", "tools", "commands",
            "running", "asking", "waiting"}
Questioning == {"asking", "waiting", "running"}

(* Where the engine is tells which phase it is in and what its counters    *)
(* may be.                                                                 *)
Control ==
    /\ pc \in InPhase => ph \in 1 .. Len(wf)
    /\ pc = "chatting" => IsChat(ThePhase)
    /\ pc \in {"agent", "agentCalling", "tools"} => ThePhase.type = "agent_work"
    /\ pc = "commands" => ThePhase.type = "commands" /\ item >= 1
    /\ pc \in {"agentCalling", "tools"} => iter < MaxIterations
    /\ pc \in Questioning =>
        \/ why = "tool" /\ ThePhase.type = "agent_work" /\ iter < MaxIterations
        \/ why = "command" /\ ThePhase.type = "commands" /\ item >= 1
        \/ pc # "running" /\ why = "approval" /\ ThePhase.type = "human_approval"
        \/ pc # "running" /\ why = "apply" /\ ThePhase.type = "apply_patch"
    /\ pc = "start" <=> status = "created"
    /\ pc = "done" <=> status \in Final

TypeInv == Values /\ Control

LEMMA PhaseTyping ==
    ASSUME wf \in Workflows, ph \in 1 .. Len(wf)
    PROVE  ThePhase \in Phase
BY WorkflowsAssumption DEF ThePhase

LEMMA FlagStep == Flags /\ [Next]_vars => Flags'
<1> SUFFICES ASSUME Flags, [Next]_vars
             PROVE  Flags'
    OBVIOUS
<1> USE DEF Flags, BridgeFlags, fixed, loopVars, askVars, budgetVars, workVars,
            endVars, clientVars, bridgeVars, engineVars
<1>1. CASE Lifecycle
    BY <1>1 DEF Lifecycle, Start, Build, BoundaryCancelled, StartPhase, Gates,
        MeshReturns, Caught, LedgerBlocks
<1>2. CASE Chats
    BY <1>2 DEF Chats, NotePhase, ChatDenied, ChatCall, ChatReturns, ChatFails
<1>3. CASE Agent
    BY <1>3 DEF Agent, AgentStart, AgentStops, AgentCall, AgentReturns,
        AgentCallFails, TurnOver, ToolCall, AgentEnds
<1>4. CASE Shell
    BY <1>4 DEF Shell, CommandsStart, CommandsOver, CommandGate, CommandExits,
        EditReturns
<1>5. CASE Asking
    BY <1>5 DEF Asking, ApprovalStart, ApplyStart, AskAuto, Ask, AskAnswered,
        ResumeCommand, ResumeApproval, ResumeApply, Confirm, ConfirmAnswered,
        Resume, ApplyPatch, ApplyThrows, ApplySkipped
<1>6. CASE Clients
    BY <1>6 DEF Clients, Reply, ReplyLate, Cancel, Approve, CancelRun
<1>7. CASE UNCHANGED vars
    BY <1>7 DEF vars
<1> QED
    BY <1>1, <1>2, <1>3, <1>4, <1>5, <1>6, <1>7 DEF Next, Engine, Finished

LEMMA TypeStep == TypeInv /\ [Next]_vars => TypeInv'
<1> SUFFICES ASSUME TypeInv, [Next]_vars
             PROVE  TypeInv'
    OBVIOUS
<1> USE ToolsAssumption, BudgetAssumption, BoundsAssumption
    DEF TypeInv, Values, Control, BridgeTypeOK, PCs, InPhase, Questioning, Final,
        Decisions, fixed, loopVars, askVars, budgetVars, workVars, endVars,
        clientVars, bridgeVars, engineVars
<1>1. CASE Start
    BY <1>1, PhaseTyping DEF Start, Phase, ThePhase, IsChat, Goto
<1>2. CASE Build
    BY <1>2, PhaseTyping DEF Build, Phase, ThePhase, IsChat, Goto
<1>3. CASE BoundaryCancelled
    BY <1>3, PhaseTyping DEF BoundaryCancelled, Phase, ThePhase, IsChat, Goto, Finish
<1>4. CASE StartPhase
    BY <1>4, PhaseTyping DEF StartPhase, Phase, ThePhase, IsChat, Goto
<1>5. CASE Gates
    BY <1>5, PhaseTyping DEF Gates, Phase, ThePhase, IsChat, Goto, Finish
<1>6. CASE MeshReturns
    BY <1>6, PhaseTyping DEF MeshReturns, Phase, ThePhase, IsChat, Goto, Finish
<1>7. CASE Caught
    BY <1>7, PhaseTyping DEF Caught, Phase, ThePhase, IsChat, Goto, Finish
<1>8. CASE NotePhase
    BY <1>8, PhaseTyping DEF NotePhase, Phase, ThePhase, IsChat, PhaseOver, Goto
<1>9. CASE ChatDenied
    BY <1>9, PhaseTyping DEF ChatDenied, Phase, ThePhase, IsChat, Goto
<1>10. CASE ChatCall
    BY <1>10, PhaseTyping DEF ChatCall, Phase, ThePhase, IsChat, Goto
<1>11. CASE ChatReturns
    BY <1>11, PhaseTyping DEF ChatReturns, Phase, ThePhase, IsChat, PhaseOver, Goto, Charge
<1>12. CASE ChatFails
  <2>1. ThePhase \in Phase /\ ph \in 1 .. Len(wf)
    BY <1>12, PhaseTyping DEF ChatFails
  <2>2. CASE Goto("exec") /\ UNCHANGED <<ph, item, iter, tool, why>> /\ attempt' = attempt + 1
    BY <1>12, <2>1, <2>2 DEF ChatFails, Goto, ThePhase, IsChat
  <2>3. CASE PhaseOver /\ UNCHANGED loopVars
    BY <1>12, <2>1, <2>3 DEF ChatFails, Goto, PhaseOver, ThePhase, IsChat
  <2>4. CASE Goto("caught") /\ UNCHANGED <<ph, loopVars>>
    BY <1>12, <2>1, <2>4 DEF ChatFails, Goto, ThePhase, IsChat
  <2> QED
    BY <1>12, <2>2, <2>3, <2>4 DEF ChatFails, AttemptThrows
<1>13. CASE AgentStart
    BY <1>13, PhaseTyping DEF AgentStart, Phase, ThePhase, IsChat, Goto
<1>14. CASE AgentStops
    BY <1>14, PhaseTyping DEF AgentStops, Phase, ThePhase, IsChat, AgentEnds, PhaseOver, Goto
<1>15. CASE AgentCall
    BY <1>15, PhaseTyping DEF AgentCall, Phase, ThePhase, IsChat, Goto
<1>16. CASE AgentReturns
  <2>1. PICK c \in Costs : Charge(c) /\ pc = "agentCalling"
    BY <1>16 DEF AgentReturns
  <2>2. spent' \in Nat
    BY <2>1 DEF Charge
  <2>3. ThePhase.type = "agent_work" /\ ph \in 1 .. Len(wf)
    BY <2>1
  <2>4. CASE Goto("caught") /\ UNCHANGED <<ph, item, diff, inTree, applies>>
    BY <1>16, <2>1, <2>2, <2>3, <2>4 DEF AgentReturns, Goto, ThePhase, IsChat
  <2>5. CASE AgentEnds /\ UNCHANGED item
    BY <1>16, <2>1, <2>2, <2>3, <2>5
    DEF AgentReturns, AgentEnds, PhaseOver, Goto, ThePhase, IsChat
  <2>6. CASE item' \in 1 .. MaxToolCalls /\ Goto("tools")
                /\ UNCHANGED <<ph, diff, inTree, applies>>
    BY <1>16, <2>1, <2>2, <2>3, <2>6 DEF AgentReturns, Goto, ThePhase, IsChat
  <2> QED
    BY <1>16, <2>4, <2>5, <2>6 DEF AgentReturns
<1>17. CASE AgentCallFails
    BY <1>17, PhaseTyping DEF AgentCallFails, Phase, ThePhase, IsChat, AgentEnds, PhaseOver, Goto
<1>18. CASE TurnOver
    BY <1>18, PhaseTyping DEF TurnOver, Phase, ThePhase, IsChat, Goto
<1>19. CASE ToolCall
    BY <1>19, PhaseTyping DEF ToolCall, Phase, ThePhase, IsChat, Goto
<1>20. CASE CommandsStart
    BY <1>20, PhaseTyping DEF CommandsStart, Phase, ThePhase, IsChat, Goto
<1>21. CASE CommandsOver
    BY <1>21, PhaseTyping DEF CommandsOver, Phase, ThePhase, IsChat, PhaseOver, Goto
<1>22. CASE CommandGate
    BY <1>22, PhaseTyping DEF CommandGate, Phase, ThePhase, IsChat, Goto
<1>23. CASE CommandExits
    BY <1>23, PhaseTyping DEF CommandExits, Phase, ThePhase, IsChat, RecordExit, Goto, Caller
<1>24. CASE EditReturns
    BY <1>24, PhaseTyping DEF EditReturns, Phase, ThePhase, IsChat, Goto, Caller
<1>25. CASE ApprovalStart
    BY <1>25, PhaseTyping DEF ApprovalStart, Phase, ThePhase, IsChat, Goto
<1>26. CASE ApplyStart
    BY <1>26, PhaseTyping DEF ApplyStart, Phase, ThePhase, IsChat, PhaseOver, Goto
<1>27. CASE AskAuto
    BY <1>27, PhaseTyping DEF AskAuto, Phase, ThePhase, IsChat, Goto
<1>28. CASE Ask
  <2>1. ph \in 1 .. Len(wf)
    BY <1>28 DEF Ask
  <2>2. answer' \in Decisions \cup {"none"} /\ BridgeTypeOK'
    BY <1>28 DEF Ask, Confirm
  <2>3. announced' \subseteq 1 .. asked' /\ asked' \in Nat
    BY <1>28 DEF Ask
  <2> QED
    BY <1>28, <2>1, <2>2, <2>3 DEF Ask, Goto, ThePhase, IsChat
<1>29. CASE AskAnswered
    BY <1>29, PhaseTyping DEF AskAnswered, Phase, ThePhase, IsChat, ConfirmAnswered, Goto
<1>30. CASE ResumeCommand
    BY <1>30, PhaseTyping DEF ResumeCommand, Phase, ThePhase, IsChat, Resume, Goto, Caller
<1>31. CASE ResumeApproval
  <2>1. ph \in 1 .. Len(wf) /\ pc = "waiting" /\ BridgeTypeOK'
    BY <1>31 DEF ResumeApproval, Resume
  <2>4. granted' \subseteq 1 .. Len(wf)
    BY <1>31, <2>1 DEF ResumeApproval
  <2>2. CASE PhaseOver /\ UNCHANGED status
    <3>1. pc' = "boundary" /\ ph' = ph + 1 /\ ph' \in 1 .. Len(wf) + 1
      BY <2>1, <2>2, WorkflowsAssumption DEF PhaseOver, Goto
    <3>2. UNCHANGED <<fixed, loopVars, askVars, budgetVars, workVars,
                      claimBlocked, clientVars, status>>
      BY <1>31, <2>2 DEF ResumeApproval
    <3> QED
      BY <2>1, <2>4, <3>1, <3>2 DEF ThePhase, IsChat
  <2>3. CASE Finish("cancelled") /\ UNCHANGED <<ph, granted>>
    BY <1>31, <2>1, <2>3 DEF ResumeApproval, Finish, Goto, ThePhase, IsChat
  <2> QED
    BY <1>31, <2>2, <2>3 DEF ResumeApproval
<1>32. CASE ResumeApply
  <2>1. ph \in 1 .. Len(wf) /\ pc = "waiting" /\ why = "apply" /\ BridgeTypeOK'
    BY <1>32 DEF ResumeApply, Resume
  <2>2. ThePhase.type = "apply_patch"
    BY <2>1
  <2>3. lsp' \in {"none", "clean", "errors"} /\ applies' \in Nat
    BY <1>32 DEF ResumeApply, ApplyPatch, ApplyThrows, ApplySkipped
  <2>4. CASE PhaseOver /\ UNCHANGED loopVars
    BY <1>32, <2>1, <2>2, <2>3, <2>4 DEF ResumeApply, PhaseOver, Goto, ThePhase, IsChat
  <2>5. CASE attempt' = attempt + 1 /\ Goto("exec")
                /\ UNCHANGED <<ph, item, iter, tool, why>>
    BY <1>32, <2>1, <2>2, <2>3, <2>5 DEF ResumeApply, Goto, ThePhase, IsChat
  <2>6. CASE Goto("caught") /\ UNCHANGED <<ph, loopVars>>
    BY <1>32, <2>1, <2>2, <2>3, <2>6 DEF ResumeApply, Goto, ThePhase, IsChat
  <2> QED
    BY <1>32, <2>4, <2>5, <2>6
    DEF ResumeApply, ApplyPatch, ApplyThrows, ApplySkipped, AttemptThrows
<1>33. CASE Reply
    BY <1>33, PhaseTyping DEF Reply, Phase, ThePhase, IsChat, Approve
<1>34. CASE ReplyLate
    BY <1>34, PhaseTyping DEF ReplyLate, Phase, ThePhase, IsChat, Approve
<1>35. CASE Cancel
    BY <1>35, PhaseTyping DEF Cancel, Phase, ThePhase, IsChat, CancelRun, Approve
<1>36. CASE UNCHANGED vars
    BY <1>36 DEF vars, ThePhase, IsChat
<1> QED
    BY <1>1, <1>2, <1>3, <1>4, <1>5, <1>6, <1>7, <1>8, <1>9, <1>10, <1>11, <1>12, <1>13, <1>14, <1>15, <1>16, <1>17, <1>18, <1>19, <1>20, <1>21, <1>22, <1>23, <1>24, <1>25, <1>26, <1>27, <1>28, <1>29, <1>30, <1>31, <1>32, <1>33, <1>34, <1>35, <1>36
    DEF Next, Engine, Clients, Finished, Lifecycle, Chats, Agent, Shell, Asking


LEMMA TypeInit == Init => TypeInv /\ Flags
<1> SUFFICES ASSUME Init
             PROVE  TypeInv /\ Flags
    OBVIOUS
<1>1. Flags
    BY ToolsAssumption DEF Init, BridgeInit, Flags, BridgeFlags
<1>2. Len(wf) \in Nat
    BY WorkflowsAssumption DEF Init
<1>3. Values
    BY <1>2, BoundsAssumption, ToolsAssumption
    DEF Init, BridgeInit, Values, BridgeTypeOK, PCs, Decisions
<1>4. Control
    BY DEF Init, Control, InPhase, Questioning, Final
<1> QED
    BY <1>1, <1>3, <1>4 DEF TypeInv

(* TypeOK holds in every run, whatever its workflow: the engine never      *)
(* leaves the workflow's phases and the agent loop never its limit.        *)
THEOREM TypeCorrect == Spec => []TypeOK
<1>1. Init => TypeInv /\ Flags
    BY TypeInit
<1>2. TypeInv /\ Flags /\ [Next]_vars => TypeInv' /\ Flags'
    BY TypeStep, FlagStep
<1>3. TypeInv /\ Flags => TypeOK
    BY DEF TypeInv, TypeOK
<1> QED
    BY <1>1, <1>2, <1>3, PTL DEF Spec

LEMMA TypeInvariant == Spec => []TypeInv
<1>1. Init => TypeInv
    BY TypeInit
<1>2. TypeInv /\ [Next]_vars => TypeInv'
    BY TypeStep
<1> QED
    BY <1>1, <1>2, PTL DEF Spec

-----------------------------------------------------------------------------
(* The budget.                                                             *)

(* What SpendBound rests on: the cap is crossed by one call; a call made   *)
(* beyond it is the agent's, and is denied at once; a denied run is over.  *)
BudgetInv ==
    /\ BudgetStops
    /\ HasCap /\ pc = "chatting" => spent < Cap
    /\ HasCap /\ ~denied => spent < Cap + MaxCost
    /\ HasCap => spent < Cap + 2 * MaxCost

LEMMA BudgetStep == TypeInv /\ Flags /\ BudgetInv /\ [Next]_vars => BudgetInv'
<1> SUFFICES ASSUME TypeInv, Flags, BudgetInv, [Next]_vars
             PROVE  BudgetInv'
    OBVIOUS
<1>t. spent \in Nat /\ Cap \in Nat /\ MaxCost \in Nat \ {0} /\ Costs \subseteq 0 .. MaxCost
    BY BudgetAssumption DEF TypeInv, Values
<1>d. denied => pc \in {"caught", "done"} /\ status \in {"running", "failed"}
    BY DEF BudgetInv, BudgetStops
<1> USE DEF BudgetInv, BudgetStops, fixed, loopVars, askVars, budgetVars, workVars,
            endVars, clientVars, bridgeVars, engineVars
<1>1. CASE Lifecycle
    BY <1>1, <1>t DEF Lifecycle, Start, Build, BoundaryCancelled, StartPhase, Gates,
        MeshReturns, Caught, Goto, Finish
<1>2. CASE ChatCall
    BY <1>2, <1>t DEF ChatCall, OverCap, Goto
<1>3. CASE ChatDenied
    BY <1>3, <1>t DEF ChatDenied, Goto, TypeInv, Control, Values, Final
<1>4. CASE ChatReturns
    <2>1. PICK c \in Costs : spent' = spent + c
      BY <1>4 DEF ChatReturns, Charge
    <2> QED
      BY <1>4, <1>t, <1>d, <2>1 DEF ChatReturns, PhaseOver, Goto
<1>5. CASE AgentReturns
    <2>1. PICK c \in Costs : /\ spent' = spent + c
                             /\ CapReachedBy(c) => denied' = TRUE /\ pc' = "caught"
                             /\ ~CapReachedBy(c) => denied' = denied /\ pc' # "chatting"
      BY <1>5 DEF AgentReturns, Charge, AgentEnds, PhaseOver, Goto
    <2>2. ~denied /\ status' = "running"
      BY <1>5, <1>d DEF AgentReturns, TypeInv, Control, Values, Final
    <2>3. HasCap => spent < Cap + MaxCost
      BY <2>2
    <2>4. CASE CapReachedBy(c)
      BY <1>t, <2>1, <2>2, <2>3, <2>4
    <2>5. CASE ~CapReachedBy(c)
      <3>1. HasCap => spent' < Cap
        BY <1>t, <2>1, <2>5 DEF CapReachedBy
      <3>2. ~denied'
        BY <2>1, <2>2, <2>5
      <3> QED
        BY <1>t, <2>1, <2>5, <3>1, <3>2
    <2> QED
      BY <2>4, <2>5
<1>6. CASE NotePhase \/ ChatFails \/ (Agent /\ ~AgentReturns) \/ Shell \/ Asking
    <2>1. pc' \notin {"chatting"} /\ UNCHANGED budgetVars /\ pc \notin {"caught", "done"}
      BY <1>6 DEF NotePhase, ChatFails, AttemptThrows, Agent, AgentStart,
        AgentStops, AgentCall, AgentCallFails, TurnOver, ToolCall, AgentEnds,
        Shell, CommandsStart, CommandsOver, CommandGate, CommandExits, EditReturns,
        Caller, Asking, ApprovalStart, ApplyStart, AskAuto, Ask, AskAnswered,
        ResumeCommand, ResumeApproval, ResumeApply, Resume, ApplyPatch, ApplyThrows,
        ApplySkipped, PhaseOver, Goto, Finish
    <2> QED
      BY <2>1, <1>d
<1>7. CASE Clients \/ UNCHANGED vars
    BY <1>7 DEF Clients, Reply, ReplyLate, Cancel, vars
<1> QED
    BY <1>1, <1>2, <1>3, <1>4, <1>5, <1>6, <1>7 DEF Next, Engine, Finished, Chats, Agent

(* The hard cap is final: a run whose cap denied a call ends failed, and   *)
(* never makes another, however its phases retry or continue; and what it  *)
(* is charged stays below the cap plus two calls.                          *)
THEOREM BudgetIsFinal == Spec => []BudgetHolds
<1>1. Init => BudgetInv
    BY BudgetAssumption DEF Init, BudgetInv, BudgetStops
<1>2. BudgetInv => BudgetHolds
    BY DEF BudgetInv, BudgetHolds, SpendBound
<1> QED
    BY <1>1, <1>2, TypeInvariant, TypeCorrect, BudgetStep, PTL DEF Spec, TypeOK

-----------------------------------------------------------------------------
(* Human gates.                                                            *)

(* Leaving a phase keeps GateHeld if it is no required approval, or was    *)
(* granted.                                                                *)
LEMMA GateAdvance ==
    ASSUME TypeInv, GateHeld, wf' = wf, ph' = ph + 1, granted \subseteq granted',
           \/ ThePhase.type # "human_approval"
           \/ ~ThePhase.required
           \/ ph \in granted'
    PROVE  GateHeld'
<1>1. ph \in Nat /\ 1 .. ph' - 1 = 1 .. ph
    BY WorkflowsAssumption DEF TypeInv, Values
<1>2. SUFFICES ASSUME NEW i \in 1 .. ph,
                      wf[i].type = "human_approval", wf[i].required
               PROVE  i \in granted'
    BY <1>1 DEF GateHeld
<1>3. CASE i = ph
    BY <1>2, <1>3 DEF ThePhase
<1>4. CASE i \in 1 .. ph - 1
    BY <1>2, <1>4 DEF GateHeld
<1> QED
    BY <1>1, <1>2, <1>3, <1>4

LEMMA GateStep == TypeInv /\ GateHeld /\ [Next]_vars => GateHeld'
<1> SUFFICES ASSUME TypeInv, GateHeld, [Next]_vars
             PROVE  GateHeld'
    OBVIOUS
<1> USE DEF fixed, loopVars, askVars, budgetVars, workVars, endVars, clientVars,
            bridgeVars, engineVars
<1>s. ASSUME UNCHANGED <<wf, ph, granted>>
      PROVE  GateHeld'
    BY <1>s DEF GateHeld
<1>1. CASE Lifecycle
    BY <1>1, <1>s DEF Lifecycle, Start, Build, BoundaryCancelled, StartPhase,
        Gates, MeshReturns, Caught
<1>2. CASE Chats
    <2>1. UNCHANGED <<wf, granted>> /\ (ph' = ph \/ (ph' = ph + 1 /\ ThePhase.type # "human_approval"))
      BY <1>2 DEF Chats, NotePhase, ChatDenied, ChatCall, ChatReturns, ChatFails,
        AttemptThrows, PhaseOver, TypeInv, Control, IsChat
    <2> QED
      BY <1>s, <2>1, GateAdvance
<1>3. CASE Agent
    <2>1. UNCHANGED <<wf, granted>> /\ (ph' = ph \/ (ph' = ph + 1 /\ ThePhase.type # "human_approval"))
      BY <1>3 DEF Agent, AgentStart, AgentStops, AgentCall, AgentReturns,
        AgentCallFails, TurnOver, ToolCall, AgentEnds, PhaseOver, TypeInv, Control
    <2> QED
      BY <1>s, <2>1, GateAdvance
<1>4. CASE Shell
    <2>1. UNCHANGED <<wf, granted>> /\ (ph' = ph \/ (ph' = ph + 1 /\ ThePhase.type # "human_approval"))
      BY <1>4 DEF Shell, CommandsStart, CommandsOver, CommandGate, CommandExits,
        EditReturns, PhaseOver, TypeInv, Control
    <2> QED
      BY <1>s, <2>1, GateAdvance
<1>5. CASE ApprovalStart \/ AskAuto \/ Ask \/ AskAnswered \/ ResumeCommand
    BY <1>5, <1>s DEF ApprovalStart, AskAuto, Ask, AskAnswered, ResumeCommand
<1>6. CASE ApplyStart \/ ResumeApply
    <2>1. UNCHANGED <<wf, granted>> /\ (ph' = ph \/ (ph' = ph + 1 /\ ThePhase.type # "human_approval"))
      BY <1>6 DEF ApplyStart, ResumeApply, Resume, ApplyPatch, ApplyThrows,
        ApplySkipped, AttemptThrows, PhaseOver, TypeInv, Control, Questioning
    <2> QED
      BY <1>s, <2>1, GateAdvance
<1>7. CASE ResumeApproval
    <2>1. wf' = wf /\ granted \subseteq granted'
      BY <1>7 DEF ResumeApproval
    <2>2. CASE PhaseOver /\ granted' = granted \cup {ph}
      BY <2>1, <2>2, GateAdvance DEF PhaseOver
    <2>3. CASE PhaseOver /\ ~Required(ThePhase)
      <3>1. ~ThePhase.required
        BY <2>3 DEF Required
      <3>2. ph' = ph + 1
        BY <2>3 DEF PhaseOver
      <3> QED
        BY <2>1, <3>1, <3>2, GateAdvance
    <2>4. CASE UNCHANGED <<ph, granted>>
      BY <1>s, <2>1, <2>4
    <2> QED
      BY <1>7, <2>2, <2>3, <2>4 DEF ResumeApproval
<1>8. CASE Clients \/ UNCHANGED vars
    BY <1>8, <1>s DEF Clients, Reply, ReplyLate, Cancel, vars
<1> QED
    BY <1>1, <1>2, <1>3, <1>4, <1>5, <1>6, <1>7, <1>8
    DEF Next, Engine, Finished, Asking

(* No phase after a required human approval is reached without its "yes",  *)
(* whatever approvals, cancellations and late decisions the clients send.  *)
THEOREM GatesHold == Spec => []GateHeld
<1>1. Init => GateHeld
    BY DEF Init, GateHeld
<1> QED
    BY <1>1, TypeInvariant, GateStep, PTL DEF Spec

-----------------------------------------------------------------------------
(* The approval bridge.                                                    *)

LEMMA WakeupStep == TypeInv /\ NoLostWakeup /\ [Next]_vars => NoLostWakeup'
<1> SUFFICES ASSUME TypeInv, NoLostWakeup, [Next]_vars
             PROVE  NoLostWakeup'
    OBVIOUS
<1>t. asked \in Nat
    BY DEF TypeInv, Values
<1> USE DEF NoLostWakeup, fixed, loopVars, askVars, budgetVars, workVars, endVars,
            clientVars, bridgeVars, engineVars
<1>1. CASE Lifecycle \/ Chats \/ Agent \/ Shell \/ ApprovalStart \/ ApplyStart
    <2>1. pc # "waiting" /\ pc' # "waiting" /\ UNCHANGED <<pending, answer>>
      BY <1>1 DEF Lifecycle, Start, Build, BoundaryCancelled, StartPhase, Gates,
        MeshReturns, Caught, Chats, NotePhase, ChatDenied, ChatCall, ChatReturns,
        ChatFails, AttemptThrows, Agent, AgentStart, AgentStops, AgentCall,
        AgentReturns, AgentCallFails, TurnOver, ToolCall, AgentEnds, Shell,
        CommandsStart, CommandsOver, CommandGate, CommandExits, EditReturns, Caller,
        ApprovalStart, ApplyStart, PhaseOver, Goto, Finish
    <2> QED
      BY <2>1
<1>2. CASE AskAuto \/ AskAnswered
    BY <1>2, <1>t DEF AskAuto, AskAnswered, ConfirmAnswered, Decisions, Goto
<1>3. CASE Ask
    <2>1. pending = 0 /\ answer = "none" /\ pc' = "waiting" /\ asked' = asked + 1
      BY <1>3 DEF Ask, Goto
    <2>2. CASE buffered # "none" /\ answer' = buffered /\ UNCHANGED pending
      BY <2>1, <2>2
    <2>3. CASE pending' = asked + 1 /\ UNCHANGED answer
      BY <2>1, <2>3
    <2> QED
      BY <1>3, <2>2, <2>3 DEF Ask, Confirm
<1>4. CASE ResumeCommand \/ ResumeApproval \/ ResumeApply
    <2>1. pending = 0 /\ pending' = 0 /\ answer' = "none" /\ pc' # "waiting"
      BY <1>4 DEF ResumeCommand, ResumeApproval, ResumeApply, Resume, ApplyPatch,
        ApplyThrows, ApplySkipped, AttemptThrows, PhaseOver, Goto, Finish, Caller
    <2> QED
      BY <2>1
<1>5. CASE Clients
    BY <1>5 DEF Clients, Reply, ReplyLate, Cancel, CancelRun, Approve, Decisions
<1>6. CASE UNCHANGED vars
    BY <1>6 DEF vars
<1> QED
    BY <1>1, <1>2, <1>3, <1>4, <1>5, <1>6 DEF Next, Engine, Finished, Asking

(* An engine that waits has its question parked or its answer ready: no    *)
(* order of approve() and cancel() loses the wakeup.                       *)
THEOREM WakeupsAreKept == Spec => []NoLostWakeup
<1>1. Init => NoLostWakeup
    BY DEF Init, BridgeInit, NoLostWakeup
<1> QED
    BY <1>1, TypeInvariant, WakeupStep, PTL DEF Spec

-----------------------------------------------------------------------------
(* Cancellation.                                                           *)

(* A cancelled engine finishes the phase it is in and enters no other; the *)
(* gates are only reached beyond the last phase.                           *)
CancelInv ==
    /\ cancelPh # 0 => aborted /\ ph <= cancelPh + 1
    /\ cancelPh # 0 /\ pc \in InPhase => ph <= cancelPh
    /\ pc = "mesh" \/ status = "completed" => ph > Len(wf)

LEMMA CancelStep == TypeInv /\ CancelInv /\ [Next]_vars => CancelInv'
<1> SUFFICES ASSUME TypeInv, CancelInv, [Next]_vars
             PROVE  CancelInv'
    OBVIOUS
<1>t. ph \in Nat /\ cancelPh \in Nat /\ Len(wf) \in Nat /\ (pc = "done" <=> status \in Final)
    BY WorkflowsAssumption DEF TypeInv, Values, Control
<1> USE DEF CancelInv, InPhase, fixed, loopVars, askVars, budgetVars, workVars,
            endVars, clientVars, bridgeVars, engineVars
<1>1. CASE Start \/ Build \/ BoundaryCancelled \/ StartPhase \/ Caught
    BY <1>1, <1>t DEF Start, Build, BoundaryCancelled, StartPhase, Caught, Goto, Finish
<1>2. CASE Gates \/ MeshReturns
    BY <1>2, <1>t DEF Gates, MeshReturns, Goto, Finish
<1>3. CASE Chats \/ Agent \/ Shell \/ (Asking /\ ~AskAnswered)
    <2>1. pc \in InPhase /\ status # "completed"
      BY <1>3, <1>t DEF Final, Chats, NotePhase, ChatDenied, ChatCall, ChatReturns, ChatFails,
        Agent, AgentStart, AgentStops, AgentCall, AgentReturns, AgentCallFails,
        TurnOver, ToolCall, Shell, CommandsStart, CommandsOver, CommandGate,
        CommandExits, EditReturns, Asking, ApprovalStart, ApplyStart, AskAuto, Ask,
        ResumeCommand, ResumeApproval, ResumeApply, Resume
    <2>2. UNCHANGED <<wf, cancelPh, aborted>> /\ status' # "completed" /\ pc' # "mesh"
      BY <1>3, <2>1 DEF Chats, NotePhase, ChatDenied, ChatCall, ChatReturns, ChatFails,
        AttemptThrows, Agent, AgentStart, AgentStops, AgentCall, AgentReturns,
        AgentCallFails, TurnOver, ToolCall, AgentEnds, Shell, CommandsStart,
        CommandsOver, CommandGate, CommandExits, EditReturns, Caller, Asking,
        ApprovalStart, ApplyStart, AskAuto, Ask, Confirm, ResumeCommand,
        ResumeApproval, ResumeApply, Resume, ApplyPatch, ApplyThrows, ApplySkipped,
        PhaseOver, Goto, Finish
    <2>3. ph' = ph \/ (ph' = ph + 1 /\ pc' = "boundary")
      BY <1>3 DEF Chats, NotePhase, ChatDenied, ChatCall, ChatReturns, ChatFails,
        AttemptThrows, Agent, AgentStart, AgentStops, AgentCall, AgentReturns,
        AgentCallFails, TurnOver, ToolCall, AgentEnds, Shell, CommandsStart,
        CommandsOver, CommandGate, CommandExits, EditReturns, Asking,
        ApprovalStart, ApplyStart, AskAuto, Ask, ResumeCommand,
        ResumeApproval, ResumeApply, ApplyPatch, ApplyThrows, ApplySkipped,
        PhaseOver, Goto
    <2> QED
      BY <1>t, <2>1, <2>2, <2>3
<1>4. CASE AskAnswered
    BY <1>4, <1>t DEF AskAnswered, ConfirmAnswered, Goto
<1>5. CASE Clients
    BY <1>5, <1>t DEF Clients, Reply, ReplyLate, Cancel, CancelRun
<1>6. CASE UNCHANGED vars
    BY <1>6 DEF vars
<1> QED
    BY <1>1, <1>2, <1>3, <1>4, <1>5, <1>6 DEF Next, Engine, Finished, Lifecycle

(* A run cancelled before its last phase began never ends completed,       *)
(* wherever the cancellation falls and whatever the phases retry.          *)
THEOREM CancelledStops == Spec => []CancelledNeverCompletes
<1>1. Init => CancelInv
    BY DEF Init, CancelInv, InPhase
<1>2. TypeInv /\ CancelInv => CancelledNeverCompletes
    BY WorkflowsAssumption DEF TypeInv, Values, CancelInv, CancelledNeverCompletes
<1> QED
    BY <1>1, <1>2, TypeInvariant, CancelStep, PTL DEF Spec

-----------------------------------------------------------------------------
(* The patch.                                                              *)

(* A diff that is not in the tree has not been applied since it was made.  *)
ApplyInv == applies <= 1 /\ (~inTree => applies = 0)

LEMMA ApplyStep == TypeInv /\ ApplyInv /\ [Next]_vars => ApplyInv'
<1> SUFFICES ASSUME TypeInv, ApplyInv, [Next]_vars
             PROVE  ApplyInv'
    OBVIOUS
<1>t. applies \in Nat
    BY DEF TypeInv, Values
<1> USE DEF ApplyInv, fixed, loopVars, askVars, budgetVars, workVars, endVars,
            clientVars, bridgeVars, engineVars
<1>1. CASE UNCHANGED <<inTree, applies>>
    BY <1>1
<1>2. CASE inTree' = FALSE /\ applies' = 0
    BY <1>2
<1>3. CASE inTree' = TRUE /\ applies' = 1
    BY <1>3
<1>4. CASE ResumeApply
    BY <1>4, <1>t DEF ResumeApply, ApplyPatch, ApplyThrows, ApplySkipped, CheckApplies
<1>5. CASE Lifecycle \/ Shell \/ Clients \/ UNCHANGED vars
    BY <1>5, <1>1 DEF Lifecycle, Start, Build, BoundaryCancelled, StartPhase, Gates,
        MeshReturns, Caught, Shell, CommandsStart, CommandsOver, CommandGate,
        CommandExits, EditReturns, Clients, Reply, ReplyLate, Cancel, vars
<1>6. CASE Chats
    BY <1>6, <1>1, <1>2 DEF Chats, NotePhase, ChatDenied, ChatCall, ChatReturns, ChatFails
<1>7. CASE Agent
    BY <1>7, <1>1, <1>3 DEF Agent, AgentStart, AgentStops, AgentCall, AgentReturns,
        AgentCallFails, TurnOver, ToolCall, AgentEnds
<1>8. CASE Asking /\ ~ResumeApply
    BY <1>8, <1>1 DEF Asking, ApprovalStart, ApplyStart, AskAuto, Ask, AskAnswered,
        ResumeCommand, ResumeApproval
<1> QED
    BY <1>4, <1>5, <1>6, <1>7, <1>8 DEF Next, Engine, Finished

(* The collected diff is applied at most once, whatever the phases apply,  *)
(* retry, decline and edit in between.                                     *)
THEOREM PatchOnce == Spec => []AppliedOnce
<1>1. Init => ApplyInv
    BY DEF Init, ApplyInv
<1>2. ApplyInv => AppliedOnce
    BY DEF ApplyInv, AppliedOnce
<1> QED
    BY <1>1, <1>2, TypeInvariant, ApplyStep, PTL DEF Spec

-----------------------------------------------------------------------------
(* The evidence.                                                           *)

(* The verdict taken before the mesh is still the evidence's when it       *)
(* returns, and a run that completed had none against it.                  *)
EvidenceInv ==
    /\ pc = "mesh" => (claimBlocked <=> LedgerBlocks)
    /\ status = "completed" => ~LedgerBlocks

LEMMA LedgerKept ==
    ASSUME UNCHANGED <<exits, lsp, diff>>
    PROVE  LedgerBlocks' <=> LedgerBlocks
BY DEF LedgerBlocks, TypeErrors

LEMMA EvidenceStep == TypeInv /\ Flags /\ EvidenceInv /\ [Next]_vars => EvidenceInv'
<1> SUFFICES ASSUME TypeInv, Flags, EvidenceInv, [Next]_vars
             PROVE  EvidenceInv'
    OBVIOUS
<1>t. pc = "done" <=> status \in Final
    BY DEF TypeInv, Control
<1> USE DEF EvidenceInv, fixed, loopVars, askVars, budgetVars, workVars, endVars,
            clientVars, bridgeVars, engineVars
<1>1. CASE Gates
    <2>1. UNCHANGED <<exits, lsp, diff>> /\ claimBlocked' = LedgerBlocks
      BY <1>1 DEF Gates
    <2>2. status # "completed"
      BY <1>1, <1>t DEF Gates, Final
    <2>3. status' = "completed" => ~LedgerBlocks
      BY <1>1, <2>2 DEF Gates, Finish
    <2> QED
      BY <2>1, <2>3, LedgerKept
<1>2. CASE MeshReturns
    <2>1. UNCHANGED <<exits, lsp, diff>> /\ pc' = "done"
      BY <1>2 DEF MeshReturns, Finish, Goto
    <2>2. status' = "completed" => ~claimBlocked
      BY <1>2 DEF MeshReturns, Finish
    <2>3. claimBlocked <=> LedgerBlocks
      BY <1>2 DEF MeshReturns
    <2> QED
      BY <2>1, <2>2, <2>3, LedgerKept
<1>3. CASE Start \/ Build \/ BoundaryCancelled \/ StartPhase \/ Caught
              \/ Chats \/ Agent \/ Shell \/ Asking
    <2>1. status # "completed"
      BY <1>3, <1>t DEF Final, Start, Build, BoundaryCancelled, StartPhase, Caught,
        Chats, NotePhase, ChatDenied, ChatCall, ChatReturns, ChatFails,
        Agent, AgentStart, AgentStops, AgentCall, AgentReturns, AgentCallFails,
        TurnOver, ToolCall, Shell, CommandsStart, CommandsOver, CommandGate,
        CommandExits, EditReturns, Asking, ApprovalStart, ApplyStart, AskAuto, Ask,
        AskAnswered, ResumeCommand, ResumeApproval, ResumeApply, Resume
    <2>2. status' # "completed" /\ pc' # "mesh"
      BY <1>3, <2>1 DEF Start, Build, BoundaryCancelled, StartPhase, Caught, Chats,
        NotePhase, ChatDenied, ChatCall, ChatReturns, ChatFails,
        AttemptThrows, Agent, AgentStart, AgentStops, AgentCall, AgentReturns,
        AgentCallFails, TurnOver, ToolCall, AgentEnds, Shell, CommandsStart,
        CommandsOver, CommandGate, CommandExits, EditReturns, Caller, Asking,
        ApprovalStart, ApplyStart, AskAuto, Ask, AskAnswered, ResumeCommand,
        ResumeApproval, ResumeApply, Resume, ApplyPatch, ApplyThrows, ApplySkipped,
        PhaseOver, Goto, Finish
    <2> QED
      BY <2>2
<1>4. CASE Clients \/ UNCHANGED vars
    <2>1. UNCHANGED <<pc, status, claimBlocked, exits, lsp, diff>>
      BY <1>4 DEF Clients, Reply, ReplyLate, Cancel, vars
    <2> QED
      BY <2>1, LedgerKept
<1> QED
    BY <1>1, <1>2, <1>3, <1>4 DEF Next, Engine, Finished, Lifecycle

(* A completed run has no refuted claim, also when the mesh reviewed it    *)
(* between the verdict of the ledger and the end.                          *)
THEOREM CompletionIsVerified == Spec => []CompletedIsVerified
<1>1. Init => EvidenceInv
    BY DEF Init, EvidenceInv
<1>2. TypeInv /\ EvidenceInv => CompletedIsVerified
    <2> SUFFICES ASSUME TypeInv, EvidenceInv, status = "completed"
                 PROVE  CompletedIsVerified
        BY DEF CompletedIsVerified
    <2>1. ~LedgerBlocks
        BY DEF EvidenceInv
    <2>2. \A c \in Typecheck : exits[c] \in {"none", "pass", "fail"}
        BY ToolsAssumption DEF TypeInv, Values
    <2> QED
        BY <2>1, <2>2 DEF LedgerBlocks, TypeErrors, CompletedIsVerified
<1> QED
    BY <1>1, <1>2, TypeInvariant, TypeCorrect, EvidenceStep, PTL DEF Spec, TypeOK

-----------------------------------------------------------------------------
(* Permissions.                                                            *)

(* A command or an edit is run only if the permission engine allows it, or *)
(* has it asked about and the answer taken is a yes (one that may have     *)
(* been given to an earlier question, and kept: see RunController).        *)
GatesAsked ==
    [][pc # "running" /\ pc' = "running" =>
         \/ GateOf[tool'] = "allow"
         \/ GateOf[tool'] = "ask" /\ pc = "waiting" /\ answer = "yes"]_vars

(* What is denied has never run, so it leaves no exit code for a claim.    *)
DeniedNeverRan == \A c \in Commands : GateOf[c] = "deny" => exits[c] = "none"

(* What is asked about, or runs, has been gated.                           *)
PermInv ==
    /\ DeniedNeverRan
    /\ pc \in {"asking", "waiting"} /\ why \in {"tool", "command"} => GateOf[tool] = "ask"
    /\ pc = "running" => GateOf[tool] # "deny"

LEMMA PermStep == TypeInv /\ PermInv /\ [Next]_vars => PermInv'
<1> SUFFICES ASSUME TypeInv, PermInv, [Next]_vars PROVE PermInv'
    OBVIOUS
<1> USE DEF PermInv, DeniedNeverRan, fixed, loopVars, askVars, budgetVars, workVars,
            endVars, clientVars, bridgeVars, engineVars
<1>1. CASE Lifecycle \/ Chats
    BY <1>1 DEF Lifecycle, Start, Build, BoundaryCancelled, StartPhase, Gates,
        MeshReturns, Caught, Chats, NotePhase, ChatDenied, ChatCall, ChatReturns,
        ChatFails, AttemptThrows, PhaseOver, Goto, Finish
<1>2. CASE Agent
    BY <1>2 DEF Agent, AgentStart, AgentStops, AgentCall, AgentReturns,
        AgentCallFails, TurnOver, ToolCall, AgentEnds, PhaseOver, Goto
<1>3. CASE CommandsStart \/ CommandsOver \/ CommandGate \/ EditReturns
    BY <1>3 DEF CommandsStart, CommandsOver, CommandGate, EditReturns, PhaseOver, Goto, Caller
<1>4. CASE CommandExits
    <2>1. /\ pc = "running" /\ tool \in Commands /\ pc' \in {"tools", "commands"}
          /\ UNCHANGED <<tool, why>>
          /\ \A c \in Commands \ {tool} : exits'[c] = exits[c]
      BY <1>4 DEF CommandExits, RecordExit, Goto, Caller, TypeInv, Values
    <2> QED
      BY <2>1
<1>5. CASE ApprovalStart \/ ApplyStart \/ AskAuto \/ Ask \/ AskAnswered
    BY <1>5 DEF ApprovalStart, ApplyStart, AskAuto, Ask, AskAnswered, PhaseOver, Goto
<1>6. CASE ResumeCommand
    BY <1>6 DEF ResumeCommand, Resume, Goto, Caller
<1>7. CASE ResumeApproval \/ ResumeApply
    BY <1>7 DEF ResumeApproval, ResumeApply, Resume, ApplyPatch, ApplyThrows,
        ApplySkipped, AttemptThrows, PhaseOver, Goto, Finish
<1>8. CASE Clients \/ UNCHANGED vars
    BY <1>8 DEF Clients, Reply, ReplyLate, Cancel, vars
<1> QED
    BY <1>1, <1>2, <1>3, <1>4, <1>5, <1>6, <1>7, <1>8 DEF Next, Engine, Finished, Shell, Asking

LEMMA PermInvariant == Spec => []PermInv
<1>1. Init => PermInv
    BY DEF Init, PermInv, DeniedNeverRan
<1> QED
    BY <1>1, PermStep, TypeInvariant, PTL DEF Spec

LEMMA GatedStep ==
  TypeInv /\ PermInv /\ [Next]_vars =>
    [pc # "running" /\ pc' = "running" =>
       \/ GateOf[tool'] = "allow"
       \/ GateOf[tool'] = "ask" /\ pc = "waiting" /\ answer = "yes"]_vars
<1> SUFFICES ASSUME TypeInv, PermInv, Next, pc # "running", pc' = "running"
             PROVE  \/ GateOf[tool'] = "allow"
                    \/ GateOf[tool'] = "ask" /\ pc = "waiting" /\ answer = "yes"
    OBVIOUS
<1>1. ToolCall \/ CommandGate \/ ResumeCommand
    BY DEF Next, Engine, Clients, Finished, vars, engineVars, Lifecycle, Start, Build,
        BoundaryCancelled, StartPhase, Gates, MeshReturns, Caught, Chats, NotePhase,
        ChatDenied, ChatCall, ChatReturns, ChatFails, AttemptThrows, PhaseOver, Goto,
        Finish, Agent, AgentStart, AgentStops, AgentCall, AgentReturns, AgentCallFails,
        TurnOver, AgentEnds, Shell, CommandsStart, CommandsOver, CommandExits, EditReturns,
        Asking, ApprovalStart, ApplyStart, AskAuto, Ask, AskAnswered, ResumeApproval,
        ResumeApply, ApplyPatch, ApplyThrows, ApplySkipped, Reply, ReplyLate, Cancel
<1>2. CASE ToolCall \/ CommandGate
    BY <1>2 DEF ToolCall, CommandGate, Goto
<1>3. CASE ResumeCommand
    BY <1>3 DEF ResumeCommand, Resume, Goto, Caller, loopVars, PermInv
<1> QED
    BY <1>1, <1>2, <1>3

(* No command or edit gets past the permission engine, in a phase of its   *)
(* own or by an agent, whatever answers come late, twice or with a cancel. *)
THEOREM NothingRunsUngated == Spec => GatesAsked
<1> QED
    BY GatedStep, PermInvariant, TypeInvariant, PTL DEF Spec, GatesAsked

(* A denied command leaves no trace a claim could rest on.                 *)
THEOREM DeniedLeavesNoTrace == Spec => []DeniedNeverRan
<1>1. PermInv => DeniedNeverRan
    BY DEF PermInv
<1> QED
    BY <1>1, PermInvariant, PTL

-----------------------------------------------------------------------------
(* The engine only moves forward.                                          *)

(* The run's life; a turn of the agent's loop; a call that is gated.       *)
Stage(p) == CASE p = "start" -> 1 [] p = "building" -> 2 [] p = "mesh" -> 4
              [] p = "caught" -> 5 [] p = "done" -> 6 [] OTHER -> 3
Turn(p) == CASE p = "agent" -> 1 [] p = "agentCalling" -> 2 [] OTHER -> 3
Gated(p) == CASE p = "asking" -> 1 [] p = "waiting" -> 2 [] p = "running" -> 3
              [] OTHER -> 4

(* Fewer of the agent's calls left, more of the phase's commands done, or  *)
(* further with the same one.                                              *)
InTurn ==
    /\ Turn(pc) = 3 /\ Turn(pc') = 3
    /\ \/ ThePhase.type = "agent_work" /\ item' < item
       \/ ThePhase.type = "commands" /\ item < item'
       \/ item' = item /\ Gated(pc) < Gated(pc')

InAttempt ==
    \/ pc = "exec" /\ pc' # "exec"
    \/ /\ pc # "exec" /\ pc' # "exec"
       /\ \/ iter < iter'
          \/ iter' = iter /\ (Turn(pc) < Turn(pc') \/ InTurn)

Forward ==
    \/ Stage(pc) < Stage(pc')
    \/ /\ Stage(pc') = Stage(pc)
       /\ \/ ph < ph'
          \/ ph' = ph /\ pc = "boundary" /\ pc' = "exec"
          \/ /\ ph' = ph /\ {pc, pc'} \subseteq InPhase
             /\ attempt < attempt' \/ (attempt' = attempt /\ InAttempt)

(* Every step of the engine takes the run forward: to a later phase, a     *)
(* later attempt at it, a later iteration of the agent or the next call.   *)
(* No retry, denial, answer or cancel takes it back.                       *)
RunAdvances == [][Engine => wf' = wf /\ Forward]_vars

(* What it counts up is bounded by the workflow and the loop's limit.      *)
WithinWorkflow ==
    /\ ph <= Len(wf) + 1
    /\ iter <= MaxIterations
    /\ pc \in InPhase => attempt <= Attempts
    /\ pc \in InPhase \ {"exec"} /\ ThePhase.type = "commands"
         => item <= Len(ThePhase.commands) + 1

LEMMA ForwardStep == TypeInv /\ [Next]_vars => [Engine => wf' = wf /\ Forward]_vars
<1> SUFFICES ASSUME TypeInv, Engine PROVE wf' = wf /\ Forward
    OBVIOUS
<1>0. /\ ph \in Nat /\ attempt \in Nat /\ item \in Nat /\ iter \in Nat
      /\ pc \in PCs
    BY BoundsAssumption DEF TypeInv, Values
<1>1. wf' = wf
    BY DEF Engine, Lifecycle, Start, Build, BoundaryCancelled, StartPhase, Gates,
        MeshReturns, Caught, Chats, NotePhase, ChatDenied, ChatCall, ChatReturns,
        ChatFails, Agent, AgentStart, AgentStops, AgentCall, AgentReturns, AgentCallFails,
        TurnOver, ToolCall, Shell, CommandsStart, CommandsOver, CommandGate, CommandExits,
        EditReturns, Asking, ApprovalStart, ApplyStart, AskAuto, Ask, AskAnswered,
        ResumeCommand, ResumeApproval, ResumeApply, fixed
<1> SUFFICES Forward
    BY <1>1
<1>2. ASSUME pc \in InPhase, PhaseOver PROVE Forward
    BY <1>0, <1>2 DEF PhaseOver, Goto, InPhase, Stage, Forward
<1>3. ASSUME pc \in InPhase \ {"exec"}, AttemptThrows PROVE Forward
    <2>1. CASE PhaseOver
      BY <1>2, <1>3, <2>1
    <2>2. CASE pc' = "caught"
      BY <1>3, <2>2 DEF Forward, Stage, InPhase
    <2>3. CASE attempt' = attempt + 1 /\ pc' = "exec" /\ ph' = ph
      BY <1>0, <1>3, <2>3 DEF Forward, Stage, InPhase
    <2> QED
      BY <1>3, <2>1, <2>2, <2>3 DEF AttemptThrows, Goto
<1>4. CASE Lifecycle
    BY <1>0, <1>4 DEF Lifecycle, Start, Build, BoundaryCancelled, StartPhase, Gates,
        MeshReturns, Caught, Goto, Finish, Forward, Stage
<1>5. CASE Chats
    <2>1. CASE NotePhase \/ ChatReturns
      BY <1>2, <2>1 DEF NotePhase, ChatReturns, InPhase
    <2>2. CASE ChatFails
      BY <1>3, <2>2 DEF ChatFails, InPhase
    <2>3. CASE ChatDenied \/ ChatCall
      BY <1>0, <2>3 DEF ChatDenied, ChatCall, Goto, loopVars, Forward, Stage, InPhase, InAttempt
    <2> QED
      BY <1>5, <2>1, <2>2, <2>3 DEF Chats
<1>6. CASE Agent
    <2>1. CASE AgentStart
      BY <1>0, <2>1 DEF AgentStart, Goto, Forward, Stage, InPhase, InAttempt
    <2>2. ASSUME pc \in InPhase, AgentEnds PROVE Forward
      BY <1>2, <2>2 DEF AgentEnds
    <2>3. CASE AgentStops \/ AgentCallFails
      BY <2>2, <2>3 DEF AgentStops, AgentCallFails, InPhase
    <2>4. CASE AgentCall
      BY <1>0, <2>4 DEF AgentCall, Goto, loopVars, Forward, Stage, InPhase, InAttempt, Turn
    <2>5. CASE AgentReturns
      <3>1. CASE AgentEnds
        BY <2>2, <2>5, <3>1 DEF AgentReturns, InPhase
      <3>2. CASE pc' = "caught"
        BY <2>5, <3>2 DEF AgentReturns, Forward, Stage
      <3>3. CASE pc' = "tools" /\ ph' = ph
        BY <1>0, <2>5, <3>3
        DEF AgentReturns, Forward, Stage, InPhase, InAttempt, Turn
      <3> QED
        BY <2>5, <3>1, <3>2, <3>3 DEF AgentReturns, Goto
    <2>6. CASE TurnOver
      BY <1>0, <2>6 DEF TurnOver, Goto, Forward, Stage, InPhase, InAttempt
    <2>7. CASE ToolCall
      <3>1. /\ pc = "tools" /\ pc' \in {"tools", "asking", "running"} /\ item' = item - 1
            /\ UNCHANGED <<ph, attempt, iter>> /\ ThePhase.type = "agent_work"
        BY <2>7 DEF ToolCall, Goto, TypeInv, Control
      <3>2. item' < item
        BY <1>0, <3>1
      <3> QED
        BY <3>1, <3>2 DEF Forward, Stage, InPhase, InAttempt, Turn, InTurn
    <2> QED
      BY <1>6, <2>1, <2>3, <2>4, <2>5, <2>6, <2>7 DEF Agent
<1>7. CASE Shell
    <2>1. CASE CommandsStart
      BY <2>1 DEF CommandsStart, Goto, Forward, Stage, InPhase, InAttempt
    <2>2. CASE CommandsOver
      BY <1>2, <2>2 DEF CommandsOver, InPhase
    <2>3. CASE CommandGate
      <3>1. /\ pc = "commands" /\ pc' \in {"commands", "asking", "running"} /\ item' = item + 1
            /\ UNCHANGED <<ph, attempt, iter>> /\ ThePhase.type = "commands"
        BY <2>3 DEF CommandGate, Goto, TypeInv, Control
      <3>2. item < item'
        BY <1>0, <3>1
      <3> QED
        BY <3>1, <3>2 DEF Forward, Stage, InPhase, InAttempt, Turn, InTurn
    <2>4. CASE CommandExits \/ EditReturns
      <3>1. /\ pc = "running" /\ pc' \in {"commands", "tools"}
            /\ UNCHANGED <<ph, attempt, iter, item>>
        BY <2>4 DEF CommandExits, EditReturns, Caller, Goto, loopVars
      <3> QED
        BY <3>1 DEF Forward, Stage, InPhase, InAttempt, Turn, InTurn, Gated
    <2> QED
      BY <1>7, <2>1, <2>2, <2>3, <2>4 DEF Shell
<1>8. CASE Asking
    <2>1. CASE ApprovalStart
      BY <2>1 DEF ApprovalStart, Goto, Forward, Stage, InPhase, InAttempt
    <2>2. CASE ApplyStart
      <3>1. CASE PhaseOver
        BY <1>2, <2>2, <3>1 DEF ApplyStart, InPhase
      <3>2. CASE pc' = "asking" /\ ph' = ph
        BY <2>2, <3>2 DEF ApplyStart, Forward, Stage, InPhase, InAttempt
      <3> QED
        BY <2>2, <3>1, <3>2 DEF ApplyStart, Goto
    <2>3. CASE AskAuto \/ Ask \/ AskAnswered
      <3>1. pc = "asking" /\ pc' = "waiting" /\ UNCHANGED <<ph, attempt, iter, item>>
        BY <2>3 DEF AskAuto, Ask, AskAnswered, Goto, loopVars
      <3> QED
        BY <3>1 DEF Forward, Stage, InPhase, InAttempt, Turn, InTurn, Gated
    <2>4. CASE ResumeCommand
      <3>1. /\ pc = "waiting" /\ pc' \in {"running", "tools", "commands"}
            /\ UNCHANGED <<ph, attempt, iter, item>>
        BY <2>4 DEF ResumeCommand, Resume, Caller, Goto, loopVars
      <3> QED
        BY <3>1 DEF Forward, Stage, InPhase, InAttempt, Turn, InTurn, Gated
    <2>5. CASE ResumeApproval
      <3>1. CASE PhaseOver
        BY <1>2, <2>5, <3>1 DEF ResumeApproval, Resume, InPhase
      <3>2. CASE pc' = "done"
        BY <2>5, <3>2 DEF ResumeApproval, Resume, Forward, Stage
      <3> QED
        BY <2>5, <3>1, <3>2 DEF ResumeApproval, Finish, Goto
    <2>6. CASE ResumeApply
      <3>1. pc \in InPhase \ {"exec"}
        BY <2>6 DEF ResumeApply, Resume, InPhase
      <3> QED
        BY <1>2, <1>3, <2>6, <3>1 DEF ResumeApply, ApplyPatch, ApplyThrows, ApplySkipped
    <2> QED
      BY <1>8, <2>1, <2>2, <2>3, <2>4, <2>5, <2>6 DEF Asking
<1> QED
    BY <1>4, <1>5, <1>6, <1>7, <1>8 DEF Engine

(* A run never goes in circles, whatever its model, tools, user and        *)
(* clients do.                                                             *)
THEOREM RunsAdvance == Spec => RunAdvances
<1> QED
    BY ForwardStep, TypeInvariant, PTL DEF Spec, RunAdvances

LEMMA WithinStep == TypeInv /\ WithinWorkflow /\ [Next]_vars => WithinWorkflow'
<1> SUFFICES ASSUME TypeInv, WithinWorkflow, [Next]_vars PROVE WithinWorkflow'
    OBVIOUS
<1>1. TypeInv'
    BY TypeStep
<1>2. Len(wf)' \in Nat /\ ph' <= Len(wf)' + 1 /\ iter' <= MaxIterations
      /\ attempt \in Nat /\ attempt' \in Nat /\ item \in Nat /\ item' \in Nat
    BY <1>1, BoundsAssumption, WorkflowsAssumption DEF TypeInv, Values
<1>3. ASSUME pc \in InPhase PROVE ThePhase \in Phase /\ Attempts \in Nat \ {0}
    <2>1. ThePhase \in Phase
      BY <1>3, PhaseTyping DEF TypeInv, Values, Control
    <2> QED
      BY <2>1 DEF Phase, Attempts
<1>4. CASE pc' \notin InPhase
    BY <1>2, <1>4 DEF WithinWorkflow
<1>5. CASE pc' = "exec" /\ pc = "boundary" /\ attempt' = 1
    <2>1. (ThePhase \in Phase)' /\ pc' \in InPhase
      <3>1. wf' \in Workflows /\ ph' \in 1 .. Len(wf')
        BY <1>1, <1>5 DEF TypeInv, Values, Control, InPhase
      <3>2. wf'[ph'] \in Phase
        BY <3>1, WorkflowsAssumption
      <3> QED
        BY <1>5, <3>2 DEF ThePhase, InPhase
    <2>2. Attempts' >= 1
      BY <2>1 DEF Phase, Attempts
    <2> QED
      BY <1>2, <1>5, <2>2 DEF WithinWorkflow
<1>6. ASSUME pc \in InPhase, UNCHANGED <<wf, ph>>, attempt' <= Attempts,
             \/ UNCHANGED item /\ pc # "exec"
             \/ pc' = "exec"
             \/ ThePhase.type # "commands"
             \/ item' <= Len(ThePhase.commands) + 1
      PROVE  WithinWorkflow'
    <2>1. ThePhase' = ThePhase /\ Attempts' = Attempts
      BY <1>6 DEF ThePhase, Attempts
    <2> QED
      BY <1>2, <1>6, <2>1 DEF WithinWorkflow
<1> USE DEF fixed, loopVars
<1>7. CASE Lifecycle
    <2>1. pc' \notin InPhase \/ (pc' = "exec" /\ pc = "boundary" /\ attempt' = 1)
      BY <1>7 DEF Lifecycle, Start, Build, BoundaryCancelled, StartPhase, Gates,
          MeshReturns, Caught, Goto, Finish, InPhase
    <2> QED
      BY <1>4, <1>5, <2>1
<1>8. CASE AttemptThrows /\ pc \in {"chatting", "waiting"} /\ wf' = wf
    <2>1. CASE attempt < Attempts /\ attempt' = attempt + 1 /\ ph' = ph /\ pc' = "exec"
      <3>1. attempt' <= Attempts /\ pc \in InPhase
        BY <1>2, <1>3, <1>8, <2>1 DEF InPhase
      <3> QED
        BY <1>6, <1>8, <2>1, <3>1
    <2>2. CASE pc' \in {"boundary", "caught"}
      BY <1>4, <2>2 DEF InPhase
    <2> QED
      BY <1>8, <2>1, <2>2 DEF AttemptThrows, PhaseOver, Goto
<1>9. ASSUME pc \in InPhase, UNCHANGED <<wf, ph, attempt>>,
             \/ UNCHANGED item /\ pc # "exec"
             \/ pc' = "exec"
             \/ ThePhase.type # "commands"
             \/ item' <= Len(ThePhase.commands) + 1
      PROVE  WithinWorkflow'
    <2>1. attempt' <= Attempts
      BY <1>9 DEF WithinWorkflow
    <2> QED
      BY <1>6, <1>9, <2>1
<1>10. CASE Chats
    <2>1. CASE ChatFails
      BY <1>8, <1>10, <2>1 DEF ChatFails
    <2>2. CASE ChatCall
      BY <1>9, <2>2 DEF ChatCall, InPhase, IsChat
    <2>3. CASE NotePhase \/ ChatDenied \/ ChatReturns
      BY <1>4, <2>3 DEF NotePhase, ChatDenied, ChatReturns, PhaseOver, Goto, InPhase
    <2> QED
      BY <1>10, <2>1, <2>2, <2>3 DEF Chats
<1>11. CASE Agent
    <2>1. pc \in {"exec", "agent", "agentCalling", "tools"} /\ ThePhase.type = "agent_work"
      BY <1>11 DEF Agent, AgentStart, AgentStops, AgentCall, AgentReturns, AgentCallFails,
          TurnOver, ToolCall, TypeInv, Control
    <2>2. \/ pc' \notin InPhase
          \/ UNCHANGED <<wf, ph, attempt>>
      BY <1>11 DEF Agent, AgentStart, AgentStops, AgentCall, AgentReturns, AgentCallFails,
          TurnOver, ToolCall, AgentEnds, PhaseOver, Goto, InPhase
    <2> QED
      BY <1>4, <1>9, <2>1, <2>2 DEF InPhase
<1>12. CASE Shell
    <2>1. CASE CommandsStart
      <3>1. /\ item' = 1 /\ pc \in InPhase /\ UNCHANGED <<wf, ph, attempt>>
        BY <2>1 DEF CommandsStart, InPhase
      <3>2. Len(ThePhase.commands) \in Nat
        BY <1>3, <3>1 DEF Phase
      <3> QED
        BY <1>9, <3>1, <3>2
    <2>2. CASE CommandsOver
      BY <1>4, <2>2 DEF CommandsOver, PhaseOver, Goto, InPhase
    <2>3. CASE CommandGate
      <3>1. /\ item' = item + 1 /\ pc \in InPhase /\ UNCHANGED <<wf, ph, attempt>>
            /\ item <= Len(ThePhase.commands)
        BY <2>3 DEF CommandGate, InPhase
      <3>2. Len(ThePhase.commands) \in Nat
        BY <1>3, <3>1 DEF Phase
      <3> QED
        BY <1>2, <1>9, <3>1, <3>2
    <2>4. CASE CommandExits \/ EditReturns
      BY <1>9, <2>4 DEF CommandExits, EditReturns, InPhase
    <2> QED
      BY <1>12, <2>1, <2>2, <2>3, <2>4 DEF Shell
<1>13. CASE Asking
    <2>1. CASE ApprovalStart
      BY <1>9, <2>1 DEF ApprovalStart, InPhase
    <2>2. CASE ApplyStart
      <3>1. CASE pc' = "boundary"
        BY <1>4, <3>1 DEF InPhase
      <3>2. CASE ph' = ph
        BY <1>9, <2>2, <3>2 DEF ApplyStart, InPhase
      <3> QED
        BY <2>2, <3>1, <3>2 DEF ApplyStart, PhaseOver, Goto
    <2>3. CASE AskAuto \/ Ask \/ AskAnswered \/ ResumeCommand
      BY <1>9, <2>3 DEF AskAuto, Ask, AskAnswered, ResumeCommand, Resume, InPhase
    <2>4. CASE ResumeApproval
      BY <1>4, <2>4 DEF ResumeApproval, PhaseOver, Finish, Goto, InPhase
    <2>5. CASE ResumeApply
      <3>1. CASE AttemptThrows
        BY <1>8, <2>5, <3>1 DEF ResumeApply, Resume
      <3>2. CASE PhaseOver
        BY <1>4, <3>2 DEF PhaseOver, Goto, InPhase
      <3> QED
        BY <2>5, <3>1, <3>2 DEF ResumeApply, ApplyPatch, ApplyThrows, ApplySkipped
    <2> QED
      BY <1>13, <2>1, <2>2, <2>3, <2>4, <2>5 DEF Asking
<1>14. CASE Clients \/ UNCHANGED vars
    <2>1. UNCHANGED <<wf, pc, ph, attempt, item, iter>>
      BY <1>14 DEF Clients, Reply, ReplyLate, Cancel, engineVars, vars
    <2> QED
      BY <1>2, <2>1 DEF WithinWorkflow, ThePhase, Attempts
<1> QED
    BY <1>7, <1>10, <1>11, <1>12, <1>13, <1>14 DEF Next, Engine, Finished

(* So a run has only so many steps to take: its length is bounded by its   *)
(* workflow, the retries and the limit of the agent loop.                  *)
THEOREM RunsStayWithinWorkflow == Spec => []WithinWorkflow
<1>1. Init /\ TypeInv => WithinWorkflow
    BY BoundsAssumption, WorkflowsAssumption DEF Init, WithinWorkflow, InPhase, TypeInv, Values
<1> QED
    BY <1>1, WithinStep, TypeInvariant, PTL DEF Spec

=============================================================================
