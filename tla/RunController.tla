--------------------------- MODULE RunController ---------------------------
(***************************************************************************)
(* The live handle of one headless run (class RunExecution of              *)
(* packages/core/src/engine/run-controller.ts): the approval bridge that   *)
(* lets an out-of-band approve() answer the promise the engine awaits, and *)
(* cancel().  A front end (the serve API, the ACP server) holds the        *)
(* handle; the engine of LocalRun calls Confirm.                           *)
(*                                                                         *)
(* Questions are numbered from 1 in the order the engine asks them; 0      *)
(* stands for "no question".  A decision is "yes" or "no".                 *)
(***************************************************************************)
EXTENDS Naturals

VARIABLES
    pending,     \* the parked question, 0 when there is none
    buffered,    \* a decision that came while nothing was pending, or "none"
    answer,      \* what the awaited promise was resolved with, or "none"
    aborted      \* the AbortController's signal

bridgeVars == <<pending, buffered, answer, aborted>>

Decisions == {"yes", "no"}

BridgeInit ==
    /\ pending = 0
    /\ buffered = "none"
    /\ answer = "none"
    /\ aborted = FALSE

BridgeTypeOK ==
    /\ pending \in Nat
    /\ buffered \in Decisions \cup {"none"}
    /\ answer \in Decisions \cup {"none"}

BridgeFlags == aborted \in BOOLEAN

(* confirm(): a buffered decision answers at once, whatever question it    *)
(* was given for; else the question parks.                                 *)
Confirm(q) ==
    \/ /\ buffered # "none"
       /\ answer' = buffered
       /\ buffered' = "none"
       /\ UNCHANGED <<pending, aborted>>
    \/ /\ buffered = "none"
       /\ pending' = q
       /\ UNCHANGED <<buffered, answer, aborted>>

(* confirm() when a listener of the event announcing the question has      *)
(* called approve(d), or cancel(), before it returned: the decision is     *)
(* buffered (over any older one) and taken at once.                        *)
ConfirmAnswered(d) ==
    /\ answer' = d
    /\ buffered' = "none"
    /\ UNCHANGED pending

(* Mutant: approve() drops the parked question without resolving it. *)
ApproveUnresolved(d) ==
    /\ pending' = 0
    /\ buffered' = IF pending = 0 THEN d ELSE buffered
    /\ UNCHANGED answer

(* approve(d): the parked question is answered, or the decision is kept    *)
(* for the next one.                                                       *)
Approve(d) ==
    \/ /\ pending # 0
       /\ answer' = d
       /\ pending' = 0
       /\ UNCHANGED buffered
    \/ /\ pending = 0
       /\ buffered' = d
       /\ UNCHANGED <<pending, answer>>

(* cancel(): decline what is pending, then abort. *)
CancelRun == Approve("no") /\ aborted' = TRUE
============================================================================
