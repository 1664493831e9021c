------------------------------ MODULE RpcCalls ------------------------------
(***************************************************************************)
(* What the JSON-RPC clients of the agent runtime promise about the calls  *)
(* made through them (McpClient and LspClient, packages/agent-runtime/src, *)
(* request, handleMessage and destroy): a call settles at most once, it is *)
(* answered only when the server has replied to that very call, and once   *)
(* the connection is shut no call is open and none opens.  RpcClient       *)
(* implements this specification.                                          *)
(***************************************************************************)
CONSTANT Calls
VARIABLES status, replied, shut

vars == <<status, replied, shut>>

TypeOK == /\ status \in [Calls -> {"idle", "open", "answered", "failed"}]
          /\ replied \subseteq Calls
          /\ shut \in BOOLEAN

Init == /\ status = [c \in Calls |-> "idle"]
        /\ replied = {}
        /\ shut = FALSE

Start(c) == /\ ~shut
            /\ status[c] = "idle"
            /\ status' = [status EXCEPT ![c] = "open"]
            /\ UNCHANGED <<replied, shut>>

(* The server replies, with a result or with an error.                     *)
Reply(c) == /\ status[c] # "idle"
            /\ replied' = replied \cup {c}
            /\ UNCHANGED <<status, shut>>

Answer(c) == /\ status[c] = "open"
             /\ c \in replied
             /\ status' = [status EXCEPT ![c] = "answered"]
             /\ UNCHANGED <<replied, shut>>

(* An error reply, a timeout, a write that throws, or a call that is       *)
(* refused because the connection is shut.                                 *)
Fail(c) == /\ status[c] \in {"idle", "open"}
           /\ status' = [status EXCEPT ![c] = "failed"]
           /\ UNCHANGED <<replied, shut>>

(* Every open call fails in the step that shuts the connection.            *)
Shut == /\ ~shut
        /\ shut' = TRUE
        /\ status' = [c \in Calls |-> IF status[c] = "open" THEN "failed" ELSE status[c]]
        /\ UNCHANGED replied

Next == \/ \E c \in Calls : Start(c) \/ Reply(c) \/ Answer(c) \/ Fail(c)
        \/ Shut

Spec == Init /\ [][Next]_vars
=============================================================================
