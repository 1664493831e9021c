------------------------------ MODULE RpcClient -----------------------------
(***************************************************************************)
(* The JSON-RPC clients of the agent runtime: McpClient over its two       *)
(* transports (stdio subprocess, Streamable HTTP) and LspClient over stdio *)
(* (packages/agent-runtime/src/mcp/mcp-client.ts, mcp-transport.ts and     *)
(* lsp/lsp-client.ts, lsp-transport.ts).  A client starts its server, runs *)
(* the initialize handshake, sends requests that are matched to responses  *)
(* by id, and is destroyed once.  A response, the request's own timer, a   *)
(* write that throws and the end of the transport race for one request.    *)
(*                                                                         *)
(* Abstracted: the bodies of messages (a result, an error, a malformed     *)
(* result), framing, and time: a timer may fire whenever it is armed.      *)
(***************************************************************************)
EXTENDS Naturals, FiniteSets

CONSTANTS
  Calls,        \* the requests made through one client
  Initialize,   \* the handshake request, a member of Calls
  Kinds,        \* the clients explored: "stdio" and "http" are McpClient's transports
  AskingKinds   \* the clients whose server sends requests of its own

ASSUME CallsAssumption == /\ Initialize \in Calls
                          /\ IsFiniteSet(Calls)
ASSUME KindsAssumption == /\ Kinds \subseteq {"stdio", "http", "lsp"}
                          /\ AskingKinds \subseteq Kinds

VARIABLES
  kind,     \* which client this is
  phase,    \* the owner's view: new, connecting, ready, failed, closed
  proc,     \* the server subprocess: none, running, signalled, exited
  shut,     \* closedReason is set
  nextId,   \* the next request id
  idOf,     \* the id a call was sent with, 0 before
  pending,  \* the calls in the pending map
  state,    \* what the caller's promise has come to
  asked,    \* ids the server has read and not replied to
  replied,  \* ids the server has replied to (history)
  wire      \* messages on their way to the client

rpcVars == <<kind, phase, proc, shut, nextId, idOf, pending, state, asked, replied, wire>>

States == {"idle", "open", "result", "malformed", "error", "timeout", "unsent", "shut", "refused"}
Ids == 1 .. Cardinality(Calls)

RpcTypeOK ==
  /\ kind \in Kinds
  /\ phase \in {"new", "connecting", "ready", "failed", "closed"}
  /\ proc \in {"none", "running", "signalled", "exited"}
  /\ shut \in BOOLEAN
  /\ nextId \in Nat \ {0}
  /\ idOf \in [Calls -> Nat]
  /\ pending \subseteq Calls
  /\ state \in [Calls -> States]
  /\ asked \subseteq Nat
  /\ replied \subseteq Nat
  /\ wire \subseteq [id : Nat, body : {"result", "malformed", "error", "request"}]

RpcInit ==
  /\ kind \in Kinds
  /\ phase = "new"
  /\ proc = "none"
  /\ shut = FALSE
  /\ nextId = 1
  /\ idOf = [c \in Calls |-> 0]
  /\ pending = {}
  /\ state = [c \in Calls |-> "idle"]
  /\ asked = {}
  /\ replied = {}
  /\ wire = {}

(* A subprocess the client talks to over pipes.                            *)
Stdio == kind \in {"stdio", "lsp"}
Settled(c) == state[c] \notin {"idle", "open"}

(***************************************************************************)
(* request                                                                 *)
(***************************************************************************)

(* The request is registered and written; a server that has died without   *)
(* the client knowing never reads it.                                      *)
Send(c, alive) ==
  /\ nextId' = nextId + 1
  /\ idOf' = [idOf EXCEPT ![c] = nextId]
  /\ pending' = pending \cup {c}
  /\ state' = [state EXCEPT ![c] = "open"]
  /\ asked' = IF alive THEN asked \cup {nextId} ELSE asked

(* The write throws: the registration is undone in the same step.          *)
SendThrows(c) ==
  /\ Stdio
  /\ proc = "exited"
  /\ nextId' = nextId + 1
  /\ idOf' = [idOf EXCEPT ![c] = nextId]
  /\ state' = [state EXCEPT ![c] = "unsent"]
  /\ UNCHANGED <<pending, asked>>

(* connect / connectHttp / LspClient.start: the server is spawned and the  *)
(* initialize request is sent.                                             *)
Connect ==
  /\ phase = "new"
  /\ phase' = "connecting"
  /\ proc' = IF Stdio THEN "running" ELSE "none"
  /\ Send(Initialize, TRUE)
  /\ UNCHANGED <<kind, shut, replied, wire>>

Request(c) ==
  /\ phase = "ready"
  /\ c # Initialize
  /\ state[c] = "idle"
  /\ IF shut
       THEN /\ state' = [state EXCEPT ![c] = "refused"]
            /\ UNCHANGED <<nextId, idOf, pending, asked>>
       ELSE SendThrows(c) \/ Send(c, ~Stdio \/ proc = "running")
  /\ UNCHANGED <<kind, phase, proc, shut, replied, wire>>

(* As it would be if the timer did not delete the pending entry.           *)
TimeoutKeepsEntry(c) ==
  /\ c \in pending
  /\ state' = [state EXCEPT ![c] = "timeout"]
  /\ UNCHANGED <<kind, phase, proc, shut, nextId, idOf, pending, asked, replied, wire>>

(* The timer of a request fires before its response is handled.            *)
Timeout(c) ==
  /\ c \in pending
  /\ pending' = pending \ {c}
  /\ state' = [state EXCEPT ![c] = "timeout"]
  /\ UNCHANGED <<kind, phase, proc, shut, nextId, idOf, asked, replied, wire>>

(***************************************************************************)
(* The server, and the transport under the client                          *)
(***************************************************************************)

Reply(i, body) ==
  /\ i \in asked
  /\ asked' = asked \ {i}
  /\ replied' = replied \cup {i}
  /\ wire' = wire \cup {[id |-> i, body |-> body]}
  /\ UNCHANGED <<kind, phase, proc, shut, nextId, idOf, pending, state>>

(* HttpTransport.deliverError: a failed POST, an HTTP error, or a body     *)
(* that stops being JSON after a reply was already delivered.              *)
PostFails(i) ==
  /\ kind = "http"
  /\ ~shut
  /\ i \in asked \cup replied
  /\ [id |-> i, body |-> "error"] \notin wire
  /\ asked' = asked \ {i}
  /\ wire' = wire \cup {[id |-> i, body |-> "error"]}
  /\ UNCHANGED <<kind, phase, proc, shut, nextId, idOf, pending, state, replied>>

(* A request the server sends, numbered by the server itself (at most one  *)
(* on its way at a time).                                                  *)
ServerAsks(i) ==
  /\ kind \in AskingKinds
  /\ ~shut /\ phase # "new"
  /\ Stdio => proc = "running"
  /\ \A m \in wire : m.body # "request"
  /\ wire' = wire \cup {[id |-> i, body |-> "request"]}
  /\ UNCHANGED <<kind, phase, proc, shut, nextId, idOf, pending, state, asked, replied>>

(* The subprocess dies (or never started); the client is not told yet.     *)
ServerExits ==
  /\ proc = "running"
  /\ proc' = "exited"
  /\ asked' = {}
  /\ UNCHANGED <<kind, phase, shut, nextId, idOf, pending, state, replied, wire>>

(***************************************************************************)
(* handleMessage                                                           *)
(***************************************************************************)

(* A response settles the pending request of its id; a message whose id is *)
(* not pending is dropped.  A request has no result, so the caller is given *)
(* null, which parses as nothing.                                          *)
Settle(m) ==
  LET mine == {c \in pending : idOf[c] = m.id}
  IN  /\ pending' = pending \ mine
      /\ state' = [c \in Calls |-> IF c \notin mine THEN state[c]
                                   ELSE IF m.body = "request" THEN "malformed" ELSE m.body]

(* LspClient tells a request of the server by its method and answers it;   *)
(* McpClient looks at the id only.                                         *)
Receive(m) ==
  /\ m \in wire
  /\ ~shut
  /\ wire' = wire \ {m}
  /\ IF kind = "lsp" /\ m.body = "request"
       THEN UNCHANGED <<pending, state>>
       ELSE Settle(m)
  /\ UNCHANGED <<kind, phase, proc, shut, nextId, idOf, asked, replied>>

(***************************************************************************)
(* destroy, and who calls it                                               *)
(***************************************************************************)

(* As it would be if the pending map were cleared with nothing rejected.   *)
DestroySilently ==
  IF shut THEN UNCHANGED <<shut, pending, state, wire, asked, proc>>
  ELSE /\ shut' = TRUE
       /\ pending' = {}
       /\ wire' = {}
       /\ asked' = {}
       /\ proc' = IF proc = "running" THEN "signalled" ELSE proc
       /\ UNCHANGED state

(* Every pending request is rejected, the transport stops listening and    *)
(* the subprocess is sent SIGTERM.                                         *)
Destroy ==
  IF shut THEN UNCHANGED <<shut, pending, state, wire, asked, proc>>
  ELSE /\ shut' = TRUE
       /\ state' = [c \in Calls |-> IF c \in pending THEN "shut" ELSE state[c]]
       /\ pending' = {}
       /\ wire' = {}
       /\ asked' = {}
       /\ proc' = IF proc = "running" THEN "signalled" ELSE proc

(* The transport reports the end: the exit event of a subprocess, or a     *)
(* frame an LSP stream cannot recover from.                                *)
TransportEnds ==
  /\ ~shut
  /\ \/ Stdio /\ proc = "exited"
     \/ kind = "lsp" /\ proc = "running"
  /\ Destroy
  /\ UNCHANGED <<kind, phase, nextId, idOf, replied>>

(* The continuation of the handshake.  McpClient destroys the client when  *)
(* initialize failed or its result does not parse; LspClient.start lets    *)
(* the error out and the client it built is dropped.                       *)
InitializeParsed ==
  \/ state[Initialize] = "result"
  \/ /\ kind = "lsp"
     /\ state[Initialize] = "malformed"

HandshakeOk ==
  /\ phase = "connecting"
  /\ InitializeParsed
  /\ phase' = "ready"
  /\ UNCHANGED <<kind, proc, shut, nextId, idOf, pending, state, asked, replied, wire>>

(* As it would be without the destroy in the catch of the handshake.       *)
HandshakeFailsDropped ==
  /\ phase = "connecting"
  /\ Settled(Initialize)
  /\ ~InitializeParsed
  /\ phase' = "failed"
  /\ UNCHANGED <<kind, proc, shut, nextId, idOf, pending, state, asked, replied, wire>>

HandshakeFails ==
  /\ phase = "connecting"
  /\ Settled(Initialize)
  /\ ~InitializeParsed
  /\ phase' = "failed"
  /\ IF kind = "lsp" THEN UNCHANGED <<shut, pending, state, wire, asked, proc>> ELSE Destroy
  /\ UNCHANGED <<kind, nextId, idOf, replied>>

(* closeMcp in the adapter's finally, LspSession.close.                    *)
Close ==
  /\ phase = "ready"
  /\ phase' = "closed"
  /\ Destroy
  /\ UNCHANGED <<kind, nextId, idOf, replied>>

(* Every step but a caller making a request.                               *)
RpcStep ==
  \/ Connect \/ HandshakeOk \/ HandshakeFails \/ Close
  \/ \E c \in Calls : Timeout(c)
  \/ \E i \in Ids : ServerAsks(i) \/ PostFails(i)
  \/ \E i \in Ids, body \in {"result", "malformed", "error"} : Reply(i, body)
  \/ \E m \in wire : Receive(m)
  \/ ServerExits \/ TransportEnds

RpcNext == RpcStep \/ \E c \in Calls : Request(c)

(***************************************************************************)
(* Properties                                                              *)
(***************************************************************************)

(* What a caller sees of its call, and the calls the server has replied to *)
(* (an HTTP transport stands in for the server when a POST fails, with an  *)
(* error).                                                                 *)
StatusOf(c) ==
  CASE state[c] \in {"idle", "open"} -> state[c]
    [] state[c] \in {"result", "malformed"} -> "answered"
    [] OTHER -> "failed"

Promised == INSTANCE RpcCalls WITH
              status <- [c \in Calls |-> StatusOf(c)],
              replied <- {c \in Calls : idOf[c] \in replied},
              shut <- shut

(* Whatever the order of responses, timers, failing writes and the end of  *)
(* the transport, every call is settled once, with its own reply, and the  *)
(* end of the connection leaves none open (request, handleMessage,         *)
(* destroy).                                                               *)
CallsAreKept == Promised!Spec

(* "The subprocess is always cleaned up on failure - this never leaks a    *)
(* process" (McpClient.connect): once nobody holds the client, its server  *)
(* is not left running.  LspClient.start has no such clean-up.             *)
NeverLeaksServer ==
  (kind = "stdio" /\ phase \in {"failed", "closed"}) => proc # "running"

(* Every request made comes to an end, with the server silent or gone.     *)
CallsSettle == \A c \in Calls : (state[c] = "open") ~> (state[c] # "open")

RpcSpec == RpcInit /\ [][RpcNext]_rpcVars
=============================================================================
