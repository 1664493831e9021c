---------------------------- MODULE ClientProofs ----------------------------
(***************************************************************************)
(* Proofs about RpcClient and LspSession, for any set of calls and any     *)
(* number of versions of the file: that the clients implement RpcCalls,    *)
(* what they promise whatever the server sends, and the freshness of a     *)
(* session's diagnostics.                                                  *)
(***************************************************************************)
EXTENDS LspSession, FiniteSetTheorems, TLAPS

(***************************************************************************)
(* RpcClient implements RpcCalls                                           *)
(***************************************************************************)

(* Requests of a server reach only the client that tells them apart.       *)
AskingAssumption == AskingKinds \subseteq {"lsp"}

Used(c) == state[c] \notin {"idle", "refused"}

(* Ids are given out once, and stand for the call they were given to.      *)
IdsInv ==
  /\ \A c \in Calls : Used(c) => idOf[c] \in 1 .. nextId - 1
  /\ \A c \in Calls : ~Used(c) => idOf[c] = 0
  /\ \A c, d \in Calls : Used(c) /\ Used(d) /\ idOf[c] = idOf[d] => c = d
  /\ asked \cup replied \subseteq 1 .. nextId - 1
  /\ \A i \in 1 .. nextId - 1 : \E c \in Calls : Used(c) /\ idOf[c] = i

(* The pending map holds the open calls, and none once the client is shut. *)
PendingInv ==
  /\ pending = {c \in Calls : state[c] = "open"}
  /\ shut => pending = {}
  /\ phase = "new" => ~shut /\ proc = "none" /\ state[Initialize] = "idle"

(* What reaches the client as an answer was sent by the server.            *)
WireInv ==
  \A m \in wire : /\ AskingAssumption /\ m.body = "request" => kind = "lsp"
                  /\ m.body \in {"result", "malformed"} => m.id \in replied

RpcInv == RpcTypeOK /\ IdsInv /\ PendingInv /\ WireInv

LEMMA RpcInitInv == RpcInit => RpcInv
<1>1. SUFFICES ASSUME RpcInit PROVE RpcInv
  OBVIOUS
<1>2. RpcTypeOK
  <2>1. /\ idOf \in [Calls -> Nat]
        /\ state \in [Calls -> States]
    BY <1>1 DEF RpcInit, States
  <2>2. /\ phase = "new" /\ proc = "none" /\ shut = FALSE /\ nextId = 1
        /\ pending = {} /\ asked = {} /\ replied = {} /\ wire = {}
        /\ kind \in Kinds
    BY <1>1 DEF RpcInit
  <2>3. shut \in BOOLEAN
    BY <2>2, Zenon
  <2>4. /\ wire \subseteq [id : Nat, body : {"result", "malformed", "error", "request"}]
        /\ pending \subseteq Calls /\ asked \subseteq Nat /\ replied \subseteq Nat
    BY <2>2, Zenon
  <2>5. /\ kind \in Kinds /\ nextId \in Nat \ {0}
        /\ phase \in {"new", "connecting", "ready", "failed", "closed"}
        /\ proc \in {"none", "running", "signalled", "exited"}
    BY <2>2
  <2> QED
    BY <2>1, <2>3, <2>4, <2>5 DEF RpcTypeOK
<1>3. IdsInv
  <2>1. \A c \in Calls : ~Used(c) /\ idOf[c] = 0
    BY <1>1 DEF RpcInit, Used
  <2>2. 1 .. nextId - 1 = {}
    BY <1>1 DEF RpcInit
  <2> QED
    BY <1>1, <2>1, <2>2 DEF RpcInit, IdsInv
<1>4. PendingInv /\ WireInv
  BY <1>1, CallsAssumption DEF RpcInit, PendingInv, WireInv
<1> QED
  BY <1>2, <1>3, <1>4 DEF RpcInv

LEMMA SendInv ==
  ASSUME RpcInv, NEW c \in Calls, state[c] = "idle", ~shut,
         NEW alive \in BOOLEAN, Send(c, alive),
         phase' # "new", phase' \in {"connecting", "ready"},
         proc' \in {"none", "running", "signalled", "exited"},
         UNCHANGED <<kind, shut, replied, wire>>
  PROVE  RpcInv'
<1>1. RpcTypeOK'
  BY DEF RpcInv, RpcTypeOK, Send, States
<1>2. IdsInv'
  <2>1. nextId \in Nat \ {0} /\ idOf \in [Calls -> Nat] /\ state \in [Calls -> States]
    BY DEF RpcInv, RpcTypeOK
  <2>2. \A d \in Calls : Used(d)' <=> (d = c \/ Used(d))
    BY <2>1 DEF Used, Send
  <2>3. \A d \in Calls : idOf'[d] = IF d = c THEN nextId ELSE idOf[d]
    BY <2>1 DEF Send
  <2>4. nextId' = nextId + 1
    BY DEF Send
  <2>5. \A d \in Calls : Used(d)' => idOf'[d] \in 1 .. nextId' - 1
    BY <2>1, <2>2, <2>3, <2>4 DEF RpcInv, IdsInv
  <2>6. \A d \in Calls : ~Used(d)' => idOf'[d] = 0
    BY <2>2, <2>3 DEF RpcInv, IdsInv
  <2>7. \A d, e \in Calls : Used(d)' /\ Used(e)' /\ idOf'[d] = idOf'[e] => d = e
    BY <2>1, <2>2, <2>3 DEF RpcInv, IdsInv
  <2>8. (asked \cup replied)' \subseteq 1 .. nextId' - 1
    BY <2>1, <2>4 DEF RpcInv, IdsInv, Send
  <2>9. \A i \in 1 .. nextId' - 1 : \E d \in Calls : Used(d)' /\ idOf'[d] = i
    <3>1. TAKE i \in 1 .. nextId' - 1
    <3>2. CASE i = nextId
      BY <3>2, <2>2, <2>3
    <3>3. CASE i # nextId
      <4>1. i \in 1 .. nextId - 1
        BY <3>3, <2>1, <2>4
      <4>2. PICK d \in Calls : Used(d) /\ idOf[d] = i
        BY <4>1 DEF RpcInv, IdsInv
      <4>3. d # c
        BY <4>2 DEF Used
      <4> QED
        BY <4>2, <4>3, <2>2, <2>3
    <3> QED
      BY <3>2, <3>3
  <2> QED
    BY <2>5, <2>6, <2>7, <2>8, <2>9 DEF IdsInv
<1>3. PendingInv'
  BY DEF RpcInv, RpcTypeOK, PendingInv, Send, States
<1>4. WireInv'
  BY DEF RpcInv, WireInv
<1> QED
  BY <1>1, <1>2, <1>3, <1>4 DEF RpcInv

(* Steps that settle calls and give out no id.                             *)
LEMMA SettlingInv ==
  ASSUME RpcInv, RpcTypeOK', UNCHANGED <<kind, nextId, idOf>>,
         \A c \in Calls : Used(c)' = Used(c),
         asked' \subseteq asked,
         replied \subseteq replied',
         replied' \subseteq replied \cup asked,
         PendingInv', WireInv'
  PROVE  RpcInv'
BY DEF RpcInv, IdsInv

LEMMA DestroyInv ==
  ASSUME RpcInv, Destroy, UNCHANGED <<kind, nextId, idOf, replied>>,
         phase' \in {"new", "connecting", "ready", "failed", "closed"},
         phase' = "new" => phase = "new" /\ shut' = shut
  PROVE  RpcInv'
<1>1. RpcTypeOK'
  BY DEF RpcInv, RpcTypeOK, Destroy, States
<1>2. \A c \in Calls : Used(c)' = Used(c)
  BY DEF RpcInv, RpcTypeOK, PendingInv, Used, Destroy
<1>3. PendingInv'
  BY DEF RpcInv, RpcTypeOK, PendingInv, Destroy
<1>4. WireInv'
  BY DEF RpcInv, WireInv, Destroy
<1>5. asked' \subseteq asked
  BY DEF Destroy
<1> QED
  BY <1>1, <1>2, <1>3, <1>4, <1>5, SettlingInv

LEMMA SendThrowsInv ==
  ASSUME RpcInv, NEW c \in Calls, state[c] = "idle", ~shut, SendThrows(c), phase = "ready",
         UNCHANGED <<kind, phase, proc, shut, replied, wire>>
  PROVE  RpcInv'
<1>1. RpcTypeOK'
  BY DEF RpcInv, RpcTypeOK, SendThrows, States
<1>2. IdsInv'
  <2>1. nextId \in Nat \ {0} /\ idOf \in [Calls -> Nat] /\ state \in [Calls -> States]
    BY DEF RpcInv, RpcTypeOK
  <2>2. \A d \in Calls : Used(d)' <=> (d = c \/ Used(d))
    BY <2>1 DEF Used, SendThrows
  <2>3. \A d \in Calls : idOf'[d] = IF d = c THEN nextId ELSE idOf[d]
    BY <2>1 DEF SendThrows
  <2>4. nextId' = nextId + 1 /\ asked' = asked
    BY DEF SendThrows
  <2>5. \A d \in Calls : Used(d)' => idOf'[d] \in 1 .. nextId' - 1
    BY <2>1, <2>2, <2>3, <2>4 DEF RpcInv, IdsInv
  <2>6. \A d \in Calls : ~Used(d)' => idOf'[d] = 0
    BY <2>2, <2>3 DEF RpcInv, IdsInv
  <2>7. \A d, e \in Calls : Used(d)' /\ Used(e)' /\ idOf'[d] = idOf'[e] => d = e
    BY <2>1, <2>2, <2>3 DEF RpcInv, IdsInv
  <2>8. (asked \cup replied)' \subseteq 1 .. nextId' - 1
    BY <2>1, <2>4 DEF RpcInv, IdsInv
  <2>9. \A i \in 1 .. nextId' - 1 : \E d \in Calls : Used(d)' /\ idOf'[d] = i
    <3>1. TAKE i \in 1 .. nextId' - 1
    <3>2. CASE i = nextId
      BY <3>2, <2>2, <2>3
    <3>3. CASE i # nextId
      <4>1. i \in 1 .. nextId - 1
        BY <3>3, <2>1, <2>4
      <4>2. PICK d \in Calls : Used(d) /\ idOf[d] = i
        BY <4>1 DEF RpcInv, IdsInv
      <4>3. d # c
        BY <4>2 DEF Used
      <4> QED
        BY <4>2, <4>3, <2>2, <2>3
    <3> QED
      BY <3>2, <3>3
  <2> QED
    BY <2>5, <2>6, <2>7, <2>8, <2>9 DEF IdsInv
<1>3. PendingInv'
  BY DEF RpcInv, RpcTypeOK, PendingInv, SendThrows, States
<1>4. WireInv'
  BY DEF RpcInv, WireInv
<1> QED
  BY <1>1, <1>2, <1>3, <1>4 DEF RpcInv

LEMMA ReceiveInv ==
  ASSUME RpcInv, NEW m \in wire, Receive(m)
  PROVE  RpcInv'
<1>1. RpcTypeOK'
  BY DEF RpcInv, RpcTypeOK, Receive, Settle, States
<1>2. \A c \in Calls : Used(c)' = Used(c)
  BY DEF RpcInv, RpcTypeOK, PendingInv, Used, Receive, Settle
<1>3. PendingInv'
  <2>1. \A c \in Calls : state'[c] = "open" <=> state[c] = "open" /\ c \in pending'
    <3>1. m.body \in {"result", "malformed", "error", "request"}
      BY DEF RpcInv, RpcTypeOK
    <3> QED
      BY <3>1 DEF RpcInv, RpcTypeOK, PendingInv, Receive, Settle
  <2>2. pending' \subseteq pending
    BY DEF Receive, Settle
  <2>3. UNCHANGED <<shut, phase, proc>> /\ ~shut
    BY DEF Receive
  <2>4. \A c \in Calls : c \notin pending => state'[c] = state[c]
    BY DEF Receive, Settle
  <2> QED
    BY <2>1, <2>2, <2>3, <2>4, CallsAssumption DEF RpcInv, PendingInv
<1>4. WireInv'
  BY DEF RpcInv, WireInv, Receive
<1> QED
  BY <1>1, <1>2, <1>3, <1>4, SettlingInv DEF Receive

LEMMA RpcStepInv ==
  ASSUME RpcInv, [RpcNext]_rpcVars
  PROVE  RpcInv'
<1>1. CASE Connect
  BY <1>1, SendInv, CallsAssumption DEF Connect, RpcInv, PendingInv
<1>2. ASSUME NEW c \in Calls, Request(c) PROVE RpcInv'
  <2>1. CASE shut
    <3>1. /\ state' = [state EXCEPT ![c] = "refused"]
          /\ UNCHANGED <<kind, phase, proc, shut, nextId, idOf, pending, asked, replied, wire>>
      BY <1>2, <2>1 DEF Request
    <3>2. state[c] = "idle" /\ phase = "ready"
      BY <1>2 DEF Request
    <3>3. RpcTypeOK' /\ PendingInv' /\ WireInv'
      BY <3>1, <3>2 DEF RpcInv, RpcTypeOK, PendingInv, WireInv, States
    <3>4. \A d \in Calls : Used(d)' = Used(d)
      BY <3>1, <3>2 DEF RpcInv, RpcTypeOK, Used
    <3> QED
      BY <3>1, <3>3, <3>4, SettlingInv
  <2>2. CASE ~shut /\ SendThrows(c)
    BY <1>2, <2>2, SendThrowsInv DEF Request
  <2>3. CASE ~shut /\ Send(c, ~Stdio \/ proc = "running")
    BY <1>2, <2>3, SendInv DEF Request, RpcInv, RpcTypeOK
  <2> QED
    BY <1>2, <2>1, <2>2, <2>3 DEF Request
<1>3. ASSUME NEW c \in Calls, Timeout(c) PROVE RpcInv'
  <2>1. RpcTypeOK' /\ PendingInv' /\ WireInv'
    BY <1>3 DEF RpcInv, RpcTypeOK, PendingInv, WireInv, Timeout, States
  <2>2. \A d \in Calls : Used(d)' = Used(d)
    BY <1>3 DEF RpcInv, RpcTypeOK, PendingInv, Used, Timeout
  <2> QED
    BY <1>3, <2>1, <2>2, SettlingInv DEF Timeout
<1>4. ASSUME NEW i \in Ids, NEW body \in {"result", "malformed", "error"}, Reply(i, body)
      PROVE  RpcInv'
  <2>1. RpcTypeOK' /\ PendingInv' /\ WireInv'
    BY <1>4 DEF RpcInv, RpcTypeOK, PendingInv, WireInv, Reply
  <2>2. \A d \in Calls : Used(d)' = Used(d)
    BY <1>4 DEF Used, Reply
  <2> QED
    BY <1>4, <2>1, <2>2, SettlingInv DEF Reply
<1>5. ASSUME NEW i \in Ids, ServerAsks(i) PROVE RpcInv'
  <2>0. i \in Nat
    BY CallsAssumption, FS_CardinalityType DEF Ids
  <2>1. RpcTypeOK' /\ PendingInv' /\ WireInv'
    BY <1>5, <2>0 DEF AskingAssumption, RpcInv, RpcTypeOK, PendingInv, WireInv, ServerAsks
  <2>2. \A d \in Calls : Used(d)' = Used(d)
    BY <1>5 DEF Used, ServerAsks
  <2> QED
    BY <1>5, <2>1, <2>2, SettlingInv DEF ServerAsks
<1>6. ASSUME NEW i \in Ids, PostFails(i) PROVE RpcInv'
  <2>1. RpcTypeOK' /\ PendingInv' /\ WireInv'
    BY <1>6 DEF RpcInv, RpcTypeOK, PendingInv, WireInv, PostFails
  <2>2. \A d \in Calls : Used(d)' = Used(d)
    BY <1>6 DEF Used, PostFails
  <2> QED
    BY <1>6, <2>1, <2>2, SettlingInv DEF PostFails
<1>7. ASSUME NEW m \in wire, Receive(m) PROVE RpcInv'
  BY <1>7, ReceiveInv
<1>8. CASE ServerExits
  <2>1. RpcTypeOK' /\ PendingInv' /\ WireInv'
    BY <1>8 DEF RpcInv, RpcTypeOK, PendingInv, WireInv, ServerExits
  <2>2. \A d \in Calls : Used(d)' = Used(d)
    BY <1>8 DEF Used, ServerExits
  <2> QED
    BY <1>8, <2>1, <2>2, SettlingInv DEF ServerExits
<1>9. CASE TransportEnds
  BY <1>9, DestroyInv DEF TransportEnds, RpcInv, RpcTypeOK, PendingInv
<1>10. CASE HandshakeOk
  <2>1. RpcTypeOK' /\ PendingInv' /\ WireInv'
    BY <1>10 DEF RpcInv, RpcTypeOK, PendingInv, WireInv, HandshakeOk
  <2>2. \A d \in Calls : Used(d)' = Used(d)
    BY <1>10 DEF Used, HandshakeOk
  <2> QED
    BY <1>10, <2>1, <2>2, SettlingInv DEF HandshakeOk
<1>11. CASE HandshakeFails
  <2>1. CASE kind = "lsp"
    <3>1. /\ phase' = "failed"
          /\ UNCHANGED <<kind, proc, shut, nextId, idOf, pending, state, asked, replied, wire>>
      BY <1>11, <2>1 DEF HandshakeFails
    <3>2. RpcTypeOK' /\ PendingInv' /\ WireInv'
      BY <3>1 DEF RpcInv, RpcTypeOK, PendingInv, WireInv
    <3>3. \A d \in Calls : Used(d)' = Used(d)
      BY <3>1 DEF Used
    <3> QED
      BY <3>1, <3>2, <3>3, SettlingInv
  <2>2. CASE kind # "lsp"
    BY <1>11, <2>2, DestroyInv DEF HandshakeFails
  <2> QED
    BY <2>1, <2>2
<1>12. CASE Close
  BY <1>12, DestroyInv DEF Close
<1>13. CASE UNCHANGED rpcVars
  BY <1>13 DEF rpcVars, RpcInv, RpcTypeOK, IdsInv, PendingInv, WireInv, Used
<1> QED
  BY <1>1, <1>2, <1>3, <1>4, <1>5, <1>6, <1>7, <1>8, <1>9, <1>10, <1>11, <1>12, <1>13
  DEF RpcNext, RpcStep

LEMMA RpcInvariant == RpcSpec => []RpcInv
<1>1. RpcInit => RpcInv
  BY RpcInitInv
<1>2. RpcInv /\ [RpcNext]_rpcVars => RpcInv'
  BY RpcStepInv
<1> QED
  BY <1>1, <1>2, PTL DEF RpcSpec

(* The status a caller sees, and the calls that have a reply.              *)
Status == [c \in Calls |-> StatusOf(c)]
RepliedTo == {c \in Calls : idOf[c] \in replied}

LEMMA InitImplements == RpcInit => Promised!Init
BY DEF RpcInit, Promised!Init, StatusOf

LEMMA FailImplements ==
  ASSUME RpcInv, NEW c \in Calls, state[c] \in {"idle", "open"},
         NEW s \in {"error", "timeout", "unsent", "refused", "shut"},
         state' = [state EXCEPT ![c] = s],
         RepliedTo' = RepliedTo, shut' = shut
  PROVE  Promised!Fail(c)
BY DEF Promised!Fail, StatusOf, RepliedTo, RpcInv, RpcTypeOK

LEMMA SendImplements ==
  ASSUME RpcInv, NEW c \in Calls, state[c] = "idle", ~shut,
         NEW alive \in BOOLEAN, Send(c, alive), UNCHANGED <<shut, replied>>
  PROVE  Promised!Start(c)
<1>1. RepliedTo' = RepliedTo
  BY DEF RepliedTo, RpcInv, RpcTypeOK, IdsInv, Used, Send
<1>2. Status' = [Status EXCEPT ![c] = "open"]
  BY DEF Status, StatusOf, RpcInv, RpcTypeOK, Send
<1>3. Status[c] = "idle"
  BY DEF Status, StatusOf
<1> QED
  BY <1>1, <1>2, <1>3 DEF Promised!Start, Status, RepliedTo

LEMMA DestroyImplements ==
  ASSUME RpcInv, ~shut, Destroy, UNCHANGED <<idOf, replied>>
  PROVE  Promised!Shut
<1>1. \A c \in Calls : StatusOf(c)' = IF StatusOf(c) = "open" THEN "failed" ELSE StatusOf(c)
  BY DEF StatusOf, RpcInv, RpcTypeOK, PendingInv, Destroy, States
<1> QED
  BY <1>1 DEF Promised!Shut, Destroy

(* A step that leaves every call and every reply as it was.                *)
LEMMA StutterImplements ==
  ASSUME UNCHANGED <<state, idOf, shut>>, RepliedTo' = RepliedTo
  PROVE  UNCHANGED Promised!vars
BY DEF Promised!vars, StatusOf, RepliedTo

LEMMA ReceiveImplements ==
  ASSUME AskingAssumption, RpcInv, NEW m \in wire, Receive(m)
  PROVE  [Promised!Next]_(Promised!vars)
<1>0. m.body \in {"result", "malformed", "error", "request"}
  BY DEF RpcInv, RpcTypeOK
<1>1. RepliedTo' = RepliedTo /\ shut' = shut /\ idOf' = idOf
  BY DEF Receive, RepliedTo
<1>2. CASE state' = state
  BY <1>1, <1>2, StutterImplements
<1>3. CASE state' # state
  <2>1. Settle(m) /\ m.body # "request"
    BY <1>3 DEF Receive, RpcInv, WireInv
  <2>2. PICK c \in pending : idOf[c] = m.id
    BY <1>3, <2>1 DEF Settle, RpcInv, RpcTypeOK
  <2>3. c \in Calls /\ state[c] = "open"
    BY <2>2 DEF RpcInv, PendingInv
  <2>4. \A d \in pending : idOf[d] = m.id => d = c
    BY <2>2, <2>3 DEF RpcInv, PendingInv, IdsInv, Used
  <2>5. state' = [state EXCEPT ![c] = m.body]
    BY <2>1, <2>2, <2>3, <2>4 DEF Settle, RpcInv, RpcTypeOK
  <2>6. CASE m.body = "error"
    <3>1. Promised!Fail(c)
      BY <2>3, <2>5, <2>6, <1>1, FailImplements
    <3> QED
      BY <3>1, <2>3 DEF Promised!Next
  <2>7. CASE m.body \in {"result", "malformed"}
    <3>1. c \in RepliedTo
      BY <2>2, <2>3, <2>7 DEF RpcInv, WireInv, RepliedTo
    <3>2. Status' = [Status EXCEPT ![c] = "answered"]
      BY <2>3, <2>5, <2>7 DEF Status, StatusOf, RpcInv, RpcTypeOK
    <3>3. Status[c] = "open"
      BY <2>3 DEF Status, StatusOf
    <3>4. Promised!Answer(c)
      BY <3>1, <3>2, <3>3, <1>1 DEF Promised!Answer, Status, RepliedTo
    <3> QED
      BY <3>4, <2>3 DEF Promised!Next
  <2> QED
    BY <1>0, <2>1, <2>6, <2>7
<1> QED
  BY <1>2, <1>3

LEMMA ReplyImplements ==
  ASSUME RpcInv, NEW i \in Ids, NEW body, Reply(i, body)
  PROVE  [Promised!Next]_(Promised!vars)
<1>1. i \in 1 .. nextId - 1
  BY DEF Reply, RpcInv, IdsInv
<1>2. PICK c \in Calls : Used(c) /\ idOf[c] = i
  BY <1>1 DEF RpcInv, IdsInv
<1>3. \A d \in Calls : idOf[d] = i => d = c
  <2>1. TAKE d \in Calls
  <2>2. idOf[d] = i => Used(d)
    BY <1>1 DEF RpcInv, IdsInv
  <2> QED
    BY <1>2, <2>2 DEF RpcInv, IdsInv
<1>4. RepliedTo' = RepliedTo \cup {c}
  BY <1>2, <1>3 DEF RepliedTo, Reply
<1>5. Status[c] # "idle" /\ Status' = Status /\ shut' = shut
  BY <1>2 DEF Status, StatusOf, Used, Reply
<1>6. Promised!Reply(c)
  BY <1>4, <1>5 DEF Promised!Reply, Status, RepliedTo
<1> QED
  BY <1>6, <1>2 DEF Promised!Next

(* Every step of a client is a step of the promise, or leaves it alone.    *)
LEMMA StepImplements ==
  ASSUME AskingAssumption, RpcInv, [RpcNext]_rpcVars
  PROVE  [Promised!Next]_(Promised!vars)
<1>1. CASE Connect
  <2>1. Promised!Start(Initialize)
    BY <1>1, SendImplements, CallsAssumption DEF Connect, RpcInv, PendingInv
  <2> QED
    BY <2>1, CallsAssumption DEF Promised!Next
<1>2. ASSUME NEW c \in Calls, Request(c) PROVE [Promised!Next]_(Promised!vars)
  <2>0. state[c] = "idle" /\ shut' = shut /\ replied' = replied
    BY <1>2 DEF Request
  <2>1. CASE shut
    <3>1. Promised!Fail(c)
      BY <1>2, <2>0, <2>1, FailImplements DEF Request, RepliedTo
    <3> QED
      BY <3>1 DEF Promised!Next
  <2>2. CASE ~shut /\ SendThrows(c)
    <3>1. RepliedTo' = RepliedTo
      BY <2>0, <2>2 DEF RepliedTo, RpcInv, RpcTypeOK, IdsInv, Used, SendThrows
    <3>2. Promised!Fail(c)
      BY <2>0, <2>2, <3>1, FailImplements DEF SendThrows
    <3> QED
      BY <3>2 DEF Promised!Next
  <2>3. CASE ~shut /\ Send(c, ~Stdio \/ proc = "running")
    <3>1. Promised!Start(c)
      BY <2>0, <2>3, SendImplements
    <3> QED
      BY <3>1 DEF Promised!Next
  <2> QED
    BY <1>2, <2>1, <2>2, <2>3 DEF Request
<1>3. ASSUME NEW c \in Calls, Timeout(c) PROVE [Promised!Next]_(Promised!vars)
  <2>1. Promised!Fail(c)
    BY <1>3, FailImplements DEF Timeout, RepliedTo, RpcInv, PendingInv
  <2> QED
    BY <2>1 DEF Promised!Next
<1>4. ASSUME NEW i \in Ids, NEW body \in {"result", "malformed", "error"}, Reply(i, body)
      PROVE  [Promised!Next]_(Promised!vars)
  BY <1>4, ReplyImplements
<1>5. ASSUME NEW i \in Ids, ServerAsks(i) \/ PostFails(i)
      PROVE  [Promised!Next]_(Promised!vars)
  BY <1>5, StutterImplements DEF ServerAsks, PostFails, RepliedTo
<1>6. ASSUME NEW m \in wire, Receive(m) PROVE [Promised!Next]_(Promised!vars)
  BY <1>6, ReceiveImplements
<1>7. CASE ServerExits \/ HandshakeOk
  BY <1>7, StutterImplements DEF ServerExits, HandshakeOk, RepliedTo
<1>8. ASSUME TransportEnds \/ Close \/ HandshakeFails, Destroy
      PROVE  [Promised!Next]_(Promised!vars)
  <2>1. UNCHANGED <<idOf, replied>>
    BY <1>8 DEF TransportEnds, Close, HandshakeFails
  <2>2. CASE shut
    BY <1>8, <2>1, <2>2, StutterImplements DEF Destroy, RepliedTo
  <2>3. CASE ~shut
    BY <1>8, <2>1, <2>3, DestroyImplements DEF Promised!Next
  <2> QED
    BY <2>2, <2>3
<1>9. CASE HandshakeFails /\ kind = "lsp"
  BY <1>9, StutterImplements DEF HandshakeFails, RepliedTo
<1>10. CASE UNCHANGED rpcVars
  BY <1>10, StutterImplements DEF rpcVars, RepliedTo
<1> QED
  BY <1>1, <1>2, <1>3, <1>4, <1>5, <1>6, <1>7, <1>8, <1>9, <1>10
  DEF RpcNext, RpcStep, TransportEnds, Close, HandshakeFails

(* For any calls and any order of responses, timers, failing writes and    *)
(* the transport's end, a client whose server sends no requests of its own *)
(* (or that tells them apart) keeps what RpcCalls promises.                *)
THEOREM ClientImplementsCalls ==
  ASSUME AskingAssumption PROVE RpcSpec => CallsAreKept
<1>1. RpcInit => Promised!Init
  BY InitImplements
<1>2. RpcInv /\ [RpcNext]_rpcVars => [Promised!Next]_(Promised!vars)
  BY StepImplements
<1>3. RpcSpec => []RpcInv
  BY RpcInvariant
<1> QED
  BY <1>1, <1>2, <1>3, PTL DEF RpcSpec, CallsAreKept, Promised!Spec

(***************************************************************************)
(* No server is left behind                                                *)
(***************************************************************************)

(* A client that is shut has signalled its subprocess or seen it exit.     *)
LeakInv == /\ shut => proc # "running"
           /\ phase = "new" => ~shut /\ proc = "none"
           /\ NeverLeaksServer

LEMMA DestroyEndsServer ==
  ASSUME LeakInv, Destroy PROVE shut' /\ proc' # "running"
BY DEF Destroy, LeakInv

LEMMA LeakStep == LeakInv /\ [RpcNext]_rpcVars => LeakInv'
<1> SUFFICES ASSUME LeakInv, [RpcNext]_rpcVars PROVE LeakInv'
  OBVIOUS
<1>1. CASE Connect
  BY <1>1 DEF Connect, LeakInv, NeverLeaksServer
<1>2. CASE HandshakeOk
  BY <1>2 DEF HandshakeOk, LeakInv, NeverLeaksServer
<1>3. CASE HandshakeFails /\ kind = "lsp"
  BY <1>3 DEF HandshakeFails, LeakInv, NeverLeaksServer
<1>4. CASE (HandshakeFails \/ Close \/ TransportEnds) /\ Destroy
  <2>1. phase' = phase \/ phase' # "new"
    BY <1>4 DEF HandshakeFails, Close, TransportEnds
  <2>2. phase # "new"
    BY <1>4 DEF HandshakeFails, Close, TransportEnds, LeakInv
  <2> QED
    BY <1>4, <2>1, <2>2, DestroyEndsServer DEF LeakInv, NeverLeaksServer
<1>5. CASE ServerExits
  BY <1>5 DEF ServerExits, LeakInv, NeverLeaksServer
<1>6. CASE UNCHANGED <<kind, phase, proc, shut>>
  BY <1>6 DEF LeakInv, NeverLeaksServer
<1> QED
  BY <1>1, <1>2, <1>3, <1>4, <1>5, <1>6
  DEF RpcNext, RpcStep, Request, Timeout, Reply, ServerAsks, PostFails, Receive, HandshakeFails,
      Close, TransportEnds, rpcVars

(* However the handshake ends, an MCP server nobody holds does not run.    *)
THEOREM McpNeverLeaksServer == RpcSpec => []NeverLeaksServer
<1>1. RpcInit => LeakInv
  BY DEF RpcInit, LeakInv, NeverLeaksServer
<1>2. LeakInv /\ [RpcNext]_rpcVars => LeakInv'
  BY LeakStep
<1>3. LeakInv => NeverLeaksServer
  BY DEF LeakInv
<1> QED
  BY <1>1, <1>2, <1>3, PTL DEF RpcSpec

(***************************************************************************)
(* The session drives the client by the client's own steps                 *)
(***************************************************************************)

THEOREM SessionRefinesClient == Spec => RpcSpec
<1>1. Init => RpcInit
  BY DEF Init
<1>2. [Next]_vars => [RpcNext]_rpcVars
  BY LspAssumption
  DEF Next, vars, RpcNext, Query, CallTool, Edit, EditWithoutServer, EditDeletes, Publish,
      Deliver, WaitExpires, ContinueFirst, ContinueSettle
<1> QED
  BY <1>1, <1>2, PTL DEF Spec, RpcSpec

(***************************************************************************)
(* Diagnostics are those of the text they were asked for                   *)
(***************************************************************************)

(* A publication speaks of a text that was sent, by that text's version.   *)
Known(p) == p.text \in DOMAIN sent /\ p.version = sent[p.text]

(* Versions grow for as long as the file is not opened afresh.             *)
Growing ==
  \A i, j \in DOMAIN sent :
    i < j /\ (\A u \in i + 1 .. j : sent[u] # 1) => sent[i] < sent[j]

SentInv ==
  /\ Len(sent) <= MaxSyncs
  /\ openDoc <= Len(sent)
  /\ openDoc # 0 => sent # <<>> /\ openDoc = sent[Len(sent)]
  /\ Growing

HeldInv ==
  /\ newest # Nothing => Known(newest)
  /\ \A i \in DOMAIN feed : Known(feed[i])
  /\ mail \notin {Waiting, Nothing} => Known(mail)
  /\ best # Nothing => Known(best) /\ Acceptable(best) /\ at # "idle"
  /\ at # "idle" => sent # <<>>
  /\ at = "idle" => mail = Nothing

VerdictInv == verdict.of <= Len(sent) /\ (Stamped => DiagnosticsAreFresh)

DocInv == DocTypeOK /\ SentInv /\ HeldInv /\ VerdictInv

LEMMA DocInitInv == Init => DocInv
<1> SUFFICES ASSUME Init PROVE DocInv
  OBVIOUS
<1>1. /\ openDoc = 0 /\ sent = <<>> /\ newest = Nothing /\ feed = <<>> /\ at = "idle"
      /\ mail = Nothing /\ best = Nothing
      /\ verdict = [kind |-> "none", of |-> 0, from |-> Nothing]
  BY DEF Init
<1>2. DocTypeOK
  BY <1>1, LspAssumption DEF DocTypeOK, Texts
<1>3. SentInv
  BY <1>1, LspAssumption DEF SentInv, Growing
<1>4. HeldInv
  BY <1>1 DEF HeldInv
<1>5. VerdictInv
  BY <1>1 DEF VerdictInv, DiagnosticsAreFresh
<1> QED
  BY <1>2, <1>3, <1>4, <1>5 DEF DocInv

(* A sync made while nothing is waited for.                                *)
LEMMA SyncInv ==
  ASSUME DocInv, Sync, at = "idle", UNCHANGED <<newest, feed, verdict>>
  PROVE  /\ openDoc' \in 0 .. MaxSyncs /\ sent' \in Seq(Texts) /\ sent' # <<>>
         /\ SentInv' /\ VerdictInv'
         /\ newest # Nothing => Known(newest)'
         /\ \A i \in DOMAIN feed : Known(feed[i])'
<1>1. /\ sent \in Seq(Texts) /\ openDoc \in 0 .. MaxSyncs /\ Len(sent) \in Nat
      /\ openDoc <= Len(sent) /\ Len(sent) < MaxSyncs /\ MaxSyncs \in Nat
  BY LspAssumption DEF DocInv, DocTypeOK, SentInv, Sync, Texts
<1>2. openDoc + 1 \in Texts
  BY <1>1 DEF Texts
<1>3. /\ openDoc' = openDoc + 1 /\ sent' = Append(sent, openDoc + 1)
      /\ sent' \in Seq(Texts) /\ Len(sent') = Len(sent) + 1
      /\ sent'[Len(sent) + 1] = openDoc + 1
      /\ \A i \in DOMAIN sent : i \in DOMAIN sent' /\ sent'[i] = sent[i]
      /\ DOMAIN sent = 1 .. Len(sent) /\ DOMAIN sent' = 1 .. Len(sent) + 1
  BY <1>1, <1>2 DEF Sync
<1>4. SentInv'
  <2>1. Growing'
    <3> SUFFICES ASSUME NEW i \in DOMAIN sent', NEW j \in DOMAIN sent', i < j,
                        \A u \in i + 1 .. j : sent'[u] # 1
                 PROVE  sent'[i] < sent'[j]
      BY DEF Growing
    <3>1. CASE j \in DOMAIN sent
      <4>1. i \in DOMAIN sent /\ \A u \in i + 1 .. j : u \in DOMAIN sent
        BY <1>1, <1>3, <3>1
      <4>2. \A u \in i + 1 .. j : sent[u] # 1
        BY <4>1, <1>3
      <4> QED
        BY <3>1, <4>1, <4>2, <1>3 DEF DocInv, SentInv, Growing
    <3>2. CASE j = Len(sent) + 1
      <4>1. j \in i + 1 .. j
        BY <1>1, <1>3
      <4>2. openDoc # 0
        BY <4>1, <3>2, <1>1, <1>3
      <4>3. openDoc = sent[Len(sent)] /\ Len(sent) \in DOMAIN sent
        BY <4>2, <1>1 DEF DocInv, SentInv
      <4>4. CASE i = Len(sent)
        BY <4>3, <4>4, <3>2, <1>1, <1>3
      <4>5. CASE i < Len(sent)
        <5>1. \A u \in i + 1 .. Len(sent) : u \in i + 1 .. j /\ u \in DOMAIN sent
          BY <1>1, <1>3, <3>2
        <5>2. \A u \in i + 1 .. Len(sent) : sent[u] # 1
          BY <5>1, <1>3
        <5>3. i \in DOMAIN sent /\ sent[i] \in Nat
          BY <4>5, <1>1, <1>3 DEF Texts
        <5>4. sent[i] < sent[Len(sent)]
          BY <5>2, <5>3, <4>3, <4>5 DEF DocInv, SentInv, Growing
        <5> QED
          BY <5>3, <5>4, <4>3, <3>2, <1>1, <1>3
      <4> QED
        BY <4>4, <4>5, <3>2, <1>1, <1>3
    <3> QED
      BY <3>1, <3>2, <1>1, <1>3
  <2> QED
    BY <2>1, <1>1, <1>3 DEF SentInv
<1>5. VerdictInv'
  <2>1. verdict.of \in Nat /\ verdict.of <= Len(sent)
    BY DEF DocInv, DocTypeOK, VerdictInv
  <2>2. verdict.from # Nothing => verdict.from \in Publication
    BY DEF DocInv, DocTypeOK
  <2>3. \A t \in Nat : ReopenedSince(t) => ReopenedSince(t)'
    BY <2>1, <1>1, <1>3 DEF ReopenedSince
  <2>4. verdict.from # Nothing => verdict.from.text \in Nat
    BY <2>2 DEF Publication, Texts
  <2> QED
    BY <2>1, <2>3, <2>4, <1>1, <1>3 DEF DocInv, VerdictInv, DiagnosticsAreFresh
<1>6. newest # Nothing => Known(newest)'
  BY <1>3 DEF DocInv, HeldInv, Known
<1>7. \A i \in DOMAIN feed : Known(feed[i])'
  BY <1>3 DEF DocInv, HeldInv, Known
<1> QED
  BY <1>1, <1>3, <1>4, <1>5, <1>6, <1>7

(* The publication taken is of the newest text, or the file was reopened.  *)
LEMMA AcceptableIsFresh ==
  ASSUME Stamped, DocInv, NEW p \in Publication, Known(p), Acceptable(p)
  PROVE  p.text = Len(sent) \/ \E u \in p.text + 1 .. Len(sent) : sent[u] = 1
<1>0. /\ p.text \in 1 .. Len(sent) /\ sent \in Seq(Texts) /\ Len(sent) \in Nat
      /\ p.version = sent[p.text] /\ p.version >= sent[Len(sent)]
  BY DEF DocInv, DocTypeOK, Known, Acceptable
<1>1. /\ p.text \in 1 .. Len(sent) /\ Len(sent) \in Nat /\ Len(sent) \in 1 .. Len(sent)
      /\ sent[p.text] \in Nat /\ sent[Len(sent)] \in Nat
      /\ DOMAIN sent = 1 .. Len(sent) /\ sent[p.text] >= sent[Len(sent)]
  <2>1. Len(sent) \in 1 .. Len(sent)
    BY <1>0
  <2>2. \A i \in 1 .. Len(sent) : sent[i] \in Nat
    BY <1>0, LspAssumption DEF Texts
  <2>3. DOMAIN sent = 1 .. Len(sent)
    BY <1>0
  <2> QED
    BY <1>0, <2>1, <2>2, <2>3
<1>2. SUFFICES ASSUME p.text < Len(sent), \A u \in p.text + 1 .. Len(sent) : sent[u] # 1
               PROVE  FALSE
  BY <1>1
<1>3. sent[p.text] < sent[Len(sent)]
  BY <1>1, <1>2 DEF DocInv, SentInv, Growing
<1> QED
  BY <1>1, <1>3

LEMMA ReturnInv ==
  ASSUME DocInv, NEW value \in Publication \cup {Nothing}, Return(value),
         value # Nothing => Known(value) /\ Acceptable(value),
         UNCHANGED <<openDoc, sent, newest, feed>>
  PROVE  DocInv'
<1>1. DocTypeOK'
  BY LspAssumption DEF DocInv, DocTypeOK, SentInv, Return
<1>2. SentInv'
  BY DEF DocInv, SentInv, Growing
<1>3. HeldInv'
  BY DEF DocInv, HeldInv, Known, Return
<1>4. VerdictInv'
  <2>1. verdict'.of = Len(sent) /\ verdict'.from = value
    BY DEF Return
  <2>2. Stamped /\ value # Nothing =>
          value.text = Len(sent) \/ \E u \in value.text + 1 .. Len(sent) : sent[u] = 1
    BY AcceptableIsFresh
  <2> QED
    BY <2>1, <2>2 DEF VerdictInv, DiagnosticsAreFresh, ReopenedSince, DocInv, DocTypeOK
<1> QED
  BY <1>1, <1>2, <1>3, <1>4 DEF DocInv

(* A step that sends no text and returns no verdict.                       *)
LEMMA QuietInv ==
  ASSUME DocInv, DocTypeOK', HeldInv', UNCHANGED <<openDoc, sent, verdict>>
  PROVE  DocInv'
BY DEF DocInv, SentInv, Growing, VerdictInv, DiagnosticsAreFresh, ReopenedSince

LEMMA DocStepInv ==
  ASSUME DocInv, [Next]_vars
  PROVE  DocInv'
<1>1. CASE UNCHANGED docVars
  <2>1. DocTypeOK' /\ HeldInv'
    BY <1>1 DEF docVars, DocInv, DocTypeOK, HeldInv, Known, Acceptable
  <2> QED
    BY <1>1, <2>1, QuietInv DEF docVars
<1>2. ASSUME NEW c \in Queries, Query(c) PROVE DocInv'
  <2>1. /\ openDoc' \in 0 .. MaxSyncs /\ sent' \in Seq(Texts) /\ SentInv' /\ VerdictInv'
        /\ newest # Nothing => Known(newest)'
        /\ \A i \in DOMAIN feed : Known(feed[i])'
    BY <1>2, SyncInv DEF Query
  <2>2. DocTypeOK' /\ HeldInv'
    BY <1>2, <2>1 DEF Query, DocInv, DocTypeOK, HeldInv
  <2> QED
    BY <2>1, <2>2 DEF DocInv
<1>3. CASE Edit
  <2>1. /\ openDoc' \in 0 .. MaxSyncs /\ sent' \in Seq(Texts) /\ sent' # <<>>
        /\ SentInv' /\ VerdictInv'
        /\ newest # Nothing => Known(newest)'
        /\ \A i \in DOMAIN feed : Known(feed[i])'
    BY <1>3, SyncInv DEF Edit
  <2>2. DocTypeOK' /\ HeldInv'
    BY <1>3, <2>1 DEF Edit, Await, DocInv, DocTypeOK, HeldInv
  <2> QED
    BY <2>1, <2>2 DEF DocInv
<1>4. CASE EditWithoutServer \/ EditDeletes
  <2>1. DocTypeOK'
    BY <1>4, LspAssumption DEF EditWithoutServer, EditDeletes, DocInv, DocTypeOK, SentInv
  <2>2. SentInv'
    BY <1>4 DEF EditWithoutServer, EditDeletes, DocInv, DocTypeOK, SentInv, Growing
  <2>3. HeldInv'
    BY <1>4 DEF EditWithoutServer, EditDeletes, DocInv, HeldInv, Known, Acceptable
  <2>4. VerdictInv'
    BY <1>4 DEF EditWithoutServer, EditDeletes, VerdictInv, DiagnosticsAreFresh, DocInv, DocTypeOK
  <2> QED
    BY <2>1, <2>2, <2>3, <2>4 DEF DocInv
<1>5. ASSUME NEW p \in Publication, Publish(p) PROVE DocInv'
  <2>1. feed' = Append(feed, p) /\ feed \in Seq(Publication) /\ Known(p)
    BY <1>5 DEF Publish, DocInv, DocTypeOK, Known
  <2>2. DocTypeOK'
    BY <1>5, <2>1 DEF Publish, DocInv, DocTypeOK
  <2>3. \A i \in DOMAIN feed' : feed'[i] = p \/ (i \in DOMAIN feed /\ feed'[i] = feed[i])
    BY <2>1
  <2>4. HeldInv'
    BY <1>5, <2>1, <2>3 DEF Publish, DocInv, HeldInv, Known, Acceptable
  <2> QED
    BY <1>5, <2>2, <2>4, QuietInv DEF Publish
<1>6. CASE Deliver
  <2>1. feed \in Seq(Publication) /\ feed # <<>>
    BY <1>6 DEF Deliver, DocInv, DocTypeOK
  <2>2. /\ feed' \in Seq(Publication) /\ Head(feed) \in Publication /\ Head(feed) = feed[1]
        /\ 1 \in DOMAIN feed
        /\ \A i \in DOMAIN feed' : i + 1 \in DOMAIN feed /\ feed'[i] = feed[i + 1]
    BY <1>6, <2>1 DEF Deliver
  <2>3. DocTypeOK'
    BY <1>6, <2>2 DEF Deliver, DocInv, DocTypeOK
  <2>4. Known(Head(feed)) /\ \A i \in DOMAIN feed' : Known(feed'[i])
    BY <2>2 DEF DocInv, HeldInv
  <2>5. at = "idle" => mail # Waiting
    BY LspAssumption DEF DocInv, HeldInv
  <2>6. HeldInv'
    BY <1>6, <2>4, <2>5 DEF Deliver, DocInv, HeldInv, Known, Acceptable
  <2> QED
    BY <1>6, <2>3, <2>6, QuietInv DEF Deliver
<1>7. CASE WaitExpires
  <2>1. DocTypeOK' /\ HeldInv'
    BY <1>7 DEF WaitExpires, DocInv, DocTypeOK, HeldInv, Known, Acceptable
  <2> QED
    BY <1>7, <2>1, QuietInv DEF WaitExpires
<1>8. CASE ContinueFirst
  <2>0. mail \in Publication \cup {Nothing} /\ (mail # Nothing => Known(mail))
    BY <1>8 DEF ContinueFirst, DocInv, DocTypeOK, HeldInv
  <2>1. CASE Return(Nothing)
    BY <1>8, <2>1, ReturnInv DEF ContinueFirst
  <2>2. CASE mail' = Await /\ UNCHANGED <<at, best, verdict>>
    <3>1. DocTypeOK' /\ HeldInv'
      BY <1>8, <2>2 DEF ContinueFirst, Await, DocInv, DocTypeOK, HeldInv, Known, Acceptable
    <3> QED
      BY <1>8, <2>2, <3>1, QuietInv DEF ContinueFirst
  <2>3. CASE /\ mail # Nothing /\ Acceptable(mail) /\ best' = mail
             /\ at' = "settle1" /\ mail' = Await /\ UNCHANGED verdict
    <3>1. DocTypeOK' /\ HeldInv'
      BY <1>8, <2>0, <2>3 DEF ContinueFirst, Await, DocInv, DocTypeOK, HeldInv, Known, Acceptable
    <3> QED
      BY <1>8, <2>3, <3>1, QuietInv DEF ContinueFirst
  <2> QED
    BY <1>8, <2>1, <2>2, <2>3 DEF ContinueFirst
<1>9. CASE ContinueSettle
  <2>1. mail \in Publication \cup {Nothing} /\ (mail # Nothing => Known(mail))
    BY <1>9 DEF ContinueSettle, DocInv, DocTypeOK, HeldInv
  <2>2. Better \in Publication \cup {Nothing}
        /\ (Better # Nothing => Known(Better) /\ Acceptable(Better))
    BY <2>1 DEF Better, DocInv, DocTypeOK, HeldInv
  <2>3. CASE Return(Better)
    BY <1>9, <2>2, <2>3, ReturnInv DEF ContinueSettle
  <2>4. CASE best' = Better /\ at' = "settle2" /\ mail' = Await /\ UNCHANGED verdict
    <3>1. DocTypeOK' /\ HeldInv'
      BY <1>9, <2>2, <2>4
      DEF ContinueSettle, Await, DocInv, DocTypeOK, HeldInv, Known, Acceptable
    <3> QED
      BY <1>9, <2>4, <3>1, QuietInv DEF ContinueSettle
  <2> QED
    BY <1>9, <2>3, <2>4 DEF ContinueSettle
<1> QED
  BY <1>1, <1>2, <1>3, <1>4, <1>5, <1>6, <1>7, <1>8, <1>9 DEF Next, vars, CallTool

(* With a server that stamps its publications, no chain of waves, settle   *)
(* rounds and deadlines returns the diagnostics of an older text.          *)
THEOREM FreshDiagnostics == ASSUME Stamped PROVE Spec => []DiagnosticsAreFresh
<1>1. Init => DocInv
  BY DocInitInv
<1>2. DocInv /\ [Next]_vars => DocInv'
  BY DocStepInv
<1>3. DocInv => DiagnosticsAreFresh
  BY DEF DocInv, VerdictInv
<1> QED
  BY <1>1, <1>2, <1>3, PTL DEF Spec

(* Every variable of the client and of the session keeps its type.         *)
THEOREM ClientTypeCorrect == Spec => []TypeOK
<1>1. Init => DocInv
  BY DocInitInv
<1>2. DocInv /\ [Next]_vars => DocInv'
  BY DocStepInv
<1>3. RpcSpec => []RpcInv
  BY RpcInvariant
<1>4. DocInv /\ RpcInv => TypeOK
  BY DEF DocInv, RpcInv, TypeOK
<1> QED
  BY <1>1, <1>2, <1>3, <1>4, SessionRefinesClient, PTL DEF Spec

-----------------------------------------------------------------------------
(* Calls, whatever the server sends.                                       *)

(* A call that has come to something keeps it: the response, the timer, the *)
(* throwing write and the end of the transport settle it once between them. *)
SettlesOnce == [][\A c \in Calls : Settled(c) => state'[c] = state[c]]_rpcVars

(* A call waits exactly as long as the pending map holds it, and a shut    *)
(* client holds none.                                                      *)
NoneForgotten ==
  /\ \A c \in Calls : state[c] = "open" <=> c \in pending
  /\ shut => \A c \in Calls : state[c] # "open"

(* A server that numbers its own requests like the client's can spoil a    *)
(* call (it then reads as malformed), but not make one up: a call that     *)
(* comes to a result has been answered by the server.                      *)
ResultsAreReplies == \A c \in Calls : state[c] = "result" => idOf[c] \in replied

LEMMA SettlesStep == RpcInv /\ [RpcNext]_rpcVars => \A c \in Calls : Settled(c) => state'[c] = state[c]
<1> SUFFICES ASSUME RpcInv, [RpcNext]_rpcVars, NEW c \in Calls, Settled(c)
             PROVE  state'[c] = state[c]
  OBVIOUS
<1>1. /\ state \in [Calls -> States] /\ c \notin pending
      /\ state[c] # "idle" /\ state[c] # "open"
      /\ phase = "new" => state[Initialize] = "idle"
  BY DEF RpcInv, RpcTypeOK, PendingInv, Settled
<1>2. CASE Connect
  BY <1>1, <1>2 DEF Connect, Send
<1>3. ASSUME NEW d \in Calls, Request(d) PROVE state'[c] = state[c]
  BY <1>1, <1>3 DEF Request, Send, SendThrows
<1>4. ASSUME NEW d \in Calls, Timeout(d) PROVE state'[c] = state[c]
  BY <1>1, <1>4 DEF Timeout
<1>5. ASSUME NEW m \in wire, Receive(m) PROVE state'[c] = state[c]
  BY <1>1, <1>5 DEF Receive, Settle
<1>6. CASE HandshakeFails \/ Close \/ TransportEnds
  BY <1>1, <1>6 DEF HandshakeFails, Close, TransportEnds, Destroy
<1>7. CASE UNCHANGED state
  BY <1>7
<1> QED BY <1>2, <1>3, <1>4, <1>5, <1>6, <1>7
        DEF RpcNext, RpcStep, HandshakeOk, ServerAsks, PostFails, Reply, ServerExits, rpcVars

(* Nothing that happens to a client settles one of its calls twice.        *)
THEOREM CallsSettleOnce == RpcSpec => SettlesOnce
<1> QED BY RpcInvariant, SettlesStep, PTL DEF RpcSpec, SettlesOnce

(* No call waits for an answer that could no longer reach it.              *)
THEOREM NoCallForgotten == RpcSpec => []NoneForgotten
<1>1. RpcInv => NoneForgotten
  BY DEF RpcInv, PendingInv, NoneForgotten
<1> QED BY <1>1, RpcInvariant, PTL


LEMMA ResultStep ==
  RpcInv /\ ResultsAreReplies /\ [RpcNext]_rpcVars => ResultsAreReplies'
<1> SUFFICES ASSUME RpcInv, ResultsAreReplies, [RpcNext]_rpcVars,
                    NEW c \in Calls, state'[c] = "result"
             PROVE  idOf'[c] \in replied'
  BY DEF ResultsAreReplies
<1>1. state \in [Calls -> States] /\ replied \subseteq replied' /\ idOf \in [Calls -> Nat]
  BY DEF RpcInv, RpcTypeOK, RpcNext, RpcStep, Connect, Request, Timeout, Reply, ServerAsks,
       PostFails, Receive, ServerExits, TransportEnds, HandshakeOk, HandshakeFails, Close, rpcVars
<1>2. CASE state[c] = "result"
  <2>1. idOf'[c] = idOf[c]
    <3>1. ASSUME NEW d \in Calls, state[d] = "idle", Send(d, TRUE) \/ Send(d, FALSE) \/ SendThrows(d)
          PROVE  idOf'[c] = idOf[c]
      BY <1>1, <1>2, <3>1 DEF Send, SendThrows
    <3>2. CASE Connect
      BY <1>2, <3>1, <3>2, CallsAssumption DEF Connect, RpcInv, PendingInv
    <3>3. ASSUME NEW d \in Calls, Request(d) PROVE idOf'[c] = idOf[c]
      <4>1. state[d] = "idle"
        BY <3>3 DEF Request
      <4>2. (~Stdio \/ proc = "running") \in BOOLEAN
        BY DEF Stdio
      <4> QED BY <3>1, <3>3, <4>1, <4>2 DEF Request
    <3> QED BY <3>2, <3>3
      DEF RpcNext, RpcStep, Timeout, Reply, ServerAsks, PostFails, Receive, ServerExits,
          TransportEnds, HandshakeOk, HandshakeFails, Close, rpcVars
  <2> QED BY <1>1, <1>2, <2>1 DEF ResultsAreReplies
<1>3. CASE state[c] # "result"
  <2>1. PICK m \in wire : Receive(m)
    <3>1. ASSUME NEW d \in Calls, Request(d) \/ Timeout(d) PROVE state'[c] # "result"
      BY <1>1, <1>3, <3>1 DEF Request, Timeout, Send, SendThrows
    <3>2. ~Connect
      BY <1>1, <1>3, CallsAssumption DEF Connect, Send
    <3>3. ~Destroy
      BY <1>1, <1>3 DEF Destroy
    <3> QED BY <1>3, <3>1, <3>2, <3>3
        DEF RpcNext, RpcStep, Reply, ServerAsks, PostFails, ServerExits, TransportEnds,
            HandshakeOk, HandshakeFails, Close, rpcVars
  <2>2. m.body = "result" /\ idOf[c] = m.id
    BY <1>1, <1>3, <2>1 DEF Receive, Settle
  <2>3. idOf' = idOf /\ m.id \in replied
    BY <2>1, <2>2 DEF Receive, RpcInv, WireInv
  <2> QED BY <1>1, <2>2, <2>3
<1> QED BY <1>2, <1>3

(* Also for a server whose requests collide with the client's ids, a       *)
(* result is the server's.                                                 *)
THEOREM NoResultInvented == RpcSpec => []ResultsAreReplies
<1>1. RpcInit => ResultsAreReplies
  BY DEF RpcInit, ResultsAreReplies
<1> QED BY <1>1, ResultStep, RpcInvariant, PTL DEF RpcSpec

=============================================================================
