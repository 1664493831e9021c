----------------------------- MODULE LspSession -----------------------------
(***************************************************************************)
(* The language-server session of a run: LspSession over one LspClient     *)
(* (packages/agent-runtime/src/lsp/lsp-session.ts and lsp-client.ts).      *)
(* After each edit the adapter syncs the file to the server and waits for  *)
(* the diagnostics of that version; the payload is evidence for the run's  *)
(* "the code type-checks" claim.  One file is followed.                    *)
(*                                                                         *)
(* The server publishes in waves: a syntactic pass (often empty), then the *)
(* semantic one.  Publications reach the client in order; several may come *)
(* in one chunk, before the promise that waits for them is continued.      *)
(***************************************************************************)
EXTENDS RpcClient, Sequences

CONSTANTS
  Queries,      \* the requests a session makes: definition, references, hover
  MaxSyncs,     \* bound on the versions of the file sent in one behaviour
  Stamped,      \* the server stamps its publications with the version
  Waiting,      \* a waiter that is registered
  Nothing       \* the null a waiter comes to

ASSUME LspAssumption == /\ Queries \subseteq Calls \ {Initialize}
                        /\ MaxSyncs \in Nat \ {0}
                        /\ Stamped \in BOOLEAN
                        /\ Waiting # Nothing

VARIABLES
  openDoc,    \* openDocs: the version of the open document, 0 when not open
  sent,       \* the version each text went out with, in order (history)
  newest,     \* the server's newest publication
  feed,       \* publications on their way to the client
  at,         \* where diagnosticsFor is: idle, first, settle1, settle2
  mail,       \* its one-shot waiter: Waiting, Nothing, or the publication it was given
  best,       \* the last acceptable publication, or Nothing
  verdict     \* what diagnosticsFor returned last

docVars == <<openDoc, sent, newest, feed, at, mail, best, verdict>>
vars == <<rpcVars, docVars>>

Texts == 1 .. MaxSyncs
Publication == [text : Texts, version : Texts, pass : {1, 2}]

DocTypeOK ==
  /\ openDoc \in 0 .. MaxSyncs
  /\ sent \in Seq(Texts)
  /\ newest \in Publication \cup {Nothing}
  /\ feed \in Seq(Publication)
  /\ at \in {"idle", "first", "settle1", "settle2"}
  /\ mail \in Publication \cup {Waiting, Nothing}
  /\ best \in Publication \cup {Nothing}
  /\ verdict \in [kind : {"none", "null", "payload"}, of : 0 .. MaxSyncs,
                  from : Publication \cup {Nothing}]

TypeOK == RpcTypeOK /\ DocTypeOK

Init ==
  /\ RpcInit
  /\ openDoc = 0
  /\ sent = <<>>
  /\ newest = Nothing
  /\ feed = <<>>
  /\ at = "idle"
  /\ mail = Nothing
  /\ best = Nothing
  /\ verdict = [kind |-> "none", of |-> 0, from |-> Nothing]

(* As it would be if both the session and the client counted the change.   *)
SyncTwice ==
  /\ Len(sent) < MaxSyncs
  /\ openDoc' = openDoc + 2
  /\ sent' = Append(sent, openDoc + 2)

(* didOpen sends version 1, didChange the next one.                        *)
Sync ==
  /\ Len(sent) < MaxSyncs
  /\ openDoc' = openDoc + 1
  /\ sent' = Append(sent, openDoc + 1)

(* waitForPublish: nothing to wait for once the client is shut.            *)
Await == IF shut THEN Nothing ELSE Waiting

Return(value) ==
  /\ at' = "idle"
  /\ mail' = Nothing
  /\ best' = Nothing
  /\ verdict' = [kind |-> "payload", of |-> Len(sent), from |-> value]

(* diagnosticsFor of an edited file, on the cached client.                 *)
Edit ==
  /\ kind = "lsp"
  /\ phase = "ready"
  /\ at = "idle"
  /\ Sync
  /\ at' = "first"
  /\ mail' = Await
  /\ best' = Nothing
  /\ UNCHANGED <<rpcVars, newest, feed, verdict>>

(* The cached client is the null of a start that failed.                   *)
EditWithoutServer ==
  /\ kind = "lsp"
  /\ phase = "failed"
  /\ verdict.kind # "null"
  /\ verdict' = [kind |-> "null", of |-> Len(sent), from |-> Nothing]
  /\ UNCHANGED <<rpcVars, openDoc, sent, newest, feed, at, mail, best>>

(* The edit removed the file: didClose, and a later didOpen starts at 1.   *)
EditDeletes ==
  /\ kind = "lsp"
  /\ phase = "ready"
  /\ at = "idle"
  /\ openDoc # 0
  /\ openDoc' = 0
  /\ verdict' = [kind |-> "null", of |-> Len(sent), from |-> Nothing]
  /\ UNCHANGED <<rpcVars, sent, newest, feed, at, mail, best>>

(* queryFor syncs the file, then asks.                                     *)
Query(c) ==
  /\ kind = "lsp"
  /\ at = "idle"
  /\ Request(c)
  /\ Sync
  /\ UNCHANGED <<newest, feed, at, mail, best, verdict>>

(* listTools and callTool of an McpClient: no document is involved.        *)
CallTool(c) ==
  /\ kind # "lsp"
  /\ Request(c)
  /\ UNCHANGED docVars

(* The server works through the texts it was sent, at its own pace, and    *)
(* may skip a pass or a text.                                              *)
Later(p, q) == \/ p.text > q.text
               \/ /\ p.text = q.text
                  /\ p.pass > q.pass

Publish(p) ==
  /\ kind = "lsp"
  /\ proc = "running"
  /\ p.text \in DOMAIN sent
  /\ p.version = sent[p.text]
  /\ newest # Nothing => Later(p, newest)
  /\ newest' = p
  /\ feed' = Append(feed, p)
  /\ UNCHANGED <<rpcVars, openDoc, sent, at, mail, best, verdict>>

(* handleNotification: the registered waiter takes the publication; with   *)
(* none registered it is only noted in `latest`, which nothing reads.      *)
Deliver ==
  /\ feed # <<>>
  /\ ~shut
  /\ feed' = Tail(feed)
  /\ mail' = IF mail = Waiting THEN Head(feed) ELSE mail
  /\ UNCHANGED <<rpcVars, openDoc, sent, newest, at, best, verdict>>

(* The waiter's own timer, or the run's abort signal.                      *)
WaitExpires ==
  /\ mail = Waiting
  /\ mail' = Nothing
  /\ UNCHANGED <<rpcVars, openDoc, sent, newest, feed, at, best, verdict>>

(* As it would be if the version were taken before the change is sent.     *)
AcceptableOffByOne(p) == ~Stamped \/ p.version + 1 >= sent[Len(sent)]

Acceptable(p) == ~Stamped \/ p.version >= sent[Len(sent)]

(* The continuation of diagnosticsFor.  A stale wave is waited out until   *)
(* the deadline; an acceptable one is followed by up to two settle rounds. *)
ContinueFirst ==
  /\ at = "first"
  /\ mail # Waiting
  /\ \/ mail = Nothing /\ Return(Nothing)
     \/ /\ mail # Nothing
        /\ ~Acceptable(mail)
        /\ \/ Return(Nothing)
           \/ mail' = Await /\ UNCHANGED <<at, best, verdict>>
     \/ /\ mail # Nothing
        /\ Acceptable(mail)
        /\ best' = mail
        /\ at' = "settle1"
        /\ mail' = Await
        /\ UNCHANGED verdict
  /\ UNCHANGED <<rpcVars, openDoc, sent, newest, feed>>

Better == IF mail # Nothing /\ Acceptable(mail) THEN mail ELSE best

ContinueSettle ==
  /\ at \in {"settle1", "settle2"}
  /\ mail # Waiting
  /\ IF at = "settle2" \/ mail = Nothing
       THEN Return(Better)
       ELSE /\ best' = Better
            /\ at' = "settle2"
            /\ mail' = Await
            /\ UNCHANGED verdict
  /\ UNCHANGED <<rpcVars, openDoc, sent, newest, feed>>

Next ==
  \/ RpcStep /\ UNCHANGED docVars
  \/ \E c \in Queries : Query(c)
  \/ \E c \in Calls : CallTool(c)
  \/ Edit \/ EditWithoutServer \/ EditDeletes
  \/ \E p \in Publication : Publish(p)
  \/ Deliver \/ WaitExpires \/ ContinueFirst \/ ContinueSettle

(* Timers fire and the continuation of a resolved promise runs; nothing is *)
(* asked of the server.                                                    *)
Fairness ==
  /\ \A c \in Calls : WF_vars(Timeout(c) /\ UNCHANGED docVars)
  /\ WF_vars(WaitExpires)
  /\ WF_vars(ContinueFirst)
  /\ WF_vars(ContinueSettle)

Spec == Init /\ [][Next]_vars /\ Fairness

-----------------------------------------------------------------------------
(* "If it carries a version older than sentVersion, ignore it (a stale     *)
(* wave)": whatever wave of whatever round is taken, the diagnostics       *)
(* returned for an edit are those of that edit's text - except that a file *)
(* deleted and created again is opened at version 1, and a wave of its     *)
(* earlier life then passes for a fresh one.                               *)
ReopenedSince(t) == \E u \in t + 1 .. verdict.of : sent[u] = 1

DiagnosticsAreFresh ==
  verdict.from # Nothing =>
    \/ verdict.from.text = verdict.of
    \/ ReopenedSince(verdict.from.text)

(* The agent waits for diagnosticsFor before its next step; it returns     *)
(* whether the server answers, stalls or dies.                             *)
EditsSettle == (at # "idle") ~> (at = "idle")

(* Nothing waits for ever on a silent or dead server: no request, and no   *)
(* edit of the agent.                                                      *)
Settles == CallsSettle /\ EditsSettle
=============================================================================
