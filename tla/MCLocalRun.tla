----------------------------- MODULE MCLocalRun -----------------------------
(* Instances of LocalRun for TLC: small workflows, each put together so    *)
(* that phases meet whose combination matters.                             *)
EXTENDS LocalRun

P(t) == [type |-> t, onFailure |-> "abort", retries |-> 0,
         required |-> TRUE, commands |-> <<>>]
Retry(p, n) == [p EXCEPT !.onFailure = "retry", !.retries = n]
Go(p)       == [p EXCEPT !.onFailure = "continue"]
Optional(p) == [p EXCEPT !.required = FALSE]
Run(cs)     == [P("commands") EXCEPT !.commands = cs]

MCCommands == {"test", "tsc", "rm"}
MCGate == [c \in MCCommands \cup {"edit"} |->
             CASE c = "rm" -> "deny" [] c = "test" -> "ask"
               [] c = "tsc" -> "allow" [] c = "edit" -> "ask"]

(* Every phase type, a retried and a continued failure, an optional gate,  *)
(* two gated commands in one phase, two applies of one diff, three calls   *)
(* outside an agent (the third over the cap), two runs of the tests.       *)
MCWorkflows == {
    << Retry(P("chat"), 1), P("human_approval"), P("agent_work"), Go(P("review")) >>,
    << P("patch"), Retry(P("apply_patch"), 1), Run(<<"rm", "test", "tsc">>), P("chat") >>,
    << P("patch"), P("apply_patch"), P("apply_patch"), P("review"), Go(P("chat")) >>,
    << Run(<<"test", "test">>), Optional(P("human_approval")), P("note"), Run(<<"test">>) >>,
    << P("agent_work"), P("apply_patch"), P("agent_work") >> }

(* One phase that asks twice.                                              *)
TwoCommands == { << Run(<<"test", "test">>), P("chat") >> }
=============================================================================
