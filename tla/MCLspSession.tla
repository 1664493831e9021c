---------------------------- MODULE MCLspSession ----------------------------
(* LspSession, and RpcClient under it, on a small instance.                *)
EXTENDS LspSession, TLC

CONSTANTS init, c1, c2
=============================================================================
