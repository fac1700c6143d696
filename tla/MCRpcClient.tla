---------------------------- MODULE MCRpcClient ----------------------------
(* Instances of RpcClient for TLC. *)
EXTENDS RpcClient

CONSTANTS r1, r2

OneRequest  == {r1}
TwoRequests == {r1, r2}
NoRequests  == {}
=============================================================================
