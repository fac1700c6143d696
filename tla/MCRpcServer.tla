---------------------------- MODULE MCRpcServer ----------------------------
(* Instances of RpcServer for TLC. *)
EXTENDS RpcServer

CONSTANTS a1, a2, w1, l1, l2

TwoPosts     == {a1, a2}
OneUpgrade   == {w1}
TwoListeners == {l1, l2}
=============================================================================
