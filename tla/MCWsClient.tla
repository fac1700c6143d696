---------------------------- MODULE MCWsClient ----------------------------
(* Instances of WsClient for TLC. *)
EXTENDS WsClient, TLC

CONSTANTS q1, q2, q3, q4

FourRequests == {q1, q2, q3, q4}
FourInOrder  == <<q1, q2, q3, q4>>

RequestSymmetry == Permutations(FourRequests)

(* The messages are alike: it is enough that the peer sends them in one order. *)
SentInOrder ==
  \A i \in 1..3 : FourInOrder[i + 1] \notin unread' => FourInOrder[i] \notin unread'

InOrderFairSpec == WsInit /\ [][WsNext /\ SentInOrder]_wsVars /\ WsFairness
=============================================================================
