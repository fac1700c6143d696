--------------------------- MODULE MCClientServer ---------------------------
(***************************************************************************)
(* Instances of ClientServer for TLC, of two kinds.  In "few" the          *)
(* application issues up to two commands, with any answers and any         *)
(* failures of the network.  In "crowd" it issues nine, more than there    *)
(* are places for a request between the caller and wsInHandler with every  *)
(* capacity at one, over a connection that lasts, so that every buffer     *)
(* fills.  The nine are alike: they are issued in a fixed order, each when *)
(* the one before it is queued, the server services them all, and a caller *)
(* takes its answer as soon as it is there.                                *)
(***************************************************************************)
EXTENDS ClientServer

CONSTANTS r1, r2, r3, r4, r5, r6, r7, r8, r9

VARIABLE world

TwoRequests  == {r1, r2}
NineInOrder  == <<r1, r2, r3, r4, r5, r6, r7, r8, r9>>
NineRequests == {r1, r2, r3, r4, r5, r6, r7, r8, r9}
NoRequests   == {}

mcVars == <<csVars, world>>

InTurn ==
  \A i \in 1..8 : callPc'[NineInOrder[i]] \in {"idle", "send"} => callPc'[NineInOrder[i + 1]] = "idle"
Answered == {r \in Requests : callPc[r] = "wait" /\ resp[r] # <<>>}
TakesAnswer == Answered # {} => \E r \in Answered : callPc'[r] = "returned"
StaysUp == conn'[1] = "open" /\ svConn' = "open" /\ svInPc' # "disconnect"

(* There is one connection, so it does not matter when wsInHandler looks for it. *)
EntersAtOnce == inPc[1] = "enter" => inPc'[1] = "read"

MCInit ==
  /\ CSInit
  /\ world \in {"few", "crowd"}
  /\ world = "crowd" => peer = "admin"

Few ==
  /\ world = "few"
  /\ CSNext
  /\ \A r \in Requests \ TwoRequests : callPc'[r] = "idle"
Crowd ==
  /\ world = "crowd"
  /\ CSNext
  /\ InTurn /\ TakesAnswer /\ StaysUp /\ svInPc' # "check"

MCNext == (Few \/ Crowd) /\ EntersAtOnce /\ UNCHANGED world

MCSpec == MCInit /\ [][MCNext]_mcVars /\ CSFairness
=============================================================================
