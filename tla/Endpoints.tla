----------------------------- MODULE Endpoints -----------------------------
(***************************************************************************)
(* One request, sent by one peer to both endpoints of the server: what     *)
(* "/" and "/ws" make of it, side by side.  The two are written separately *)
(* (rpcserver.go and rpcwebsocket.go) and take their decisions in a        *)
(* different order.                                                        *)
(***************************************************************************)
EXTENDS Dispatch

VARIABLES
  who,        \* the peer's credentials
  asked,      \* what it asks for
  outcomes    \* by endpoint, what became of it

endpointVars == <<who, asked, outcomes>>

EndpointsTypeOK ==
  /\ who \in Credentials
  /\ asked \in RequestForms
  /\ DOMAIN outcomes \subseteq {"/", "/ws"}
-----------------------------------------------------------------------------
Ask(endpoint, outcome) ==
  /\ endpoint \notin DOMAIN outcomes
  /\ outcomes' = [e \in DOMAIN outcomes \cup {endpoint} |->
                    IF e = endpoint THEN outcome ELSE outcomes[e]]
  /\ UNCHANGED <<who, asked>>

(* "/" admits nobody without credentials. *)
AskPost == who # "anonymous" /\ Ask("/", PostOutcome(who, asked))
AskWs   == Ask("/ws", WsOutcome(who, asked))

EndpointsInit ==
  /\ who \in Credentials
  /\ asked \in RequestForms
  /\ outcomes = <<>>

EndpointsNext == AskPost \/ AskWs

EndpointsSpec == EndpointsInit /\ [][EndpointsNext]_endpointVars

-----------------------------------------------------------------------------
(* Properties. *)

(* The administrator gets the same answer, or silence, for the same request on
   both endpoints. *)
EndpointsAgree ==
  who = "admin" /\ DOMAIN outcomes = {"/", "/ws"} => outcomes["/"] = outcomes["/ws"]

(* Nobody else has a command run on either, in whatever order the checks come,
   and a peer without credentials sees no error but "not authorized": what is
   wrong with its request it is never told. *)
OthersRunNothing ==
  who # "admin" =>
    \A e \in DOMAIN outcomes :
      /\ ~outcomes[e].runs
      /\ who = "anonymous" =>
           outcomes[e].closes \/ outcomes[e].reply \in {"none", "not authorized"}
=============================================================================
