------------------------------ MODULE Dispatch ------------------------------
(***************************************************************************)
(* What the server's two endpoints do with a request: the tables of        *)
(* handlers (rpchandlers.go, rpcwebsocket.go), the registered commands     *)
(* (rpcjson/cmd.go), and the decisions of jsonRPCRead (rpcserver.go) and   *)
(* of inHandler and serviceRequest (rpcwebsocket.go).                      *)
(*                                                                         *)
(* A request is what these decisions look at.  The two endpoints decide in *)
(* different orders: "/" authorizes and then parses the command, "/ws"     *)
(* parses and then authorizes, and ends the connection of a peer without   *)
(* credentials where another gets an error.                                *)
(***************************************************************************)
EXTENDS Naturals

registeredMethods == {"uptime", "stop"}
rpcHandlers       == {"stop", "uptime", "version"}
wsHandlers        == {"session"}
rpcUnimplemented  == {}
rpcLimited        == {"help"}

Methods == registeredMethods \cup rpcHandlers \cup wsHandlers \cup rpcUnimplemented
             \cup rpcLimited \cup {"unknown"}

(* An id is absent or null, one a reply can carry, or of another JSON type. *)
RequestForms ==
  [json: BOOLEAN, id: {"none", "valid", "invalid"}, jsonrpc: BOOLEAN,
   method: Methods, params: {"right", "wrong"}]

Credentials == {"anonymous", "limited", "admin"}
-----------------------------------------------------------------------------
(* Pieces both endpoints use. *)

(* Neither an id nor a version: no response is due. *)
IsNotification(req) == req.id = "none" /\ ~req.jsonrpc

(* The mutant lets a limited user call what is not in rpcLimited. *)
AuthorizedUnlessLimited(who, req) == who = "admin" \/ req.method \notin rpcLimited
Authorized(who, req) == who = "admin" \/ req.method \in rpcLimited

ParseCmd(req) ==
  IF req.method \notin registeredMethods THEN "ErrRPCMethodNotFound"
  ELSE IF req.params = "wrong" THEN "ErrRPCInvalidParams"
  ELSE "ok"

StandardCmdResult(method) ==
  IF method \in rpcHandlers THEN "result"
  ELSE IF method \in rpcUnimplemented THEN "ErrRPCUnimplemented"
  ELSE "ErrRPCMethodNotFound"

(* What becomes of a request.  The connection of a peer may be closed; a command
   may be run; a reply carries an error or the result, unless the request's id
   cannot be marshalled. *)
Closed   == [closes |-> TRUE, runs |-> FALSE, reply |-> "none"]
Silent   == [closes |-> FALSE, runs |-> FALSE, reply |-> "none"]
Carried(req, answer) == IF req.id = "invalid" THEN "none" ELSE answer
Refused(req, error) == [Silent EXCEPT !.reply = Carried(req, error)]
Run(req, answer) == [Refused(req, answer) EXCEPT !.runs = TRUE]
ParseFailure == [Silent EXCEPT !.reply = "ErrRPCParse"]
NotAuthorized(req) == Refused(req, "not authorized")

-----------------------------------------------------------------------------
(* jsonRPCRead, from the body to the reply *)
PostOutcome(who, req) ==
  IF ~req.json THEN ParseFailure
  ELSE IF IsNotification(req) THEN Silent
  ELSE IF ~Authorized(who, req) THEN NotAuthorized(req)
  ELSE IF ParseCmd(req) # "ok" THEN Refused(req, ParseCmd(req))
  ELSE Run(req, StandardCmdResult(req.method))

(* inHandler, from a message to the reply, and serviceRequest.  The mutant
   answers notifications. *)
OrClosed(who, outcome) == IF who = "anonymous" THEN Closed ELSE outcome
ServiceResult(method) ==
  IF method \in wsHandlers THEN "result" ELSE StandardCmdResult(method)
WsAnswersAll(who, req) ==
  IF ~req.json THEN OrClosed(who, ParseFailure)
  ELSE IF ParseCmd(req) # "ok" THEN OrClosed(who, Refused(req, ParseCmd(req)))
  ELSE IF ~Authorized(who, req) THEN NotAuthorized(req)
  ELSE Run(req, ServiceResult(req.method))
WsOutcome(who, req) ==
  IF ~req.json THEN OrClosed(who, ParseFailure)
  ELSE IF IsNotification(req) THEN OrClosed(who, Silent)
  ELSE IF ParseCmd(req) # "ok" THEN OrClosed(who, Refused(req, ParseCmd(req)))
  ELSE IF ~Authorized(who, req) THEN NotAuthorized(req)
  ELSE Run(req, ServiceResult(req.method))

(* Everything an endpoint may do with a request of such a peer. *)
PostOutcomes == [who \in Credentials |-> {PostOutcome(who, req) : req \in RequestForms}]
WsOutcomes   == [who \in Credentials |-> {WsOutcome(who, req) : req \in RequestForms}]
=============================================================================
