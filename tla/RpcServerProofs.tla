--------------------------- MODULE RpcServerProofs ---------------------------
(***************************************************************************)
(* Proofs about the server's HTTP side, for any requests, listeners and    *)
(* limits: the types of RpcServer and its exact count of clients; that a   *)
(* response gets its own status line (StatusLines); and what the two       *)
(* endpoints have in common (Endpoints).                                   *)
(***************************************************************************)
EXTENDS RpcServer, StatusLines, Endpoints, FiniteSetTheorems, TLAPS

(* A websocket upgrade goes a way of its own, on which nothing is counted. *)
UpgradesUncounted ==
  \A r \in Upgrades : reqPc[r] \in {"idle", "auth", "ws", "done"}

SrvInv == SrvTypeOK /\ UpgradesUncounted /\ ClientsAccounted

CountedPosts == {r \in Posts : Counted(r)}
-----------------------------------------------------------------------------
(* How a step of one request changes the set of those that count. *)

LEMMA CountedFinite == IsFiniteSet(CountedPosts) /\ Cardinality(CountedPosts) \in Nat
<1>1. CountedPosts \subseteq Posts
  BY DEF CountedPosts
<1>2. IsFiniteSet(CountedPosts)
  BY <1>1, ServerConfigAssumption, FS_Subset
<1> QED BY <1>2, FS_CardinalityType

LEMMA GotoResult ==
  ASSUME SrvTypeOK, NEW r \in Requests, NEW pc \in ReqPcs, Goto(r, pc)
  PROVE  /\ reqPc' \in [Requests -> ReqPcs] /\ reqPc'[r] = pc
         /\ \A q \in Requests \ {r} : reqPc'[q] = reqPc[q]
  BY DEF SrvTypeOK, Goto

LEMMA CountUnchanged ==
  ASSUME SrvInv, NEW r \in Requests, NEW pc \in ReqPcs, Goto(r, pc),
         r \in Posts => (Counted(r)' <=> Counted(r)),
         r \in Upgrades => pc \in {"idle", "auth", "ws", "done"},
         UNCHANGED numClients
  PROVE  UpgradesUncounted' /\ ClientsAccounted'
<1>1. \A q \in Requests \ {r} : reqPc'[q] = reqPc[q]
  BY GotoResult DEF SrvInv
<1>2. \A q \in Posts : Counted(q)' <=> Counted(q)
  BY <1>1 DEF Counted, Requests
<1>3. ClientsAccounted'
  BY <1>2 DEF SrvInv, ClientsAccounted
<1>4. UpgradesUncounted'
  BY <1>1, GotoResult DEF SrvInv, UpgradesUncounted, Requests
<1> QED BY <1>3, <1>4

LEMMA CountUp ==
  ASSUME SrvInv, NEW r \in Posts, ~Counted(r), Goto(r, "auth"), numClients' = numClients + 1
  PROVE  UpgradesUncounted' /\ ClientsAccounted'
<1>1. /\ reqPc'[r] = "auth"
      /\ \A q \in Requests \ {r} : reqPc'[q] = reqPc[q]
  BY GotoResult DEF SrvInv, ReqPcs, Requests
<1>2. {q \in Posts : Counted(q)'} = CountedPosts \cup {r}
  BY <1>1 DEF Counted, CountedPosts, Requests
<1>3. r \notin CountedPosts
  BY DEF CountedPosts
<1>4. Cardinality(CountedPosts \cup {r}) = Cardinality(CountedPosts) + 1
  BY <1>3, CountedFinite, FS_AddElement
<1>5. ClientsAccounted'
  BY <1>2, <1>4 DEF SrvInv, ClientsAccounted, CountedPosts
<1>6. UpgradesUncounted'
  BY <1>1, ServerConfigAssumption DEF SrvInv, UpgradesUncounted, Requests
<1> QED BY <1>5, <1>6

LEMMA CountDown ==
  ASSUME SrvInv, NEW r \in Posts, Counted(r), Goto(r, "done"), numClients' = numClients - 1
  PROVE  UpgradesUncounted' /\ ClientsAccounted' /\ numClients' \in Nat
<1>1. /\ reqPc'[r] = "done"
      /\ \A q \in Requests \ {r} : reqPc'[q] = reqPc[q]
  BY GotoResult DEF SrvInv, ReqPcs, Requests
<1>2. {q \in Posts : Counted(q)'} = CountedPosts \ {r}
  BY <1>1 DEF Counted, CountedPosts, Requests
<1>3. r \in CountedPosts
  BY DEF CountedPosts
<1>4. Cardinality(CountedPosts \ {r}) = Cardinality(CountedPosts) - 1
  BY <1>3, CountedFinite, FS_RemoveElement
<1>5. Cardinality(CountedPosts \ {r}) \in Nat
  BY CountedFinite, FS_RemoveElement, FS_CardinalityType
<1>6. ClientsAccounted'
  BY <1>2, <1>4 DEF SrvInv, ClientsAccounted, CountedPosts
<1>7. UpgradesUncounted'
  BY <1>1, ServerConfigAssumption DEF SrvInv, UpgradesUncounted, Requests
<1>8. numClients' \in Nat
  BY <1>4, <1>5 DEF SrvInv, ClientsAccounted, CountedPosts
<1> QED BY <1>6, <1>7, <1>8

(* Steps that concern no request. *)
LEMMA RequestsUnchanged ==
  ASSUME SrvInv, UNCHANGED <<numClients, reqPc>>
  PROVE  UpgradesUncounted' /\ ClientsAccounted'
  BY DEF SrvInv, UpgradesUncounted, ClientsAccounted, Counted

-----------------------------------------------------------------------------
LEMMA SrvInvInit == SrvInit => SrvInv
<1> SUFFICES ASSUME SrvInit PROVE SrvInv
  OBVIOUS
<1>1. SrvTypeOK
  BY DEF SrvInit, SrvTypeOK, MainPcs, IntPcs, RelayPcs, ReqPcs
<1>2. UpgradesUncounted
  BY DEF SrvInit, UpgradesUncounted, Requests
<1>3. {r \in Posts : Counted(r)} = {}
  BY DEF SrvInit, Counted, Requests
<1>4. ClientsAccounted
  BY <1>3, FS_EmptySet DEF SrvInit, ClientsAccounted
<1> QED BY <1>1, <1>2, <1>4 DEF SrvInv

LEMMA MainKeeps == ASSUME SrvInv, Main PROVE SrvInv'
<1> USE DEF processVars, serverVars, requestVars
<1>1. UNCHANGED requestVars
  BY DEF Main, NewServer, Start, MainInterrupted, StopClosed, StopWait, StopClose
<1>2. SrvTypeOK'
  BY DEF Main, NewServer, Start, MainInterrupted, StopClosed, StopWait, StopClose,
         SrvInv, SrvTypeOK, MainPcs, RelayPcs
<1> QED BY <1>1, <1>2, RequestsUnchanged DEF SrvInv

LEMMA SignalsKeep ==
  ASSUME SrvInv, InterruptListener \/ Signal \/ Relay \/ \E l \in Listeners : ServeReturn(l)
  PROVE  SrvInv'
<1> USE DEF processVars, serverVars, requestVars
<1>1. UNCHANGED requestVars
  BY DEF InterruptListener, IntNotify, IntSignal, IntClose, Signal, Relay, RelayReceive,
         RelayForward, ServeReturn
<1>2. SrvTypeOK'
  <2>1. CASE InterruptListener
    BY <2>1 DEF InterruptListener, IntNotify, IntSignal, IntClose, AfterReceive,
                SrvInv, SrvTypeOK, IntPcs
  <2>2. CASE Signal
    BY <2>2 DEF Signal, SrvInv, SrvTypeOK, MainPcs
  <2>3. CASE Relay
    BY <2>3 DEF Relay, RelayReceive, RelayForward, AfterReceive, SrvInv, SrvTypeOK,
                RelayPcs, IntPcs
  <2>4. CASE \E l \in Listeners : ServeReturn(l)
    BY <2>4 DEF ServeReturn, SrvInv, SrvTypeOK
  <2> QED BY <2>1, <2>2, <2>3, <2>4
<1> QED BY <1>1, <1>2, RequestsUnchanged DEF SrvInv

(* The other variables when a request moves on. *)
LEMMA RequestTypes ==
  ASSUME SrvInv, NEW r \in Requests, NEW pc \in ReqPcs, Goto(r, pc),
         UNCHANGED <<processVars, listening, serving, shutdown>>,
         relayPc' \in RelayPcs, isAdmin' \subseteq Requests, numClients' \in Nat
  PROVE  SrvTypeOK'
<1>1. reqPc' \in [Requests -> ReqPcs]
  BY GotoResult DEF SrvInv
<1> QED BY <1>1 DEF SrvInv, SrvTypeOK, processVars

LEMMA RequestQuiet ==
  ASSUME SrvInv, NEW r \in Requests, NEW pc \in ReqPcs, Goto(r, pc),
         r \in Posts => (Counted(r) <=> pc \in {"auth", "read", "body", "run", "reply", "leave"}),
         r \in Upgrades => pc \in {"idle", "auth", "ws", "done"},
         UNCHANGED <<processVars, listening, serving, shutdown, numClients>>,
         relayPc' \in RelayPcs, isAdmin' \subseteq Requests
  PROVE  SrvInv'
<1>1. reqPc'[r] = pc
  BY GotoResult DEF SrvInv
<1>2. r \in Posts => (Counted(r)' <=> Counted(r))
  BY <1>1 DEF Counted
<1>3. UpgradesUncounted' /\ ClientsAccounted'
  BY <1>2, CountUnchanged
<1>4. SrvTypeOK'
  BY RequestTypes DEF SrvInv, SrvTypeOK
<1> QED BY <1>3, <1>4 DEF SrvInv

LEMMA RequestKeeps == ASSUME SrvInv, NEW r \in Requests, HandleRequest(r) PROVE SrvInv'
<1> USE DEF serverVars, Counted, ReqPcs
<1>0. /\ relayPc \in RelayPcs /\ isAdmin \subseteq Requests
      /\ r \in Upgrades => r \notin Posts /\ reqPc[r] \in {"idle", "auth", "ws", "done"}
      /\ r \in Posts \/ r \in Upgrades
      /\ numClients \in Nat
  BY ServerConfigAssumption DEF SrvInv, SrvTypeOK, UpgradesUncounted, Requests
<1>1. CASE Accept(r)
  <2>1. PICK pc \in {"limit", "auth"} : Goto(r, pc) /\ (r \in Posts <=> pc = "limit")
    BY <1>1 DEF Accept
  <2> QED BY <1>0, <1>1, <2>1, RequestQuiet DEF Accept
<1>2. CASE LimitConnections(r)
  <2>1. PICK pc \in {"done", "count"} : Goto(r, pc)
    BY <1>2 DEF LimitConnections
  <2> QED BY <1>0, <1>2, <2>1, RequestQuiet DEF LimitConnections
<1>3. CASE IncrementClients(r)
  <2>1. r \in Posts /\ ~Counted(r)
    BY <1>0, <1>3 DEF IncrementClients
  <2>2. UpgradesUncounted' /\ ClientsAccounted'
    BY <1>3, <2>1, CountUp DEF IncrementClients
  <2>3. SrvTypeOK'
    BY <1>0, <1>3, RequestTypes DEF IncrementClients
  <2> QED BY <2>2, <2>3 DEF SrvInv
<1>4. CASE CheckAuth(r)
  <2>1. PICK pc \in {"leave", "done", "read", "ws"} :
          Goto(r, pc) /\ (r \in Posts <=> pc \in {"leave", "read"})
    BY <1>4 DEF CheckAuth, AuthFailure
  <2>2. isAdmin' \subseteq Requests
    BY <1>0, <1>4 DEF CheckAuth
  <2> QED BY <1>0, <1>4, <2>1, <2>2, RequestQuiet DEF CheckAuth
<1>5. CASE ReadShutdown(r)
  <2>1. PICK pc \in {"leave", "body"} : Goto(r, pc)
    BY <1>5 DEF ReadShutdown
  <2> QED BY <1>0, <1>5, <2>1, RequestQuiet DEF ReadShutdown
<1>6. CASE ReadBody(r)
  <2>1. PICK pc \in {"leave", "run", "reply"} : Goto(r, pc)
    BY <1>6 DEF ReadBody
  <2> QED BY <1>0, <1>6, <2>1, RequestQuiet DEF ReadBody
<1>7. CASE RunCommand(r)
  <2>1. PICK pc \in {"leave", "reply"} : Goto(r, pc)
    BY <1>7 DEF RunCommand
  <2>2. relayPc' \in RelayPcs
    BY <1>0, <1>7 DEF RunCommand, HandleStop, RelayPcs
  <2> QED BY <1>0, <1>7, <2>1, <2>2, RequestQuiet DEF RunCommand
<1>8. CASE WriteReply(r)
  BY <1>0, <1>8, RequestQuiet DEF WriteReply
<1>9. CASE DecrementClients(r)
  <2>1. r \in Posts /\ Counted(r)
    BY <1>0, <1>9 DEF DecrementClients
  <2>2. UpgradesUncounted' /\ ClientsAccounted' /\ numClients' \in Nat
    BY <1>9, <2>1, CountDown DEF DecrementClients
  <2>3. SrvTypeOK'
    BY <1>0, <1>9, <2>2, RequestTypes DEF DecrementClients
  <2> QED BY <2>2, <2>3 DEF SrvInv
<1>10. CASE WsStop(r)
  <2>1. relayPc' \in RelayPcs
    BY <1>0, <1>10 DEF WsStop, HandleStop, RelayPcs
  <2>2. SrvTypeOK'
    BY <1>10, <2>1 DEF WsStop, SrvInv, SrvTypeOK, processVars, requestVars
  <2> QED BY <1>10, <2>2, RequestsUnchanged DEF WsStop, SrvInv, requestVars
<1>11. CASE WsEnd(r)
  BY <1>0, <1>11, RequestQuiet DEF WsEnd
<1> QED BY <1>1, <1>2, <1>3, <1>4, <1>5, <1>6, <1>7, <1>8, <1>9, <1>10, <1>11
        DEF HandleRequest, HandlePost

LEMMA SrvInvariant == SrvSpec => []SrvInv
<1>1. SrvInv /\ [SrvNext]_srvVars => SrvInv'
  <2> SUFFICES ASSUME SrvInv, [SrvNext]_srvVars PROVE SrvInv'
    OBVIOUS
  <2>1. CASE UNCHANGED srvVars
    BY <2>1, RequestsUnchanged DEF srvVars, processVars, serverVars, requestVars, SrvInv, SrvTypeOK
  <2> QED BY <2>1, MainKeeps, SignalsKeep, RequestKeeps DEF SrvNext
<1> QED BY <1>1, SrvInvInit, PTL DEF SrvSpec

(* The variables of the process and of its server keep their types; in particular
   numClients never becomes negative. *)
THEOREM ServerTypeCorrect == SrvSpec => []SrvTypeOK
<1>1. SrvInv => SrvTypeOK
  BY DEF SrvInv
<1> QED BY <1>1, SrvInvariant, PTL

(* On every path a POST may leave by, it is counted out exactly if it was counted
   in, for any number of concurrent requests. *)
THEOREM ClientsCounted == SrvSpec => []ClientsAccounted
<1>1. SrvInv => ClientsAccounted
  BY DEF SrvInv
<1> QED BY <1>1, SrvInvariant, PTL

-----------------------------------------------------------------------------
(* Status lines.  A key says everything about its line: a handler that finds a line
   another one has stored finds its own. *)
LineOfStored(key) ==
  [proto |-> IF key > 0 THEN "HTTP/1.1" ELSE "HTTP/1.0", code |-> IF key > 0 THEN key ELSE -key]
CacheRight == \A key \in DOMAIN statusLines : statusLines[key] = LineOfStored(key)

StatusInv ==
  /\ StatusTypeOK
  /\ code \in [Responses -> KnownCodes \cup OtherCodes] /\ proto11 \subseteq Responses
  /\ CacheRight
  /\ LineMatchesRequest

LEMMA KeyTellsLine ==
  ASSUME NEW r \in Responses, code \in [Responses -> KnownCodes \cup OtherCodes]
  PROVE  Line(r) \in Lines /\ Line(r) = LineOfStored(Key(r))
<1>1. code[r] \in Nat \ {0} /\ code[r] \in KnownCodes \cup OtherCodes
  BY StatusAssumption
<1> QED BY <1>1 DEF Line, Lines, Key, LineOfStored

(* Writing the response's own line keeps what is known of all lines. *)
LEMMA WriteLineResult ==
  ASSUME StatusInv, NEW r \in Responses, WriteLine(r, Line(r)), UNCHANGED <<code, proto11>>
  PROVE  /\ linePc' \in [Responses -> {"lookup", "store", "headers", "end", "done"}]
         /\ line' \in [Responses -> Lines \cup {NoLine}]
         /\ LineMatchesRequest'
<1>1. Line(r) \in Lines
  BY KeyTellsLine DEF StatusInv
<1>2. line' = line \/ line' = [line EXCEPT ![r] = Line(r)]
  BY DEF WriteLine
<1>3. line' \in [Responses -> Lines \cup {NoLine}]
  BY <1>1, <1>2 DEF StatusInv, StatusTypeOK
<1>4. LineMatchesRequest'
  BY <1>2 DEF StatusInv, StatusTypeOK, LineMatchesRequest, Line
<1>5. linePc' \in [Responses -> {"lookup", "store", "headers", "end", "done"}]
  BY DEF WriteLine, StatusInv, StatusTypeOK
<1> QED BY <1>3, <1>4, <1>5

LEMMA LookUpKeeps == ASSUME StatusInv, NEW r \in Responses, LookUpLine(r) PROVE StatusInv'
<1>1. UNCHANGED <<statusLines, code, proto11>>
  BY DEF LookUpLine
<1>2. CASE Key(r) \in DOMAIN statusLines
  <2>1. statusLines[Key(r)] = Line(r)
    BY <1>2, KeyTellsLine DEF StatusInv, CacheRight
  <2>2. WriteLine(r, Line(r))
    BY <1>2, <2>1 DEF LookUpLine
  <2> QED BY <1>1, <2>2, WriteLineResult DEF StatusInv, StatusTypeOK, CacheRight
<1>3. CASE Key(r) \notin DOMAIN statusLines
  <2>1. linePc' = [linePc EXCEPT ![r] = "store"] /\ UNCHANGED line
    BY <1>3 DEF LookUpLine
  <2> QED BY <1>1, <2>1 DEF StatusInv, StatusTypeOK, CacheRight, LineMatchesRequest, Line
<1> QED BY <1>2, <1>3

LEMMA StoreKeeps == ASSUME StatusInv, NEW r \in Responses, StoreLine(r) PROVE StatusInv'
<1>1. WriteLine(r, Line(r)) /\ UNCHANGED <<code, proto11>>
  BY DEF StoreLine
<1>2. Line(r) \in Lines /\ Line(r) = LineOfStored(Key(r))
  BY KeyTellsLine DEF StatusInv
<1>3. /\ \A key \in DOMAIN statusLines' : statusLines'[key] \in Lines
      /\ CacheRight'
  <2>1. CASE code[r] \notin KnownCodes
    BY <2>1 DEF StoreLine, StatusInv, StatusTypeOK, CacheRight
  <2>2. CASE code[r] \in KnownCodes
    <3>1. statusLines' = [key \in DOMAIN statusLines \cup {Key(r)} |->
                            IF key = Key(r) THEN Line(r) ELSE statusLines[key]]
      BY <2>2 DEF StoreLine
    <3> QED BY <1>2, <3>1 DEF StatusInv, StatusTypeOK, CacheRight
  <2> QED BY <2>1, <2>2
<1> QED BY <1>1, <1>3, WriteLineResult DEF StatusInv, StatusTypeOK

LEMMA StatusInvariant == StatusSpec => []StatusInv
<1>1. StatusInit => StatusInv
  <2> SUFFICES ASSUME StatusInit PROVE StatusInv
    OBVIOUS
  <2>1. DOMAIN statusLines = {}
    BY DEF StatusInit
  <2> QED BY <2>1 DEF StatusInit, StatusInv, StatusTypeOK, CacheRight, LineMatchesRequest
<1>2. StatusInv /\ [StatusNext]_statusVars => StatusInv'
  <2> SUFFICES ASSUME StatusInv, [StatusNext]_statusVars PROVE StatusInv'
    OBVIOUS
  <2>1. ASSUME NEW r \in Responses, WriteHeaders(r) PROVE StatusInv'
    BY <2>1 DEF WriteHeaders, StatusInv, StatusTypeOK, CacheRight, LineMatchesRequest, Line
  <2>2. CASE UNCHANGED statusVars
    BY <2>2 DEF statusVars, StatusInv, StatusTypeOK, CacheRight, LineMatchesRequest, Line
  <2> QED BY <2>1, <2>2, LookUpKeeps, StoreKeeps DEF StatusNext, WriteResponse
<1> QED BY <1>1, <1>2, PTL DEF StatusSpec

(* Whatever handlers store between another's look-up and its store, a response
   begins with the line of its own code and protocol. *)
THEOREM StatusLinesRight == StatusSpec => []LineMatchesRequest
<1>1. StatusInv => LineMatchesRequest
  BY DEF StatusInv
<1> QED BY <1>1, StatusInvariant, PTL

-----------------------------------------------------------------------------
(* The endpoints.  What has been answered is what Dispatch says of the request. *)
EndpointsInv ==
  /\ EndpointsTypeOK
  /\ "/" \in DOMAIN outcomes => who # "anonymous" /\ outcomes["/"] = PostOutcome(who, asked)
  /\ "/ws" \in DOMAIN outcomes => outcomes["/ws"] = WsOutcome(who, asked)

(* The two orders of the checks make no difference to the administrator: no
   registered command has a handler of its own for "/ws". *)
LEMMA SameForAdmin ==
  ASSUME NEW req \in RequestForms
  PROVE  PostOutcome("admin", req) = WsOutcome("admin", req)
<1>1. ParseCmd(req) = "ok" => ServiceResult(req.method) = StandardCmdResult(req.method)
  BY DEF ParseCmd, ServiceResult, registeredMethods, wsHandlers
<1> QED BY <1>1 DEF PostOutcome, WsOutcome, OrClosed, Authorized

(* What a limited user may call is no registered command. *)
LEMMA NothingForOthers ==
  ASSUME NEW user \in Credentials \ {"admin"}, NEW req \in RequestForms
  PROVE  /\ ~PostOutcome(user, req).runs /\ ~WsOutcome(user, req).runs
         /\ user = "anonymous" =>
              \/ WsOutcome(user, req).closes
              \/ WsOutcome(user, req).reply \in {"none", "not authorized"}
<1> USE DEF Closed, Silent, Carried, Refused, ParseFailure, NotAuthorized
<1>1. Authorized(user, req) => ParseCmd(req) # "ok"
  BY DEF Authorized, ParseCmd, rpcLimited, registeredMethods
<1>2. ~PostOutcome(user, req).runs
  BY <1>1 DEF PostOutcome
<1>3. ~WsOutcome(user, req).runs
  BY <1>1 DEF WsOutcome, OrClosed
<1>4. user = "anonymous" =>
        \/ WsOutcome(user, req).closes
        \/ WsOutcome(user, req).reply \in {"none", "not authorized"}
  BY <1>1 DEF WsOutcome, OrClosed
<1> QED BY <1>2, <1>3, <1>4

LEMMA EndpointsInvariant == EndpointsSpec => []EndpointsInv
<1>1. EndpointsInit => EndpointsInv
  BY DEF EndpointsInit, EndpointsInv, EndpointsTypeOK
<1>2. EndpointsInv /\ [EndpointsNext]_endpointVars => EndpointsInv'
  <2> SUFFICES ASSUME EndpointsInv, [EndpointsNext]_endpointVars PROVE EndpointsInv'
    OBVIOUS
  <2> USE DEF EndpointsInv, EndpointsTypeOK
  <2>1. CASE AskPost
    BY <2>1 DEF AskPost, Ask
  <2>2. CASE AskWs
    BY <2>2 DEF AskWs, Ask
  <2>3. CASE UNCHANGED endpointVars
    BY <2>3 DEF endpointVars
  <2> QED BY <2>1, <2>2, <2>3 DEF EndpointsNext
<1> QED BY <1>1, <1>2, PTL DEF EndpointsSpec

(* For every form of request the administrator is told the same on both endpoints. *)
THEOREM EndpointsDoAgree == EndpointsSpec => []EndpointsAgree
<1>1. EndpointsInv => EndpointsAgree
  BY SameForAdmin DEF EndpointsInv, EndpointsTypeOK, EndpointsAgree
<1> QED BY <1>1, EndpointsInvariant, PTL

(* For every form of request nobody else runs anything, and a peer without
   credentials learns nothing of what is wrong with its request. *)
THEOREM OnlyAdminRuns == EndpointsSpec => []OthersRunNothing
<1>1. EndpointsInv => OthersRunNothing
  BY NothingForOthers DEF EndpointsInv, EndpointsTypeOK, OthersRunNothing
<1> QED BY <1>1, EndpointsInvariant, PTL
=============================================================================
