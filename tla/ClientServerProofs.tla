-------------------------- MODULE ClientServerProofs --------------------------
(***************************************************************************)
(* Proofs about the client and the server together: for any requests and   *)
(* any capacities of their buffers and of the network, as long as the      *)
(* connection is up an outstanding request is in exactly one place, and    *)
(* whatever buffers are full somebody can move.  They rest on the          *)
(* invariants of the two ends: the client's types (RpcClientProofs) and    *)
(* what the server does with its replies (WsClientProofs).                 *)
(***************************************************************************)
EXTENDS ClientServer, RpcClientProofs, FiniteSetTheorems

ServerProofs == INSTANCE WsClientProofs WITH
  SendCap <- ServerCap, disconnected <- svDisconnected, conn <- svConn,
  inPc <- svInPc, inReq <- svInReq, sendChan <- svSendChan,
  outPc <- svOutPc, outMsg <- svOutMsg, written <- svWritten

Member(x, s) == ServerProofs!Member(x, s)
Distinct(s)  == ServerProofs!Distinct(s)

(* The server's own invariants. *)
ServerInv == ServerProofs!WsInv /\ ServerProofs!RepliesInv

(* The client has one connection, and drains only when it has given it up. *)
EndInv ==
  /\ wsConn = 1
  /\ disconnected => conn[1] = "closed"
  /\ disconnectClosed => disconnected
  /\ outPc[1] \in {"lock", "drain", "done"} => disconnected
  /\ outMsg[1] # {} => outPc[1] = "write"

(* Where a request can be while the connection is up.  Until it is written nobody
   else has it; outstanding, it is on its way out or with the server; and what the
   server has read it works on or has answered. *)
Unsent(r) == callPc[r] \in {"idle", "send"}
Outbound(r) == Member(r, sendChan) \/ r \in outMsg[1]
Custody(r) ==
  /\ callPc[r] = "idle" => r \notin requestMap
  /\ Unsent(r) => ~Outbound(r)
  /\ ~(Member(r, sendChan) /\ r \in outMsg[1])
  /\ Unsent(r) \/ Outbound(r) => wire[1][r] = 0 /\ r \in unread
  /\ r \in requestMap /\ callPc[r] = "wait" => Outbound(r) \/ wire[1][r] > 0
CustodyInv ==
  Up => Distinct(sendChan) /\ (\A r \in Requests : Custody(r)) /\ ServerProofs!UnsentOrHeld

CSInv == TypeOK /\ StructInv /\ EndInv /\ ServerInv /\ CustodyInv
-----------------------------------------------------------------------------
(* A step of the two is a step of one end: of the client, or of a server that
   answers what it reads, which reads only what was written to it. *)
LEMMA OneConnection == Gens = {1} /\ MaxConn = 1 /\ ~AutoReconnect /\ ConnectOnNew
  BY CompositionAssumption DEF Gens

ClientActs == ClientIn \/ ClientOut \/ OutWrite(1) \/ NetworkFail(1)
              \/ \E r \in Requests : InReply(1, r) \/ Call(r)

(* ClientServer and WsClientProofs have instances of WsClient of their own; their
   definitions are the same. *)
LEMMA SamePositions == Server!ReadPositions = ServerProofs!ReadPositions
  BY DEF Server!ReadPositions, ServerProofs!ReadPositions, Server!Peers, ServerProofs!Peers,
         Server!AfterRead, ServerProofs!AfterRead, Server!Commands!Credentials,
         ServerProofs!Commands!Credentials, Server!Commands!WsOutcomes,
         ServerProofs!Commands!WsOutcomes, Server!Commands!RequestForms,
         ServerProofs!Commands!RequestForms, Server!Commands!registeredMethods,
         ServerProofs!Commands!registeredMethods, Server!Commands!rpcLimited,
         ServerProofs!Commands!rpcLimited, Server!Commands!rpcHandlers,
         ServerProofs!Commands!rpcHandlers, Server!Commands!rpcUnimplemented,
         ServerProofs!Commands!rpcUnimplemented, Server!Commands!wsHandlers,
         ServerProofs!Commands!wsHandlers, Server!Commands!WsOutcome,
         ServerProofs!Commands!WsOutcome, Server!Commands!OrClosed,
         ServerProofs!Commands!OrClosed, Server!Commands!Closed, ServerProofs!Commands!Closed,
         Server!Commands!Silent, ServerProofs!Commands!Silent, Server!Commands!Carried,
         ServerProofs!Commands!Carried, Server!Commands!Refused,
         ServerProofs!Commands!Refused, Server!Commands!Run, ServerProofs!Commands!Run,
         Server!Commands!ParseFailure, ServerProofs!Commands!ParseFailure,
         Server!Commands!NotAuthorized, ServerProofs!Commands!NotAuthorized,
         Server!Commands!IsNotification, ServerProofs!Commands!IsNotification,
         Server!Commands!Authorized, ServerProofs!Commands!Authorized,
         Server!Commands!ParseCmd, ServerProofs!Commands!ParseCmd,
         Server!Commands!ServiceResult, ServerProofs!Commands!ServiceResult,
         Server!Commands!StandardCmdResult, ServerProofs!Commands!StandardCmdResult,
         Server!Commands!Methods, ServerProofs!Commands!Methods

LEMMA EitherEnd ==
  ASSUME CSNext
  PROVE  \/ ClientActs /\ UNCHANGED svVars
         \/ /\ ServerProofs!Answers /\ UNCHANGED vars
            /\ \A r \in Requests : r \in unread => r \in unread' \/ WithServer(r)
<1>1. CASE ServerStep(ServerIn) \/ ServerStep(ServerOut) \/ ServerWrite \/ ServerLoses
  <2>1. UNCHANGED <<vars, unread>>
    BY <1>1 DEF ServerStep, ServerIn, ServerOut, ServerWrite, ServerLoses, Server!InLoop,
       Server!InReadError, Server!InCheck, Server!InSend, Server!InAcquire, Server!InDisconnect,
       Server!OutReceive, Server!OutQuit, Server!OutWrite, Server!OutDisconnect,
       Server!OutDrain, Server!NetworkFail, Server!inVars
  <2>2. CASE ServerStep(ServerIn)
    BY <2>2 DEF ServerStep, ServerIn, Server!InLoop, ServerProofs!InLoop,
        Server!InReadError, ServerProofs!InReadError, Server!InCheck,
        ServerProofs!InCheck, Server!InSend, ServerProofs!InSend,
        Server!InAcquire, ServerProofs!InAcquire, Server!InDisconnect,
        ServerProofs!InDisconnect, Server!Disconnect, ServerProofs!Disconnect,
        Server!MaySend, ServerProofs!MaySend, Server!Enqueue,
        ServerProofs!Enqueue, Server!inVars, ServerProofs!inVars, Server!svcVars,
        ServerProofs!svcVars, Server!outVars, ServerProofs!outVars,
        ServerProofs!Answers
  <2>3. CASE ServerStep(ServerOut) \/ ServerWrite \/ ServerLoses
    BY <2>3 DEF ServerStep, ServerOut, ServerWrite, ServerLoses, Server!OutReceive,
        ServerProofs!OutReceive, Server!OutQuit, ServerProofs!OutQuit,
        Server!OutWrite, ServerProofs!OutWrite, Server!OutDisconnect,
        ServerProofs!OutDisconnect, Server!OutDrain, ServerProofs!OutDrain,
        Server!NetworkFail, ServerProofs!NetworkFail, Server!Disconnect,
        ServerProofs!Disconnect, Server!inVars, ServerProofs!inVars,
        Server!svcVars, ServerProofs!svcVars, Server!outVars,
        ServerProofs!outVars, ServerProofs!OutHandler, ServerProofs!Answers
  <2> QED BY <1>1, <2>1, <2>2, <2>3
<1>2. ASSUME NEW r \in Requests, ServerRead(r)
      PROVE  /\ ServerProofs!Answers /\ UNCHANGED vars
             /\ \A q \in Requests : q \in unread => q \in unread' \/ WithServer(q)
  <2>1. UNCHANGED vars /\ unread' = unread \ {r} /\ WithServer(r)
    BY <1>2 DEF ServerRead, ServerStep, Server!InRead, ToServer
  <2>2. ServerProofs!InRead(r) /\ svInPc' # "loop"
    BY <1>2, SamePositions DEF ServerRead, ServerStep, Server!InRead, ServerProofs!InRead,
       Server!inVars, Server!svcVars, Server!outVars, ServerProofs!inVars, ServerProofs!svcVars,
       ServerProofs!outVars
  <2> QED BY <2>1, <2>2 DEF ServerProofs!Answers
<1>3. ASSUME NEW r \in Requests, ServerRun(r) \/ ServerStep(ServerService(r))
      PROVE  ServerProofs!Answers /\ UNCHANGED <<vars, unread>>
  BY <1>3 DEF ServerRun, ServerStep, ServerService, Server!SvcRun, Server!SvcCheck,
     Server!SvcSend, Server!SvcRelease, Server!MaySend, Server!Enqueue, Server!inVars,
     Server!svcVars, Server!outVars, ServerProofs!SvcRun, ServerProofs!SvcCheck,
     ServerProofs!SvcSend, ServerProofs!SvcRelease, ServerProofs!MaySend, ServerProofs!Enqueue,
     ServerProofs!inVars, ServerProofs!svcVars, ServerProofs!outVars, ServerProofs!Answers
<1>4. CASE \/ ClientStep(ClientIn) \/ ClientStep(ClientOut) \/ ClientWrite \/ ClientLoses
           \/ \E r \in Requests : ClientRead(r) \/ ClientStep(Call(r))
  BY <1>4 DEF ClientStep, ClientActs, ClientWrite, ClientLoses, ClientRead
<1> QED BY <1>1, <1>2, <1>3, <1>4 DEF CSNext

LEMMA ClientActsAreSteps == ClientActs => Next
  BY OneConnection DEF ClientActs, Next, InHandler, OutHandler, ClientIn, ClientOut

LEMMA AnswersAreSteps == ServerProofs!Answers => ServerProofs!WsNext
  BY DEF ServerProofs!Answers, ServerProofs!WsNext, ServerProofs!InHandler,
         ServerProofs!ServiceRequest

LEMMA ServerInvStep == ASSUME ServerInv, ServerProofs!Answers PROVE ServerInv'
<1>1. SemCap \in Nat \ {0} /\ ServerCap \in Nat \ {0}
  BY CompositionAssumption
<1> QED BY <1>1, AnswersAreSteps, ServerProofs!WsInvStep, ServerProofs!RepliesStep DEF ServerInv

-----------------------------------------------------------------------------
(* The client's side of the connection. *)
LEMMA SendMessageUp ==
  ASSUME TypeOK, EndInv, ~disconnected, NEW r \in Requests, SendMessage(r)
  PROVE  sendChan' = Append(sendChan, r)
  BY DEF SendMessage, EndInv

LEMMA EndStep == ASSUME TypeOK, EndInv, ClientActs PROVE EndInv'
<1>1. wsConn = 1 /\ wsConn' = 1 /\ Gens = {1} /\ conn \in [Gens -> ConnState]
      /\ outPc \in [Gens -> OutPcs] /\ outMsg \in [Gens -> SUBSET Requests]
  BY OneConnection DEF ClientActs, ClientIn, ClientOut, InLoop, InEnter, InDeliver, InError, InDisconnect,
     InFinish, OutReceive, OutQuit, OutWrite, OutDisconnect, OutFinish, OutDrain, NetworkFail,
     InReply, Call, SendUnconnected, AddRequest, SendRequest, ReceiveFuture, DoDisconnect,
     EndInv, TypeOK, linkVars
<1>2. CASE DoDisconnect /\ (UNCHANGED <<outPc, outMsg>> \/ OutDisconnect(1))
  <2>1. disconnected' /\ conn'[1] = "closed"
    BY <1>1, <1>2 DEF DoDisconnect, EndInv
  <2>2. outMsg'[1] # {} => outPc'[1] = "write"
    BY <1>1, <1>2 DEF OutDisconnect, EndInv
  <2> QED BY <1>1, <2>1, <2>2 DEF EndInv
<1>3. CASE NetworkFail(1)
  BY <1>1, <1>3 DEF NetworkFail, EndInv, outVars
<1>4. CASE OutReceive(1) \/ OutQuit(1) \/ OutWrite(1) \/ OutFinish(1) \/ OutDrain(1)
  BY <1>1, <1>4 DEF OutReceive, OutQuit, OutWrite, OutFinish, OutDrain, EndInv, linkVars
<1>5. CASE UNCHANGED <<linkVars, outVars>>
  BY <1>1, <1>5 DEF linkVars, outVars, EndInv
<1> QED
  BY <1>2, <1>3, <1>4, <1>5
  DEF ClientActs, ClientIn, ClientOut, InLoop, InEnter, InDeliver, InError, InDisconnect, InFinish,
      OutDisconnect, InReply, Call, SendUnconnected, AddRequest, SendRequest, ReceiveFuture,
      outVars

(* The connection does not come up again. *)
LEMMA UpBefore ==
  ASSUME TypeOK, EndInv, ClientActs, conn'[1] = "open"
  PROVE  conn[1] = "open" /\ ~disconnected
  BY OneConnection DEF ClientActs, ClientIn, ClientOut, InLoop, InEnter, InDeliver, InError, InDisconnect,
     InFinish, OutReceive, OutQuit, OutWrite, OutDisconnect, OutFinish, OutDrain, NetworkFail,
     InReply, Call, SendUnconnected, AddRequest, SendRequest, ReceiveFuture, DoDisconnect,
     EndInv, TypeOK, linkVars

(* Taking the first of a sequence without repetitions. *)
LEMMA HeadTaken ==
  ASSUME NEW S, NEW s \in Seq(S), s # <<>>, Distinct(s)
  PROVE  /\ Distinct(Tail(s)) /\ ~Member(Head(s), Tail(s))
         /\ \A x : Member(x, s) <=> x = Head(s) \/ Member(x, Tail(s))
<1> USE DEF Member, Distinct, ServerProofs!Member, ServerProofs!Distinct
<1>1. /\ Len(s) \in Nat /\ Len(s) > 0 /\ Len(Tail(s)) = Len(s) - 1 /\ Head(s) = s[1]
      /\ \A i \in 1..Len(Tail(s)) : Tail(s)[i] = s[i + 1] /\ i + 1 \in 1..Len(s)
  OBVIOUS
<1>2. Distinct(Tail(s)) /\ ~Member(Head(s), Tail(s))
  BY <1>1
<1>3. ASSUME NEW x, Member(x, s) PROVE x = Head(s) \/ Member(x, Tail(s))
  <2>1. PICK i \in 1..Len(s) : s[i] = x
    BY <1>3
  <2>2. CASE i # 1
    <3>1. i - 1 \in 1..Len(Tail(s)) /\ Tail(s)[i - 1] = x
      BY <1>1, <2>1, <2>2
    <3> QED BY <3>1
  <2> QED BY <1>1, <2>1, <2>2
<1>4. ASSUME NEW x, x = Head(s) \/ Member(x, Tail(s)) PROVE Member(x, s)
  BY <1>1, <1>4
<1> QED BY <1>2, <1>3, <1>4

LEMMA OneAppended ==
  ASSUME NEW S, NEW s \in Seq(S), NEW e \in S, Distinct(s), ~Member(e, s)
  PROVE  /\ Distinct(Append(s, e))
         /\ \A x : Member(x, Append(s, e)) <=> Member(x, s) \/ x = e
<1>1. SemCap \in Nat \ {0} /\ ServerCap \in Nat \ {0}
  BY CompositionAssumption
<1> QED BY <1>1, ServerProofs!OneMore DEF Member, Distinct

LEMMA CustodyClient ==
  ASSUME TypeOK, StructInv, EndInv, CustodyInv, ClientActs, UNCHANGED svVars, Up'
  PROVE  CustodyInv'
<1>1. Up /\ conn[1] = "open" /\ ~disconnected /\ ~disconnectClosed
      /\ outPc[1] \notin {"lock", "drain", "done"}
  BY UpBefore DEF Up, svVars, EndInv
<1>2. ServerProofs!UnsentOrHeld' /\ unread' = unread
  BY <1>1 DEF CustodyInv, svVars, ServerProofs!UnsentOrHeld, ServerProofs!Held, ServerProofs!Replies
<1>3. Distinct(sendChan) /\ \A r \in Requests : Custody(r)
  BY <1>1 DEF CustodyInv
<1>4. /\ Gens = {1} /\ sendChan \in Seq(Requests) /\ callPc \in [Requests -> CallPcs]
      /\ outMsg \in [Gens -> SUBSET Requests] /\ wire \in [Gens -> [Requests -> Nat]]
      /\ outPc \in [Gens -> OutPcs] /\ wsConn = 1
  BY OneConnection DEF TypeOK, EndInv
<1> SUFFICES Distinct(sendChan)' /\ \A r \in Requests : Custody(r)'
  BY <1>2 DEF CustodyInv
<1>5. CASE UNCHANGED <<sendChan, outMsg, wire, callPc>> /\ requestMap' \subseteq requestMap
  BY <1>2, <1>3, <1>5 DEF Custody, Unsent, Outbound
<1>6. ASSUME NEW q \in Requests, SendUnconnected(q) \/ AddRequest(q) \/ ReceiveFuture(q)
      PROVE  Distinct(sendChan)' /\ \A r \in Requests : Custody(r)'
  <2>1. /\ UNCHANGED <<sendChan, outMsg, wire>>
        /\ \A r \in Requests \ {q} : callPc'[r] = callPc[r] /\ (r \in requestMap' <=> r \in requestMap)
    BY <1>4, <1>6 DEF SendUnconnected, AddRequest, ReceiveFuture, futureVars, outVars
  <2>2. \/ callPc[q] = "idle" /\ callPc'[q] = "send"
        \/ callPc[q] = "idle" /\ callPc'[q] = "wait" /\ requestMap' = requestMap
        \/ callPc[q] = "wait" /\ callPc'[q] = "returned"
    BY <1>4, <1>6 DEF SendUnconnected, AddRequest, ReceiveFuture
  <2> QED BY <1>2, <1>3, <2>1, <2>2 DEF Custody, Unsent, Outbound
<1>7. ASSUME NEW q \in Requests, SendRequest(q)
      PROVE  Distinct(sendChan)' /\ \A r \in Requests : Custody(r)'
  <2>1. /\ UNCHANGED <<outMsg, wire, requestMap>> /\ sendChan' = Append(sendChan, q)
        /\ callPc[q] = "send" /\ callPc'[q] = "wait"
        /\ \A r \in Requests \ {q} : callPc'[r] = callPc[r]
    BY <1>1, <1>4, <1>7, SendMessageUp DEF SendRequest, futureVars, outVars
  <2>2. ~Member(q, sendChan) /\ q \notin outMsg[1]
    BY <1>3, <2>1 DEF Custody, Unsent, Outbound
  <2>3. Distinct(sendChan') /\ \A x : Member(x, sendChan') <=> Member(x, sendChan) \/ x = q
    BY <1>3, <1>4, <2>1, <2>2, OneAppended
  <2> QED BY <1>2, <1>3, <2>1, <2>2, <2>3 DEF Custody, Unsent, Outbound
<1>8. CASE OutReceive(1)
  <2>1. /\ UNCHANGED <<wire, requestMap, callPc>> /\ sendChan # <<>>
        /\ sendChan' = Tail(sendChan) /\ outMsg[1] = {} /\ outMsg'[1] = {Head(sendChan)}
    BY <1>4, <1>8 DEF OutReceive, EndInv, futureVars
  <2>2. /\ Distinct(sendChan') /\ ~Member(Head(sendChan), sendChan')
        /\ \A x : Member(x, sendChan) <=> x = Head(sendChan) \/ Member(x, sendChan')
    BY <1>3, <1>4, <2>1, HeadTaken
  <2> QED BY <1>2, <1>3, <2>1, <2>2 DEF Custody, Unsent, Outbound
<1>9. CASE OutWrite(1)
  <2>1. /\ UNCHANGED <<sendChan, requestMap, callPc>> /\ outMsg'[1] = {}
        /\ \A r \in Requests : wire'[1][r] = IF r \in outMsg[1] THEN wire[1][r] + 1 ELSE wire[1][r]
    BY <1>1, <1>4, <1>9 DEF OutWrite, futureVars
  <2> QED BY <1>2, <1>3, <1>4, <2>1 DEF Custody, Unsent, Outbound
<1>10. ASSUME NEW q \in Requests, InReply(1, q)
       PROVE  Distinct(sendChan)' /\ \A r \in Requests : Custody(r)'
  <2>1. /\ UNCHANGED <<sendChan, outMsg, callPc>> /\ wire[1][q] > 0 /\ requestMap' = requestMap \ {q}
    BY <1>1, <1>4, <1>10, OneConnection DEF InReply, RemoveRequest, outVars, TypeOK
  <2>2. \A r \in Requests \ {q} : wire'[1][r] = wire[1][r]
    BY <1>4, <1>10, OneConnection DEF InReply, TypeOK
  <2> QED BY <1>2, <1>3, <1>4, <2>1, <2>2 DEF Custody, Unsent, Outbound
<1>11. ~OutQuit(1) /\ ~OutDisconnect(1) /\ ~OutFinish(1) /\ ~OutDrain(1)
       /\ ~InDisconnect(1) /\ ~NetworkFail(1)
  BY <1>1, <1>4 DEF Up, OutQuit, OutDisconnect, OutFinish, OutDrain, InDisconnect, DoDisconnect,
                    NetworkFail, TypeOK
<1>12. InLoop(1) \/ InEnter(1) \/ InDeliver(1) \/ InError(1) \/ InFinish(1) =>
         UNCHANGED <<sendChan, outMsg, wire, callPc>> /\ requestMap' \subseteq requestMap
  BY OneConnection DEF InLoop, InEnter, InDeliver, InError, InFinish, AfterDisconnect, FailAll,
     RemoveAllRequests, futureVars, outVars
<1> QED
  BY <1>5, <1>6, <1>7, <1>8, <1>9, <1>10, <1>11, <1>12
  DEF ClientActs, ClientIn, ClientOut, Call

-----------------------------------------------------------------------------
(* The server's side, and the two together. *)
LEMMA CustodyServer ==
  ASSUME ServerInv, CustodyInv, ServerProofs!Answers, UNCHANGED vars, Up',
         \A r \in Requests : r \in unread => r \in unread' \/ WithServer(r),
         EndInv
  PROVE  CustodyInv'
<1>1. SemCap \in Nat \ {0} /\ ServerCap \in Nat \ {0}
  BY CompositionAssumption
<1>2. ServerProofs!Serving'
  BY DEF Up, ServerProofs!Serving
<1>3. ServerProofs!Serving
  BY <1>1, <1>2, ServerProofs!ServingBefore DEF ServerInv
<1>4. UNCHANGED <<sendChan, callPc, requestMap, outMsg, wire, conn>> /\ wsConn = 1
  BY DEF vars, linkVars, futureVars, outVars, EndInv
<1>5. Distinct(sendChan) /\ (\A r \in Requests : Custody(r)) /\ ServerProofs!UnsentOrHeld
  BY <1>3, <1>4 DEF CustodyInv, Up, ServerProofs!Serving
<1>6. ServerProofs!UnsentOrHeld'
  BY <1>1, <1>2, <1>5, ServerProofs!HeldStep DEF ServerInv
<1>7. \A r \in Requests : wire[1][r] = 0 /\ r \in unread => r \in unread'
  BY <1>4 DEF WithServer
<1> QED BY <1>4, <1>5, <1>6, <1>7 DEF CustodyInv, Custody, Unsent, Outbound

LEMMA CSInvStep == CSInv /\ [CSNext]_csVars => CSInv'
<1> SUFFICES ASSUME CSInv, [CSNext]_csVars PROVE CSInv'
  OBVIOUS
<1>1. CASE UNCHANGED csVars
  <2>1. UNCHANGED vars /\ UNCHANGED svVars
    BY <1>1 DEF csVars
  <2>2. (TypeOK /\ StructInv)'
    BY <2>1, TypeNext, StructNext DEF CSInv
  <2>3. ServerInv'
    <3>1. SemCap \in Nat \ {0} /\ ServerCap \in Nat \ {0}
      BY CompositionAssumption
    <3>2. UNCHANGED ServerProofs!wsVars
      BY <2>1 DEF svVars, ServerProofs!wsVars, ServerProofs!inVars, ServerProofs!svcVars,
                  ServerProofs!outVars
    <3> QED BY <3>1, <3>2, ServerProofs!WsInvStep, ServerProofs!RepliesStep DEF CSInv, ServerInv
  <2>4. EndInv'
    BY <2>1 DEF vars, linkVars, outVars, EndInv, CSInv
  <2>5. CustodyInv'
    BY <2>1 DEF vars, linkVars, futureVars, outVars, svVars, CSInv, CustodyInv, Up, Custody, Unsent,
       Outbound, ServerProofs!UnsentOrHeld, ServerProofs!Held, ServerProofs!Replies
  <2> QED BY <2>2, <2>3, <2>4, <2>5 DEF CSInv
<1>2. CASE ClientActs /\ UNCHANGED svVars
  <2>1. (TypeOK /\ StructInv)'
    BY <1>2, ClientActsAreSteps, TypeNext, StructNext DEF CSInv
  <2>2. ServerInv'
    BY <1>2 DEF svVars, CSInv, ServerInv, ServerProofs!WsInv, ServerProofs!WsTypeOK,
       ServerProofs!InHand, ServerProofs!OutPositions, ServerProofs!Tokens,
       ServerProofs!TokensAccounted, ServerProofs!Servicing, ServerProofs!RepliesInv,
       ServerProofs!Replies
  <2>3. EndInv'
    BY <1>2, EndStep DEF CSInv
  <2>4. CustodyInv'
    BY <1>2, CustodyClient DEF CSInv, CustodyInv
  <2> QED BY <2>1, <2>2, <2>3, <2>4 DEF CSInv
<1>3. CASE /\ ServerProofs!Answers /\ UNCHANGED vars
           /\ \A r \in Requests : r \in unread => r \in unread' \/ WithServer(r)
  <2>1. (TypeOK /\ StructInv)'
    BY <1>3, TypeNext, StructNext DEF CSInv
  <2>2. ServerInv'
    BY <1>3, ServerInvStep DEF CSInv
  <2>3. EndInv'
    BY <1>3 DEF vars, linkVars, outVars, EndInv, CSInv
  <2>4. CustodyInv'
    BY <1>3, CustodyServer DEF CSInv, CustodyInv
  <2> QED BY <2>1, <2>2, <2>3, <2>4 DEF CSInv
<1> QED BY <1>1, <1>2, <1>3, EitherEnd

LEMMA CSInvInit == CSInit => CSInv
<1> SUFFICES ASSUME CSInit PROVE CSInv
  OBVIOUS
<1>1. TypeOK /\ StructInv
  BY TypeInit, StructInit DEF CSInit
<1>2. ServerProofs!WsInit
  BY DEF CSInit, Server!WsInit, ServerProofs!WsInit, Server!Peers, ServerProofs!Peers,
     Server!Commands!Credentials, ServerProofs!Commands!Credentials
<1>3. ServerInv
  <2>1. SemCap \in Nat \ {0} /\ ServerCap \in Nat \ {0}
    BY CompositionAssumption
  <2> QED BY <1>2, <2>1, ServerProofs!WsInvInit, ServerProofs!RepliesInit DEF ServerInv
<1>4. EndInv
  BY OneConnection DEF CSInit, Init, EndInv
<1>5. CustodyInv
  <2>1. /\ sendChan = <<>> /\ outMsg[1] = {} /\ requestMap = {} /\ unread = Requests
        /\ \A r \in Requests : callPc[r] = "idle" /\ wire[1][r] = 0
    BY <1>2, OneConnection DEF CSInit, Init, ServerProofs!WsInit
  <2>2. Distinct(sendChan) /\ \A x : ~Member(x, sendChan)
    BY <2>1 DEF Distinct, Member, ServerProofs!Distinct, ServerProofs!Member
  <2> QED BY <2>1, <2>2 DEF CustodyInv, Custody, Unsent, Outbound, ServerProofs!UnsentOrHeld
<1> QED BY <1>1, <1>3, <1>4, <1>5 DEF CSInv

-----------------------------------------------------------------------------
(* How often a sequence without repetitions holds something, and the replies as
   OneCustodian counts them: those written, and those that are not. *)
LEMMA TimesInDistinct ==
  ASSUME NEW S, NEW s \in Seq(S), Distinct(s), NEW x
  PROVE  Times(s, x) = Once(Member(x, s))
<1>1. DOMAIN s = 1..Len(s)
  OBVIOUS
<1>2. CASE Member(x, s)
  <2>1. PICK k \in DOMAIN s : s[k] = x
    BY <1>1, <1>2 DEF Member, ServerProofs!Member
  <2>2. {i \in DOMAIN s : s[i] = x} = {k}
    BY <1>1, <2>1 DEF Distinct, ServerProofs!Distinct
  <2> QED BY <1>2, <2>2, FS_Singleton DEF Times, Once
<1>3. CASE ~Member(x, s)
  <2>1. {i \in DOMAIN s : s[i] = x} = {}
    BY <1>1, <1>3 DEF Member, ServerProofs!Member
  <2> QED BY <1>3, <2>1, FS_EmptySet DEF Times, Once
<1> QED BY <1>2, <1>3

LEMMA RepliesDivided ==
  ASSUME NEW S, NEW w \in Seq(S), NEW m \in Seq(S), NEW q \in Seq(S), Distinct(w \o m \o q)
  PROVE  /\ Distinct(q \o m)
         /\ \A x : /\ Member(x, w \o m \o q) <=> Member(x, w) \/ Member(x, q \o m)
                   /\ ~(Member(x, w) /\ Member(x, q \o m))
<1> DEFINE all == w \o m \o q
           at(i) == IF i <= Len(q) THEN Len(w) + Len(m) + i ELSE Len(w) + (i - Len(q))
<1>1. /\ Len(w) \in Nat /\ Len(m) \in Nat /\ Len(q) \in Nat
      /\ all \in Seq(S) /\ q \o m \in Seq(S)
      /\ Len(all) = Len(w) + Len(m) + Len(q) /\ Len(q \o m) = Len(q) + Len(m)
  OBVIOUS
<1>2. \A i \in 1..Len(w) : i \in 1..Len(all) /\ all[i] = w[i]
  BY <1>1
<1>3. ASSUME NEW i \in 1..Len(q \o m)
      PROVE  at(i) \in 1..Len(all) /\ at(i) > Len(w) /\ all[at(i)] = (q \o m)[i]
  BY <1>1
<1>4. ASSUME NEW k \in 1..Len(all), k > Len(w)
      PROVE  \E i \in 1..Len(q \o m) : at(i) = k
  <2>1. CASE k <= Len(w) + Len(m)
    <3>1. Len(q) + (k - Len(w)) \in 1..Len(q \o m) /\ at(Len(q) + (k - Len(w))) = k
      BY <1>1, <1>4, <2>1
    <3> QED BY <3>1
  <2>2. CASE k > Len(w) + Len(m)
    <3>1. k - (Len(w) + Len(m)) \in 1..Len(q \o m) /\ at(k - (Len(w) + Len(m))) = k
      BY <1>1, <1>4, <2>2
    <3> QED BY <3>1
  <2> QED BY <1>1, <2>1, <2>2
<1>5. \A i, j \in 1..Len(q \o m) : at(i) = at(j) => i = j
  BY <1>1
<1>6. \A k \in 1..Len(all) : k > Len(w) \/ k \in 1..Len(w)
  BY <1>1
<1> HIDE DEF all, at
<1>7. \A i, j \in 1..Len(all) : all[i] = all[j] => i = j
  BY Zenon DEF all, Distinct, ServerProofs!Distinct
<1>8. Distinct(q \o m)
  <2> SUFFICES ASSUME NEW i \in 1..Len(q \o m), NEW j \in 1..Len(q \o m), (q \o m)[i] = (q \o m)[j]
               PROVE  i = j
    BY Zenon DEF Distinct, ServerProofs!Distinct
  <2> QED BY <1>3, <1>5, <1>7
<1>9. ASSUME NEW x PROVE Member(x, all) <=> Member(x, w) \/ Member(x, q \o m)
  <2>1. Member(x, w) => Member(x, all)
    BY <1>2 DEF Member, ServerProofs!Member
  <2>2. Member(x, q \o m) => Member(x, all)
    BY <1>3 DEF Member, ServerProofs!Member
  <2>3. ASSUME Member(x, all) PROVE Member(x, w) \/ Member(x, q \o m)
    <3>1. PICK k \in 1..Len(all) : all[k] = x
      BY <2>3 DEF Member, ServerProofs!Member
    <3>2. CASE k \in 1..Len(w)
      BY <1>2, <3>1, <3>2 DEF Member, ServerProofs!Member
    <3>3. CASE k > Len(w)
      BY <1>3, <1>4, <3>1, <3>3 DEF Member, ServerProofs!Member
    <3> QED BY <1>6, <3>2, <3>3
  <2> QED BY <2>1, <2>2, <2>3
<1>10. ASSUME NEW x, Member(x, w), Member(x, q \o m) PROVE FALSE
  <2>1. PICK i \in 1..Len(w) : w[i] = x
    BY <1>10 DEF Member, ServerProofs!Member
  <2>2. PICK j \in 1..Len(q \o m) : (q \o m)[j] = x
    BY <1>10 DEF Member, ServerProofs!Member
  <2>3. i = at(j)
    BY <1>2, <1>3, <1>7, <2>1, <2>2
  <2> QED BY <1>1, <1>3, <2>3
<1> QED BY <1>8, <1>9, <1>10 DEF all

LEMMA InOnePlace == CSInv => OneCustodian
<1> SUFFICES ASSUME CSInv, Up, NEW r \in requestMap, callPc[r] = "wait" PROVE Places(r) = 1
  BY DEF OneCustodian
<1>1. /\ r \in Requests /\ sendChan \in Seq(Requests)
      /\ svWritten \in Seq(Requests) /\ svOutMsg \in Seq(Requests) /\ svSendChan \in Seq(Requests)
      /\ wire[1][r] \in Nat
  BY OneConnection DEF CSInv, TypeOK, ServerInv, ServerProofs!WsInv, ServerProofs!WsTypeOK
<1>2. Distinct(sendChan) /\ Custody(r) /\ (r \in unread \/ ServerProofs!Held(r))
  BY <1>1 DEF CSInv, CustodyInv, ServerProofs!UnsentOrHeld
<1> DEFINE unwritten == svSendChan \o svOutMsg
           replies == svWritten \o svOutMsg \o svSendChan
<1>3. /\ Distinct(replies)
      /\ Member(r, replies) =>
           r \notin unread /\ r \notin svInReq /\ svcPc[r] \in {"none", "release", "done"}
  BY <1>1 DEF Up, CSInv, ServerInv, ServerProofs!RepliesInv, ServerProofs!Replies, Member, Distinct
<1>4. /\ Distinct(unwritten) /\ unwritten \in Seq(Requests)
      /\ Member(r, replies) <=> Member(r, svWritten) \/ Member(r, unwritten)
      /\ ~(Member(r, svWritten) /\ Member(r, unwritten))
  BY <1>1, <1>3, RepliesDivided
<1>5. /\ Times(sendChan, r) = Once(Member(r, sendChan))
      /\ Times(unwritten, r) = Once(Member(r, unwritten))
  BY <1>1, <1>2, <1>4, TimesInDistinct
<1>6. r \in ToServer <=> wire[1][r] > 0 /\ r \in unread
  BY <1>1 DEF ToServer, WithServer
<1>7. r \in ToClient <=> wire[1][r] > 0 /\ Member(r, svWritten)
  BY <1>1 DEF ToClient, WithServer, Member, ServerProofs!Member
<1>8. /\ r \in svInReq => svcPc[r] = "none" /\ r \notin unread
      /\ r \in unread => svcPc[r] = "none"
  BY <1>1 DEF CSInv, ServerInv, ServerProofs!WsInv, ServerProofs!InHand
<1>9. /\ ~(Member(r, sendChan) /\ r \in outMsg[1])
      /\ Outbound(r) => wire[1][r] = 0 /\ r \in unread
      /\ Outbound(r) \/ wire[1][r] > 0
  BY <1>2 DEF Custody
<1>10. r \notin unread => r \in svInReq \/ svcPc[r] \in {"run", "check", "send"} \/ Member(r, replies)
  BY <1>2 DEF ServerProofs!Held, ServerProofs!Replies, Member
<1>11. Places(r) = Once(Member(r, sendChan)) + Once(r \in outMsg[1])
         + Once(wire[1][r] > 0 /\ r \in unread) + Once(r \in svInReq)
         + Once(svcPc[r] \in {"run", "check", "send"}) + Once(Member(r, unwritten))
         + Once(wire[1][r] > 0 /\ Member(r, svWritten))
  BY <1>5, <1>6, <1>7 DEF Places, Once
<1> HIDE DEF unwritten, replies
<1> QED BY <1>1, <1>3, <1>4, <1>8, <1>9, <1>10, <1>11 DEF Once, Outbound

(* For any requests and any capacities: as long as the connection is up, every
   request the client waits for is in exactly one place of the two ends and the
   network (rpcclient/infrastructure.go, sendMessage, wsOutHandler, wsInHandler;
   rpcwebsocket.go, inHandler, serviceRequest, SendMessage, outHandler). *)
THEOREM NothingFallsBetween == CSSpec => []OneCustodian
<1>1. CSSpec => []CSInv
  BY CSInvInit, CSInvStep, PTL DEF CSSpec
<1> QED BY <1>1, InOnePlace, PTL

-----------------------------------------------------------------------------
(* The composition only orders and restricts the steps of the two ends: it implements
   the client of RpcClient and the connection of WsClient, so what is proved of
   each by itself holds of it here. *)
LEMMA ClientSteps == [CSNext]_csVars => [Next]_vars
<1>1. CSNext => [Next]_vars
  BY EitherEnd, ClientActsAreSteps
<1> QED BY <1>1 DEF csVars

LEMMA ServerSteps == [CSNext]_csVars => [Server!WsNext]_(Server!wsVars)
<1>1. UNCHANGED svVars => UNCHANGED Server!wsVars
  BY DEF svVars, Server!wsVars, Server!inVars, Server!svcVars, Server!outVars
<1>2. CSNext => Server!WsNext \/ UNCHANGED svVars
  BY DEF CSNext, ClientStep, ClientWrite, ClientRead, ClientLoses, ServerStep, ServerIn,
     ServerOut, ServerWrite, ServerRead, ServerRun, ServerService, ServerLoses,
     Server!WsNext, Server!InHandler, Server!OutHandler, Server!ServiceRequest
<1> QED BY <1>1, <1>2 DEF csVars

(* Talking to the server, the client is the client of RpcClient with one connection
   (rpcclient/infrastructure.go). *)
THEOREM ClientIsRpcClient == CSSpec => Spec
<1>1. CSInit => Init
  BY DEF CSInit
<1> QED BY <1>1, ClientSteps, PTL DEF CSSpec, Spec

(* Talking to the client, the server's end is the connection of WsClient, whose peer
   then sends each request once (rpcwebsocket.go). *)
THEOREM ServerIsWsClient == CSSpec => Server!WsSpec
<1>1. CSInit => Server!WsInit
  BY DEF CSInit
<1> QED BY <1>1, ServerSteps, PTL DEF CSSpec, Server!WsSpec

(* So its callers have the futures they are promised, with any server and network
   behaving as WsClient and the bounds of the connection allow. *)
THEOREM FuturesOverTheNetwork == CSSpec => ImplementsFutures
  BY ClientIsRpcClient, ClientImplementsFutures
-----------------------------------------------------------------------------
(* No ring of waiting.  The handlers of the client leave only a connection that is
   gone, and while it is up every caller is owed an answer. *)
LeavingInv ==
  /\ shutdown => disconnected
  /\ inPc[1] \notin {"loop", "enter", "read", "deliver"} => conn[1] # "open"
  /\ inPc[1] \in {"lock", "done"} => disconnected
  /\ outPc[1] \notin {"loop", "write"} => conn[1] # "open"
Owed(r) ==
  callPc[r] \in {"send", "wait"} => r \in requestMap \/ r \in inReq[1] \/ resp[r] # <<>>
OwedInv == Up => \A r \in Requests : Owed(r)

LEMMA LeavingStep ==
  ASSUME TypeOK, EndInv, LeavingInv, ClientActs
  PROVE  LeavingInv'
<1>1. wsConn = 1 /\ Gens = {1} /\ conn \in [Gens -> ConnState] /\ inConn[1] \in {0, 1}
      /\ outPc \in [Gens -> OutPcs] /\ inPc \in [Gens -> InPcs]
  BY OneConnection DEF EndInv, TypeOK
<1>2. CASE InDisconnect(1) \/ OutDisconnect(1)
  <2>1. disconnected' /\ conn'[1] # "open"
    BY <1>1, <1>2 DEF InDisconnect, OutDisconnect, DoDisconnect, EndInv
  <2> QED BY <2>1 DEF LeavingInv
<1>3. CASE InFinish(1) \/ OutFinish(1)
  <2>1. conn' = conn /\ disconnected' = disconnected /\ conn[1] # "open"
    BY <1>3 DEF InFinish, OutFinish, linkVars, LeavingInv
  <2>2. disconnected
    BY <1>1, <1>3 DEF InFinish, OutFinish, EndInv, LeavingInv
  <2> QED BY <2>1, <2>2 DEF LeavingInv
<1>4. CASE InLoop(1) \/ InEnter(1) \/ InDeliver(1) \/ InError(1) \/ \E r \in Requests : InReply(1, r)
  <2>1. UNCHANGED <<conn, disconnected, shutdown, outPc>>
    BY <1>4 DEF InLoop, InEnter, InDeliver, InError, InReply, linkVars, futureVars, outVars
  <2>2. /\ inPc'[1] \notin {"loop", "enter", "read", "deliver"} => conn[1] # "open"
        /\ inPc'[1] \notin {"lock", "done"}
    BY <1>1, <1>4 DEF InLoop, InEnter, InDeliver, InError, InReply, StopsReading, LeavingInv, EndInv
  <2> QED BY <2>1, <2>2 DEF LeavingInv
<1>5. CASE OutReceive(1) \/ OutQuit(1) \/ OutWrite(1) \/ OutDrain(1)
  <2>1. UNCHANGED <<conn, disconnected, shutdown, inPc>>
    BY <1>5 DEF OutReceive, OutQuit, OutWrite, OutDrain, linkVars, futureVars, inVars
  <2>2. outPc'[1] \notin {"loop", "write"} => conn[1] # "open"
    BY <1>1, <1>5 DEF OutReceive, OutQuit, OutWrite, OutDrain, LeavingInv, EndInv
  <2> QED BY <2>1, <2>2 DEF LeavingInv
<1>6. CASE NetworkFail(1)
  <2>1. UNCHANGED <<disconnected, shutdown, inPc>> /\ conn'[1] # "open"
    BY <1>1, <1>6 DEF NetworkFail, futureVars, inVars
  <2> QED BY <2>1 DEF LeavingInv
<1>7. CASE \E r \in Requests : Call(r)
  <2>1. UNCHANGED <<conn, disconnected, shutdown, inPc, outPc>>
    BY <1>7 DEF Call, SendUnconnected, AddRequest, SendRequest, ReceiveFuture, linkVars, futureVars,
       inVars, outVars
  <2> QED BY <2>1 DEF LeavingInv
<1> QED BY <1>2, <1>3, <1>4, <1>5, <1>6, <1>7 DEF ClientActs, ClientIn, ClientOut

LEMMA Answering ==
  ASSUME TypeOK, NEW S, NEW outcome \in Outcomes, NEW r \in Requests, r \in S \/ resp[r] # <<>>
  PROVE  Respond(S, outcome)[r] # <<>>
<1>1. resp[r] \in Seq(Outcomes)
  BY DEF TypeOK
<1>2. Append(resp[r], outcome) # <<>>
  BY <1>1
<1> QED BY <1>2 DEF Respond

LEMMA OwedClient ==
  ASSUME TypeOK, StructInv, EndInv, LeavingInv, OwedInv, ClientActs, UNCHANGED svVars, Up'
  PROVE  OwedInv'
<1>1. Up /\ conn[1] = "open" /\ ~disconnected /\ ~disconnectClosed /\ ~shutdown
  BY UpBefore DEF Up, svVars, EndInv, LeavingInv
<1>2. /\ Gens = {1} /\ callPc \in [Requests -> CallPcs] /\ inReq \in [Gens -> SUBSET Requests]
      /\ \A r \in Requests : Owed(r)
  BY <1>1, OneConnection DEF TypeOK, OwedInv
<1> SUFFICES ASSUME NEW r \in Requests PROVE Owed(r)'
  BY DEF OwedInv
<1>3. CASE UNCHANGED <<requestMap, inReq, resp, callPc>>
  BY <1>2, <1>3 DEF Owed
<1>4. ASSUME NEW q \in Requests, SendUnconnected(q) \/ AddRequest(q) \/ SendRequest(q)
                                 \/ ReceiveFuture(q)
      PROVE  Owed(r)'
  <2>1. UNCHANGED inReq /\ requestMap \subseteq requestMap' /\ (q # r => callPc'[r] = callPc[r])
    BY <1>2, <1>4 DEF SendUnconnected, AddRequest, SendRequest, ReceiveFuture, futureVars, inVars
  <2>2. resp[r] # <<>> => resp'[r] # <<>>
    BY <1>4, Answering DEF SendUnconnected, AddRequest, SendRequest, ReceiveFuture, futureVars,
       Outcomes, Errors
  <2>3. CASE SendUnconnected(q) /\ q = r
    BY <2>3, Answering DEF SendUnconnected, Owed, Outcomes, Errors
  <2>4. CASE AddRequest(q) /\ q = r
    BY <1>1, <2>4 DEF AddRequest, AcceptsRequests, Owed
  <2>5. CASE (SendRequest(q) \/ ReceiveFuture(q)) /\ q = r
    BY <1>2, <2>1, <2>2, <2>5 DEF SendRequest, ReceiveFuture, Owed
  <2> QED BY <1>2, <1>4, <2>1, <2>2, <2>3, <2>4, <2>5 DEF Owed
<1>5. ASSUME NEW q \in Requests, InReply(1, q) PROVE Owed(r)'
  <2>1. UNCHANGED <<resp, callPc>> /\ inReq[1] = {}
    BY <1>2, <1>5 DEF InReply, StructInv
  <2>2. \/ requestMap' = requestMap /\ inReq' = inReq
        \/ requestMap' = requestMap \ {q} /\ inReq'[1] = {q}
    BY <1>2, <1>5 DEF InReply, RemoveRequest
  <2> QED BY <1>2, <2>1, <2>2 DEF Owed
<1>6. CASE InDeliver(1)
  <2>1. UNCHANGED <<requestMap, callPc>> /\ resp' = Respond(inReq[1], "reply")
    BY <1>6 DEF InDeliver
  <2>2. r \in inReq[1] \/ resp[r] # <<>> => resp'[r] # <<>>
    BY <2>1, Answering DEF Outcomes
  <2> QED BY <1>2, <2>1, <2>2 DEF Owed
<1>7. ~InFinish(1) /\ ~OutFinish(1)
  BY <1>1 DEF InFinish, OutFinish, LeavingInv
<1>8. InLoop(1) \/ InEnter(1) \/ InError(1) \/ InDisconnect(1) \/ OutReceive(1) \/ OutQuit(1) \/ OutWrite(1)
        \/ OutDisconnect(1) \/ OutDrain(1) \/ NetworkFail(1)
      => UNCHANGED <<requestMap, inReq, resp, callPc>>
  BY DEF InLoop, InEnter, InError, InDisconnect, OutReceive, OutQuit, OutWrite, OutDisconnect, OutDrain,
     NetworkFail, futureVars, inVars
<1> QED BY <1>3, <1>4, <1>5, <1>6, <1>7, <1>8 DEF ClientActs, ClientIn, ClientOut, Call

RingInv == LeavingInv /\ OwedInv

LEMMA RingInit == CSInit => RingInv
<1> SUFFICES ASSUME CSInit PROVE RingInv
  OBVIOUS
<1>1. /\ inPc[1] = "loop" /\ outPc[1] = "loop" /\ ~shutdown
      /\ \A r \in Requests : callPc[r] = "idle"
  BY OneConnection DEF CSInit, Init
<1> QED BY <1>1 DEF RingInv, LeavingInv, OwedInv, Owed

LEMMA RingStep == CSInv /\ RingInv /\ [CSNext]_csVars => RingInv'
<1> SUFFICES ASSUME CSInv, RingInv, [CSNext]_csVars PROVE RingInv'
  OBVIOUS
<1>1. ASSUME UNCHANGED vars, Up' => Up PROVE RingInv'
  <2>1. UNCHANGED <<conn, disconnected, shutdown, inPc, outPc, inReq, requestMap, callPc, resp>>
    BY <1>1 DEF vars, linkVars, futureVars, inVars, outVars
  <2> QED BY <1>1, <2>1 DEF RingInv, LeavingInv, OwedInv, Owed
<1>2. CASE UNCHANGED csVars
  BY <1>1, <1>2 DEF csVars, svVars, vars, linkVars, Up
<1>3. CASE ClientActs /\ UNCHANGED svVars
  <2>1. LeavingInv'
    BY <1>3, LeavingStep DEF CSInv, RingInv
  <2>2. OwedInv'
    <3>1. CASE Up'
      BY <1>3, <3>1, OwedClient DEF CSInv, RingInv
    <3> QED BY <3>1 DEF OwedInv
  <2> QED BY <2>1, <2>2 DEF RingInv
<1>4. CASE ServerProofs!Answers /\ UNCHANGED vars
  <2>1. SemCap \in Nat \ {0} /\ ServerCap \in Nat \ {0}
    BY CompositionAssumption
  <2>2. ServerProofs!Serving' => ServerProofs!Serving
    BY <1>4, <2>1, ServerProofs!ServingBefore DEF CSInv, ServerInv
  <2>3. Up' => Up
    BY <1>4, <2>2 DEF Up, ServerProofs!Serving, vars, linkVars
  <2> QED BY <1>1, <1>4, <2>3
<1> QED BY <1>2, <1>3, <1>4, EitherEnd

(* If the waits made a ring, it could be followed from the end: no reply reaches the
   client, so outHandler has none to write and its channel is empty, so no command is
   being serviced and the semaphore is free, so inHandler waits for a message, so
   none is under way and wsOutHandler has none to write, so its channel is empty and
   nobody waits to send; and the request of who waits for an answer is nowhere. *)
LEMMA SomebodyMoves == CSInv /\ RingInv => NoRingOfWaiting
<1> SUFFICES ASSUME CSInv, RingInv, Up, NEW r \in Requests, callPc[r] \in {"send", "wait"},
                    ~ClientOutMoves, ~ServerInMoves, ~ServerOutMoves, ~ClientInMoves,
                    \A q \in Requests : ~CallerMoves(q) /\ ~ServiceMoves(q)
             PROVE  FALSE
  BY DEF NoRingOfWaiting
<1>1. /\ conn[1] = "open" /\ svConn = "open" /\ svInPc # "disconnect"
      /\ Gens = {1} /\ outPc \in [Gens -> OutPcs] /\ inPc \in [Gens -> InPcs]
      /\ sendChan \in Seq(Requests) /\ wire[1][r] \in Nat
      /\ SemCap \in Nat \ {0} /\ ServerCap \in Nat \ {0} /\ NetCap \in Nat \ {0}
      /\ SendCap \in Nat \ {0}
  BY OneConnection, CompositionAssumption, ConfigAssumption DEF Up, CSInv, TypeOK
<1>2. ServerProofs!WsInv
  BY DEF CSInv, ServerInv
<1>3. inPc[1] = "read" /\ ToClient = {}
  BY <1>1 DEF RingInv, LeavingInv, ClientInMoves, InPcs
<1>4. Cardinality({}) = 0
  BY FS_EmptySet
<1>5. svOutPc = "loop" /\ svSendChan = <<>> /\ svOutMsg = <<>>
  BY <1>1, <1>2, <1>3, <1>4 DEF ServerOutMoves, ServerProofs!WsInv, ServerProofs!WsTypeOK,
     ServerProofs!OutPositions, ServerProofs!OutPcs
<1>6. Len(svSendChan) < ServerCap
  BY <1>1, <1>5
<1>7. ServerProofs!Servicing = {}
  BY <1>2, <1>6 DEF ServiceMoves, ServerProofs!Servicing, ServerProofs!WsInv,
     ServerProofs!WsTypeOK, ServerProofs!SvcPcs
<1>8. sem < SemCap
  <2>1. sem = ServerProofs!Cardinality({})
    BY <1>2, <1>7 DEF ServerProofs!WsInv, ServerProofs!Tokens, ServerProofs!TokensAccounted
  <2>2. sem = 0
    BY <1>1, <2>1, ServerProofs!FS_EmptySet
  <2> QED BY <1>1, <2>2
<1>9. svInPc = "read" /\ ToServer = {} /\ svInReq = {}
  BY <1>1, <1>2, <1>6, <1>8 DEF ServerInMoves, ServerProofs!WsInv, ServerProofs!WsTypeOK,
     ServerProofs!InHand, ServerProofs!OutPositions, ServerProofs!InPcs
<1>10. outPc[1] = "loop" /\ sendChan = <<>> /\ outMsg[1] = {}
  BY <1>1, <1>4, <1>9 DEF RingInv, LeavingInv, ClientOutMoves, OutPcs, CSInv, EndInv
<1>11. callPc[r] = "wait" /\ resp[r] = <<>>
  BY <1>1, <1>10 DEF CallerMoves
<1>12. r \in requestMap
  <2>1. inReq[1] = {}
    BY <1>1, <1>3 DEF CSInv, StructInv
  <2> QED BY <1>11, <2>1 DEF RingInv, OwedInv, Owed
<1>13. Custody(r) /\ (r \in unread \/ ServerProofs!Held(r))
  BY DEF CSInv, CustodyInv, ServerProofs!UnsentOrHeld
<1>14. wire[1][r] > 0
  BY <1>10, <1>11, <1>12, <1>13 DEF Custody, Outbound, Member, ServerProofs!Member
<1>15. r \notin unread
  BY <1>9, <1>14 DEF ToServer, WithServer
<1>16. Member(r, ServerProofs!Replies)
  BY <1>7, <1>9, <1>13, <1>15 DEF ServerProofs!Held, ServerProofs!Servicing, Member
<1>17. ServerProofs!Replies = svWritten /\ svWritten \in Seq(Requests)
  BY <1>2, <1>5 DEF ServerProofs!Replies, ServerProofs!WsInv, ServerProofs!WsTypeOK
<1>18. r \in ToClient
  BY <1>14, <1>16, <1>17 DEF ToClient, WithServer, Member, ServerProofs!Member
<1> QED BY <1>3, <1>18

(* For any requests and any capacities: while the connection is up and a caller has
   not got its answer, some goroutine of the two ends has a step it need not wait
   for, whatever buffers are full (rpcclient/infrastructure.go, sendMessage,
   wsOutHandler, wsInHandler; rpcwebsocket.go, inHandler, serviceRequest,
   SendMessage, outHandler). *)
THEOREM NobodyWaitsInARing == CSSpec => []NoRingOfWaiting
<1>1. CSSpec => [](CSInv /\ RingInv)
  BY CSInvInit, CSInvStep, RingInit, RingStep, PTL DEF CSSpec
<1> QED BY <1>1, SomebodyMoves, PTL
===============================================================================
