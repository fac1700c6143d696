---------------------------- MODULE ClientServer ----------------------------
(***************************************************************************)
(* A websocket client and the server's end of its connection: RpcClient    *)
(* and WsClient with the network between them.  The client has one         *)
(* connection (DisableAutoReconnect), made by New, and the application     *)
(* only issues commands: what Disconnect and Shutdown do to them is        *)
(* checked of RpcClient, with a server that may do anything.               *)
(*                                                                         *)
(* wire[1][r] says that r is with the server: between the client's write   *)
(* and its read of the reply.  What of that time r spends in the network   *)
(* is bounded by NetCap messages in each direction, beyond which a write   *)
(* blocks.  The network keeps the order of messages; this is left open.    *)
(***************************************************************************)
EXTENDS RpcClient

CONSTANTS
  SemCap,       \* capacity of the server's serviceRequestSem
  ServerCap,    \* websocketSendBufferSize
  NetCap        \* messages the network holds in each direction

ASSUME CompositionAssumption ==
  /\ MaxConn = 1 /\ ~AutoReconnect /\ ConnectOnNew
  /\ SemCap \in Nat \ {0} /\ ServerCap \in Nat \ {0}
  /\ NetCap \in Nat \ {0}

VARIABLES
  peer, unread, svcPc, sem,  \* as in WsClient
  svDisconnected, svConn, svInPc, svInReq, svSendChan, svOutPc, svOutMsg, svWritten

Server == INSTANCE WsClient WITH
  SendCap <- ServerCap, disconnected <- svDisconnected, conn <- svConn,
  inPc <- svInPc, inReq <- svInReq, sendChan <- svSendChan,
  outPc <- svOutPc, outMsg <- svOutMsg, written <- svWritten

svVars == <<peer, unread, svcPc, sem, svDisconnected, svConn, svInPc, svInReq, svSendChan,
            svOutPc, svOutMsg, svWritten>>
csVars == <<vars, svVars>>

WithServer(r) == wire[1][r] > 0
ToServer == {r \in Requests : WithServer(r) /\ r \in unread}
ToClient == {r \in Requests : WithServer(r) /\ \E i \in DOMAIN svWritten : svWritten[i] = r}
-----------------------------------------------------------------------------
(* The client's steps, where it reads and writes the connection. *)
ClientStep(A) == A /\ UNCHANGED svVars

(* A write to an open connection returns when there is room for the message. *)
ClientWrite ==
  /\ conn[1] = "open" => Cardinality(ToServer) < NetCap
  /\ ClientStep(OutWrite(1))
ClientRead(r) ==
  /\ r \in ToClient
  /\ ClientStep(InReply(1, r))

ClientIn  == InLoop(1) \/ InEnter(1) \/ InDeliver(1) \/ InError(1) \/ InDisconnect(1) \/ InFinish(1)
ClientOut == OutReceive(1) \/ OutQuit(1) \/ OutDisconnect(1) \/ OutFinish(1) \/ OutDrain(1)

(* The server's steps.  A request of the client has an id that a reply can carry,
   so inHandler ignores none, and the results of the commands can be marshalled. *)
ServerStep(A) == A /\ UNCHANGED vars

ServerRead(r) ==
  /\ r \in ToServer
  /\ ServerStep(Server!InRead(r))
  /\ svInPc' # "loop"
ServerWrite ==
  /\ svConn = "open" => Cardinality(ToClient) < NetCap
  /\ ServerStep(Server!OutWrite)
ServerRun(r) ==
  /\ ServerStep(Server!SvcRun(r))
  /\ svcPc'[r] = "check"

ServerIn ==
  \/ Server!InLoop \/ Server!InReadError \/ Server!InCheck \/ Server!InSend
  \/ Server!InAcquire \/ Server!InDisconnect
ServerOut == Server!OutReceive \/ Server!OutQuit \/ Server!OutDisconnect \/ Server!OutDrain
ServerService(r) == Server!SvcCheck(r) \/ Server!SvcSend(r) \/ Server!SvcRelease(r)

(* The network fails, as either end notices by itself; an end also notices that
   the other has closed the connection. *)
ClientLoses == ClientStep(NetworkFail(1))
ServerLoses == ServerStep(Server!NetworkFail)

-----------------------------------------------------------------------------
CSInit == Init /\ Server!WsInit

CSNext ==
  \/ ClientStep(ClientIn) \/ ClientStep(ClientOut) \/ ClientWrite
  \/ \E r \in Requests : ClientRead(r) \/ ClientStep(Call(r))
  \/ ServerStep(ServerIn) \/ ServerStep(ServerOut) \/ ServerWrite
  \/ \E r \in Requests : ServerRead(r) \/ ServerRun(r) \/ ServerStep(ServerService(r))
  \/ ClientLoses \/ ServerLoses

CSSpec == CSInit /\ [][CSNext]_csVars

(* Fairness: the goroutines of both ends run; a write returns when the network has
   room or the connection is gone, a message sent is read by who reads, and an end
   notices when the other is gone.  Nothing is assumed of what the application
   does but that it waits for its futures. *)
CSFairness ==
  /\ WF_csVars(ClientStep(ClientIn) \/ \E r \in Requests : ClientRead(r))
  /\ WF_csVars(ClientStep(ClientOut) \/ ClientWrite)
  /\ \A r \in Requests : WF_csVars(ClientStep(SendRequest(r) \/ ReceiveFuture(r)))
  /\ WF_csVars(ServerStep(ServerIn) \/ \E r \in Requests : ServerRead(r))
  /\ WF_csVars(ServerStep(ServerOut) \/ ServerWrite)
  /\ \A r \in Requests : WF_csVars(ServerRun(r) \/ ServerStep(ServerService(r)))
  /\ WF_csVars(svConn # "open" /\ ClientLoses)
  /\ WF_csVars(conn[1] # "open" /\ ServerLoses)

CSFairSpec == CSSpec /\ CSFairness

-----------------------------------------------------------------------------
(* Properties. *)

(* While the connection is up at both ends and inHandler is not about to leave
   it, an outstanding request is in exactly one place on its way to the server and
   back: between the two libraries nothing is dropped and nothing doubled. *)
Times(queue, r) == Cardinality({i \in DOMAIN queue : queue[i] = r})
Once(holds) == IF holds THEN 1 ELSE 0
Places(r) ==
  Times(sendChan, r) + Once(r \in outMsg[1]) + Once(r \in ToServer)
    + Once(r \in svInReq) + Once(svcPc[r] \in {"run", "check", "send"})
    + Times(svSendChan \o svOutMsg, r) + Once(r \in ToClient)

Up == conn[1] = "open" /\ svConn = "open" /\ svInPc # "disconnect"
OneCustodian ==
  Up => \A r \in requestMap : callPc[r] = "wait" => Places(r) = 1

(* Who can take its next step at once, waiting for nobody. *)
CallerMoves(r) ==
  \/ callPc[r] = "send" /\ Len(sendChan) < SendCap
  \/ callPc[r] = "wait" /\ resp[r] # <<>>
ClientOutMoves ==
  \/ outPc[1] = "loop" /\ sendChan # <<>>
  \/ outPc[1] = "write" /\ Cardinality(ToServer) < NetCap
ServerInMoves ==
  \/ svInPc \in {"loop", "check"}
  \/ svInPc = "read" /\ ToServer # {}
  \/ svInPc = "acquire" /\ sem < SemCap
  \/ svInPc = "send" /\ Len(svSendChan) < ServerCap
ServiceMoves(r) ==
  \/ svcPc[r] \in {"run", "check", "release", "fail"}
  \/ svcPc[r] = "send" /\ Len(svSendChan) < ServerCap
ServerOutMoves ==
  \/ svOutPc = "loop" /\ svSendChan # <<>>
  \/ svOutPc = "write" /\ Cardinality(ToClient) < NetCap
ClientInMoves ==
  \/ inPc[1] \in {"loop", "enter", "deliver"}
  \/ inPc[1] = "read" /\ ToClient # {}

(* While the connection is up and a call has not returned, somebody can move: the
   waits for room in sendChan, in the network, in serviceRequestSem and in the
   server's sendChan never close into a ring, because the client's wsInHandler, at
   the end of it, answers on channels that have room. *)
NoRingOfWaiting ==
  Up /\ (\E r \in Requests : callPc[r] \in {"send", "wait"}) =>
    \/ ClientOutMoves \/ ServerInMoves \/ ServerOutMoves \/ ClientInMoves
    \/ \E r \in Requests : CallerMoves(r) \/ ServiceMoves(r)

(* Every call returns, with the server's reply or with an error: also when every
   buffer between the two ends is full, and when an end, at whatever point, gives
   the connection up or finds it broken.  Each request is issued once, so in the end
   no call is under way. *)
EveryCallReturns == <>[](\A r \in Requests : callPc[r] \in {"idle", "returned"})
=============================================================================
