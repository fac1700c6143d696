------------------------------ MODULE RpcClient ------------------------------
(***************************************************************************)
(* The websocket side of rpclient.Client (rpclient/infrastructure.go): the *)
(* table of outstanding requests, the goroutines that read and write the   *)
(* connection, the reconnect handler and its resends, and the exported     *)
(* operations Connect, Disconnect and Shutdown.                            *)
(*                                                                         *)
(* A generation is one dialled connection; every successful dial starts a  *)
(* new wsInHandler and wsOutHandler, and nothing waits for the handlers of *)
(* the generation before, so handlers of several generations may coexist.  *)
(* The handlers refer to the connection as c.wsConn and to the disconnect  *)
(* channel as c.disconnectChan(), i.e. to whatever is current.             *)
(*                                                                         *)
(* Atomicity.  A critical section of c.mtx or c.requestLock is one step,   *)
(* except where the lock is held across a wait: Connect holds c.mtx while  *)
(* it dials and Shutdown holds c.requestLock while it waits for c.mtx.     *)
(***************************************************************************)
EXTENDS Naturals, Sequences, FiniteSets

CONSTANTS
  Requests,       \* the commands callers issue; one NextID per command
  LongRunning,    \* those whose method is in ignoreResends
  SendCap,        \* sendBufferSize
  MaxConn,        \* bound on successful dials (connection generations)
  MaxRetries,     \* retryCount saturates here
  AutoReconnect,  \* ~config.DisableAutoReconnect
  ConnectOnNew    \* ~config.DisableConnectOnNew

ASSUME ConfigAssumption ==
  /\ LongRunning \subseteq Requests
  /\ SendCap \in Nat \ {0}
  /\ MaxConn \in Nat \ {0}
  /\ MaxRetries \in Nat \ {0}
  /\ AutoReconnect \in BOOLEAN
  /\ ConnectOnNew \in BOOLEAN

VARIABLES
  wsConn,           \* generation of c.wsConn, 0 when nil
  disconnected,     \* c.disconnected
  disconnectClosed, \* the current c.disconnect channel has been closed
  shutdown,         \* c.shutdown has been closed
  connEstablished,  \* c.connEstablished has been closed
  requestMap,       \* ids in c.requestMap, which are those of c.requestList
  sendChan,         \* c.sendChan
  retryCount,       \* c.retryCount
  conn,             \* state of each generation's network connection
  wire,             \* per generation, how often a request is with the server
  inPc, inConn, inReq,   \* wsInHandler: position, connection it reads, reply held
  outPc, outMsg,         \* wsOutHandler: position, message it has taken
  reconnPc,              \* wsReconnectHandler
  resendPc, resendReqs,  \* resendRequests: position, its copy of the requests
  callPc,                \* sendCmd followed by receiveFuture
  resp,                  \* everything ever sent on each responseChan
  userPc,                \* a caller of Disconnect
  shutPc,                \* the caller of Shutdown
  connectPc              \* a caller of Connect

linkVars    == <<wsConn, disconnected, disconnectClosed, connEstablished, conn>>
futureVars  == <<requestMap, resp, shutdown>>
inVars      == <<inPc, inConn, inReq>>
outVars     == <<outPc, outMsg>>
reconnVars  == <<reconnPc, retryCount>>
resendVars  == <<resendPc, resendReqs>>
userVars    == <<userPc, shutPc, connectPc>>
vars == <<linkVars, futureVars, sendChan, wire, inVars, outVars, reconnVars,
          resendVars, callPc, userVars>>

Gens     == 1..MaxConn
Errors   == {"ErrClientNotConnected", "ErrClientShutdown", "ErrClientDisconnect"}
Outcomes == Errors \cup {"reply"}

InPcs     == {"none", "loop", "enter", "read", "deliver", "disconnect", "lock", "done"}
OutPcs    == {"none", "loop", "write", "disconnect", "lock", "drain", "done"}
ReconnPcs == {"none", "wait", "check", "dial", "assign", "reset", "done"}
ResendPcs == {"none", "copy", "check", "send", "done"}
CallPcs   == {"idle", "send", "wait", "returned"}
ConnState == {"none", "open", "broken", "closed"}

TypeOK ==
  /\ wsConn \in 0..MaxConn
  /\ disconnected \in BOOLEAN /\ disconnectClosed \in BOOLEAN
  /\ shutdown \in BOOLEAN /\ connEstablished \in BOOLEAN
  /\ requestMap \subseteq Requests
  /\ sendChan \in Seq(Requests) /\ Len(sendChan) <= SendCap
  /\ retryCount \in 0..MaxRetries
  /\ conn \in [Gens -> ConnState]
  /\ wire \in [Gens -> [Requests -> Nat]]
  /\ inPc \in [Gens -> InPcs] /\ inConn \in [Gens -> 0..MaxConn]
  /\ inReq \in [Gens -> SUBSET Requests]
  /\ outPc \in [Gens -> OutPcs] /\ outMsg \in [Gens -> SUBSET Requests]
  /\ reconnPc \in ReconnPcs
  /\ resendPc \in [Gens -> ResendPcs] /\ resendReqs \in [Gens -> SUBSET Requests]
  /\ callPc \in [Requests -> CallPcs]
  /\ resp \in [Requests -> Seq(Outcomes)]
  /\ userPc \in {"idle", "lock"}
  /\ shutPc \in {"idle", "mtx", "done"}
  /\ connectPc \in {"idle", "dial"}
-----------------------------------------------------------------------------
(* The locks.  Connect runs under c.mtx, Shutdown under c.requestLock. *)
MtxFree == connectPc # "dial"
RequestLockFree == shutPc # "mtx"

(* responseChan <- &response{...} for each request of S.  resp keeps what a
   channel was ever sent; its capacity is 1 and receiveFuture reads it once. *)
Respond(S, outcome) ==
  [r \in Requests |-> IF r \in S THEN Append(resp[r], outcome) ELSE resp[r]]

(* removeRequest, removeAllRequests: what is left in the table.  The mutant
   looks the request up without deleting it. *)
LookUpOnly(r) == requestMap
RemoveRequest(r) == requestMap \ {r}
RemoveAllRequests == {}

(* What resendRequests copies and leaves in the table: everything but the
   long-running requests.  The mutant has the test the wrong way round. *)
OnlyLongRunning == requestMap \cap LongRunning
ResendableRequests == requestMap \ LongRunning

(* The check of c.shutdown that addRequest makes with the request lock held. *)
AcceptsAlways == TRUE
AcceptsRequests == ~shutdown

(* The check of c.shutdown at the head of wsInHandler's loop. *)
ReadsAlways == FALSE
StopsReading == shutdown

(* sendMessage: a select between room in sendChan and the closed channel.  The
   mutant has room for one message too many. *)
SendMessageOffByOne(r) ==
  \/ /\ Len(sendChan) <= SendCap
     /\ sendChan' = Append(sendChan, r)
  \/ /\ disconnectClosed
     /\ UNCHANGED sendChan
SendMessage(r) ==
  \/ /\ Len(sendChan) < SendCap
     /\ sendChan' = Append(sendChan, r)
  \/ /\ disconnectClosed
     /\ UNCHANGED sendChan

(* doDisconnect under c.mtx: closes the disconnect channel and the current
   connection, unless that has been done.  The mutant leaves the connection. *)
DoDisconnectNoClose ==
  /\ MtxFree
  /\ disconnected' = TRUE
  /\ disconnectClosed' = TRUE
  /\ UNCHANGED <<wsConn, connEstablished, conn>>
DoDisconnect ==
  /\ MtxFree
  /\ disconnected' = TRUE
  /\ disconnectClosed' = (disconnectClosed \/ ~disconnected)
  /\ conn' = [g \in Gens |-> IF g = wsConn /\ ~disconnected THEN "closed" ELSE conn[g]]
  /\ UNCHANGED <<wsConn, connEstablished>>

(* Every outstanding request fails and the client shuts down (both callers
   hold the request lock, so no request can be added in between).  The mutants
   clear the table without answering, and answer without shutting down. *)
FailAllSilently(err) ==
  /\ RequestLockFree
  /\ requestMap' = RemoveAllRequests
  /\ shutdown' = TRUE
  /\ UNCHANGED resp
FailAllStaysOpen(err) ==
  /\ RequestLockFree
  /\ resp' = Respond(requestMap, err)
  /\ requestMap' = RemoveAllRequests
  /\ UNCHANGED shutdown
FailAll(err) ==
  /\ RequestLockFree
  /\ resp' = Respond(requestMap, err)
  /\ requestMap' = RemoveAllRequests
  /\ shutdown' = TRUE

(* The rest of Disconnect, for a caller whose doDisconnect returned true.  The
   mutant tests DisableAutoReconnect the wrong way round. *)
AfterDisconnectInverted ==
  IF AutoReconnect
  THEN FailAll("ErrClientDisconnect")
  ELSE RequestLockFree /\ UNCHANGED futureVars
AfterDisconnect ==
  IF AutoReconnect
  THEN RequestLockFree /\ UNCHANGED futureVars
  ELSE FailAll("ErrClientDisconnect")

-----------------------------------------------------------------------------
(* Callers: sendCmd, then receiveFuture. *)

(* sendRequest on a client that was never connected. *)
SendUnconnected(r) ==
  /\ callPc[r] = "idle"
  /\ ~connEstablished
  /\ resp' = Respond({r}, "ErrClientNotConnected")
  /\ callPc' = [callPc EXCEPT ![r] = "wait"]
  /\ UNCHANGED <<linkVars, requestMap, shutdown, sendChan, wire, inVars, outVars,
                 reconnVars, resendVars, userVars>>

(* sendRequest up to addRequest, which refuses once shutdown has begun. *)
AddRequest(r) ==
  /\ callPc[r] = "idle"
  /\ connEstablished
  /\ RequestLockFree
  /\ IF AcceptsRequests
     THEN /\ requestMap' = requestMap \cup {r}
          /\ callPc' = [callPc EXCEPT ![r] = "send"]
          /\ UNCHANGED resp
     ELSE /\ resp' = Respond({r}, "ErrClientShutdown")
          /\ callPc' = [callPc EXCEPT ![r] = "wait"]
          /\ UNCHANGED requestMap
  /\ UNCHANGED <<linkVars, shutdown, sendChan, wire, inVars, outVars, reconnVars,
                 resendVars, userVars>>

(* The rest of sendRequest: c.sendMessage(jReq.marshalledJSON). *)
SendRequest(r) ==
  /\ callPc[r] = "send"
  /\ MtxFree
  /\ SendMessage(r)
  /\ callPc' = [callPc EXCEPT ![r] = "wait"]
  /\ UNCHANGED <<linkVars, futureVars, wire, inVars, outVars, reconnVars,
                 resendVars, userVars>>

(* receiveFuture returns. *)
ReceiveFuture(r) ==
  /\ callPc[r] = "wait"
  /\ resp[r] # <<>>
  /\ callPc' = [callPc EXCEPT ![r] = "returned"]
  /\ UNCHANGED <<linkVars, futureVars, sendChan, wire, inVars, outVars,
                 reconnVars, resendVars, userVars>>

-----------------------------------------------------------------------------
(* wsInHandler of generation g. *)

(* The check of c.shutdown. *)
InLoop(g) ==
  /\ inPc[g] = "loop"
  /\ inPc' = [inPc EXCEPT ![g] = IF StopsReading THEN "disconnect" ELSE "enter"]
  /\ UNCHANGED <<linkVars, futureVars, sendChan, wire, inConn, inReq, outVars, reconnVars,
                 resendVars, callPc, userVars>>

(* c.wsConn.ReadMessage() on the connection that is current now. *)
InEnter(g) ==
  /\ inPc[g] = "enter"
  /\ inPc' = [inPc EXCEPT ![g] = "read"]
  /\ inConn' = [inConn EXCEPT ![g] = wsConn]
  /\ UNCHANGED <<linkVars, futureVars, sendChan, wire, inReq, outVars, reconnVars,
                 resendVars, callPc, userVars>>

(* handleMessage of a reply to r, up to and including removeRequest.  The
   reply may have been buffered before the connection was closed. *)
InReply(g, r) ==
  /\ inPc[g] = "read"
  /\ inConn[g] # 0
  /\ wire[inConn[g]][r] > 0
  /\ RequestLockFree
  /\ wire' = [wire EXCEPT ![inConn[g]][r] = @ - 1]
  /\ inConn' = [inConn EXCEPT ![g] = 0]
  /\ IF r \in requestMap
     THEN /\ requestMap' = RemoveRequest(r)
          /\ inReq' = [inReq EXCEPT ![g] = {r}]
          /\ inPc' = [inPc EXCEPT ![g] = "deliver"]
     ELSE /\ inPc' = [inPc EXCEPT ![g] = "loop"]
          /\ UNCHANGED <<requestMap, inReq>>
  /\ UNCHANGED <<linkVars, resp, shutdown, sendChan, outVars, reconnVars,
                 resendVars, callPc, userVars>>

(* handleMessage of anything it drops: notifications and malformed messages. *)
InIgnore(g) ==
  /\ inPc[g] = "read"
  /\ inConn[g] # 0
  /\ conn[inConn[g]] = "open"
  /\ inPc' = [inPc EXCEPT ![g] = "loop"]
  /\ inConn' = [inConn EXCEPT ![g] = 0]
  /\ UNCHANGED <<linkVars, futureVars, sendChan, wire, inReq, outVars, reconnVars,
                 resendVars, callPc, userVars>>

(* handleMessage hands the result to the caller, outside the lock. *)
InDeliver(g) ==
  /\ inPc[g] = "deliver"
  /\ resp' = Respond(inReq[g], "reply")
  /\ inReq' = [inReq EXCEPT ![g] = {}]
  /\ inPc' = [inPc EXCEPT ![g] = "loop"]
  /\ UNCHANGED <<linkVars, requestMap, shutdown, sendChan, wire, inConn, outVars,
                 reconnVars, resendVars, callPc, userVars>>

(* ReadMessage fails: the connection broke, or someone closed it. *)
InError(g) ==
  /\ inPc[g] = "read"
  /\ inConn[g] # 0
  /\ conn[inConn[g]] \in {"broken", "closed"}
  /\ inPc' = [inPc EXCEPT ![g] = "disconnect"]
  /\ inConn' = [inConn EXCEPT ![g] = 0]
  /\ UNCHANGED <<linkVars, futureVars, sendChan, wire, inReq, outVars, reconnVars,
                 resendVars, callPc, userVars>>

(* c.Disconnect() on the way out; it acts on whatever connection is current. *)
InDisconnect(g) ==
  /\ inPc[g] = "disconnect"
  /\ DoDisconnect
  /\ inPc' = [inPc EXCEPT ![g] = IF disconnected THEN "done" ELSE "lock"]
  /\ UNCHANGED <<futureVars, sendChan, wire, inConn, inReq, outVars, reconnVars,
                 resendVars, callPc, userVars>>

InFinish(g) ==
  /\ inPc[g] = "lock"
  /\ AfterDisconnect
  /\ inPc' = [inPc EXCEPT ![g] = "done"]
  /\ UNCHANGED <<linkVars, sendChan, wire, inConn, inReq, outVars, reconnVars,
                 resendVars, callPc, userVars>>

-----------------------------------------------------------------------------
(* wsOutHandler of generation g. *)

OutReceive(g) ==
  /\ outPc[g] = "loop"
  /\ sendChan # <<>>
  /\ outMsg' = [outMsg EXCEPT ![g] = {Head(sendChan)}]
  /\ sendChan' = Tail(sendChan)
  /\ outPc' = [outPc EXCEPT ![g] = "write"]
  /\ UNCHANGED <<linkVars, futureVars, wire, inVars, reconnVars, resendVars,
                 callPc, userVars>>

OutQuit(g) ==
  /\ outPc[g] = "loop"
  /\ disconnectClosed
  /\ outPc' = [outPc EXCEPT ![g] = "drain"]
  /\ UNCHANGED <<linkVars, futureVars, sendChan, wire, inVars, outMsg, reconnVars,
                 resendVars, callPc, userVars>>

(* c.wsConn.WriteMessage on the connection that is current now.  A write to a
   broken connection may be accepted by the socket and lost. *)
OutWrite(g) ==
  /\ outPc[g] = "write"
  /\ wsConn # 0
  /\ \/ /\ conn[wsConn] = "open"
        /\ wire' = [wire EXCEPT ![wsConn] =
                      [r \in Requests |-> IF r \in outMsg[g] THEN @[r] + 1 ELSE @[r]]]
        /\ outPc' = [outPc EXCEPT ![g] = "loop"]
     \/ /\ conn[wsConn] = "broken"
        /\ outPc' = [outPc EXCEPT ![g] = "loop"]
        /\ UNCHANGED wire
     \/ /\ conn[wsConn] \in {"broken", "closed"}
        /\ outPc' = [outPc EXCEPT ![g] = "disconnect"]
        /\ UNCHANGED wire
  /\ outMsg' = [outMsg EXCEPT ![g] = {}]
  /\ UNCHANGED <<linkVars, futureVars, sendChan, inVars, reconnVars, resendVars,
                 callPc, userVars>>

OutDisconnect(g) ==
  /\ outPc[g] = "disconnect"
  /\ DoDisconnect
  /\ outPc' = [outPc EXCEPT ![g] = IF disconnected THEN "drain" ELSE "lock"]
  /\ UNCHANGED <<futureVars, sendChan, wire, inVars, outMsg, reconnVars,
                 resendVars, callPc, userVars>>

OutFinish(g) ==
  /\ outPc[g] = "lock"
  /\ AfterDisconnect
  /\ outPc' = [outPc EXCEPT ![g] = "drain"]
  /\ UNCHANGED <<linkVars, sendChan, wire, inVars, outMsg, reconnVars, resendVars,
                 callPc, userVars>>

(* One turn of the cleanup loop: discard a message, or find none and stop. *)
OutDrain(g) ==
  /\ outPc[g] = "drain"
  /\ sendChan' = IF sendChan = <<>> THEN sendChan ELSE Tail(sendChan)
  /\ outPc' = [outPc EXCEPT ![g] = IF sendChan = <<>> THEN "done" ELSE "drain"]
  /\ UNCHANGED <<linkVars, futureVars, wire, inVars, outMsg, reconnVars,
                 resendVars, callPc, userVars>>

-----------------------------------------------------------------------------
(* wsReconnectHandler, and start for a new generation. *)

(* The mutant starts to redial without waiting for a disconnect. *)
ReconnWaitNot ==
  /\ reconnPc = "wait"
  /\ \/ reconnPc' = "check"
     \/ shutdown /\ reconnPc' = "done"
  /\ UNCHANGED <<linkVars, futureVars, sendChan, wire, inVars, outVars, retryCount,
                 resendVars, callPc, userVars>>
ReconnWait ==
  /\ reconnPc = "wait"
  /\ \/ disconnectClosed /\ reconnPc' = "check"
     \/ shutdown /\ reconnPc' = "done"
  /\ UNCHANGED <<linkVars, futureVars, sendChan, wire, inVars, outVars, retryCount,
                 resendVars, callPc, userVars>>

ReconnCheck ==
  /\ reconnPc = "check"
  /\ reconnPc' = IF shutdown THEN "done" ELSE "dial"
  /\ UNCHANGED <<linkVars, futureVars, sendChan, wire, inVars, outVars, retryCount,
                 resendVars, callPc, userVars>>

ReconnDialFail ==
  /\ reconnPc = "dial"
  /\ retryCount' = IF retryCount < MaxRetries THEN retryCount + 1 ELSE retryCount
  /\ reconnPc' = "check"
  /\ UNCHANGED <<linkVars, futureVars, sendChan, wire, inVars, outVars, resendVars,
                 callPc, userVars>>

ReconnDial ==
  /\ reconnPc = "dial"
  /\ wsConn < MaxConn
  /\ conn' = [conn EXCEPT ![wsConn + 1] = "open"]
  /\ reconnPc' = "assign"
  /\ UNCHANGED <<wsConn, disconnected, disconnectClosed, connEstablished, futureVars,
                 sendChan, wire, inVars, outVars, retryCount, resendVars, callPc,
                 userVars>>

(* c.wsConn = wsConn and c.retryCount = 0, without c.mtx. *)
ReconnAssign ==
  /\ reconnPc = "assign"
  /\ wsConn' = wsConn + 1
  /\ retryCount' = 0
  /\ reconnPc' = "reset"
  /\ UNCHANGED <<disconnected, disconnectClosed, connEstablished, conn, futureVars,
                 sendChan, wire, inVars, outVars, resendVars, callPc, userVars>>

(* What c.disconnect = make(chan struct{}) leaves of the channel's state.  The
   mutant keeps the old channel. *)
OldDisconnectChan == disconnectClosed
NewDisconnectChan == FALSE

(* The new disconnect channel, c.start() and go c.resendRequests(). *)
ReconnReset ==
  /\ reconnPc = "reset"
  /\ MtxFree
  /\ wsConn # 0
  /\ disconnectClosed' = NewDisconnectChan
  /\ disconnected' = FALSE
  /\ inPc' = [inPc EXCEPT ![wsConn] = "loop"]
  /\ outPc' = [outPc EXCEPT ![wsConn] = "loop"]
  /\ resendPc' = [resendPc EXCEPT ![wsConn] = "copy"]
  /\ reconnPc' = "wait"
  /\ UNCHANGED <<wsConn, connEstablished, conn, futureVars, sendChan, wire, inConn,
                 inReq, outMsg, retryCount, resendReqs, callPc, userVars>>

-----------------------------------------------------------------------------
(* resendRequests started with generation g. *)

(* The copy of the outstanding requests, made under the request lock; the
   long-running ones are dropped from the table. *)
ResendCopy(g) ==
  /\ resendPc[g] = "copy"
  /\ RequestLockFree
  /\ requestMap' = ResendableRequests
  /\ resendReqs' = [resendReqs EXCEPT ![g] = ResendableRequests]
  /\ resendPc' = [resendPc EXCEPT ![g] = "check"]
  /\ UNCHANGED <<linkVars, resp, shutdown, sendChan, wire, inVars, outVars,
                 reconnVars, callPc, userVars>>

ResendCheck(g) ==
  /\ resendPc[g] = "check"
  /\ MtxFree
  /\ LET stop == resendReqs[g] = {} \/ (connEstablished /\ disconnected)
     IN  /\ resendPc' = [resendPc EXCEPT ![g] = IF stop THEN "done" ELSE "send"]
         /\ resendReqs' = [resendReqs EXCEPT ![g] = IF stop THEN {} ELSE @]
  /\ UNCHANGED <<linkVars, futureVars, sendChan, wire, inVars, outVars, reconnVars,
                 callPc, userVars>>

(* The requests are resent in list order; the order is left open here. *)
ResendSend(g) ==
  /\ resendPc[g] = "send"
  /\ MtxFree
  /\ \E r \in resendReqs[g] :
       /\ SendMessage(r)
       /\ resendReqs' = [resendReqs EXCEPT ![g] = @ \ {r}]
  /\ resendPc' = [resendPc EXCEPT ![g] = "check"]
  /\ UNCHANGED <<linkVars, futureVars, wire, inVars, outVars, reconnVars, callPc,
                 userVars>>

-----------------------------------------------------------------------------
(* The exported Disconnect, Shutdown and Connect. *)

Disconnect ==
  /\ userPc = "idle"
  /\ DoDisconnect
  /\ userPc' = IF disconnected THEN "idle" ELSE "lock"
  /\ UNCHANGED <<futureVars, sendChan, wire, inVars, outVars, reconnVars, resendVars,
                 callPc, shutPc, connectPc>>

DisconnectFinish ==
  /\ userPc = "lock"
  /\ AfterDisconnect
  /\ userPc' = "idle"
  /\ UNCHANGED <<linkVars, sendChan, wire, inVars, outVars, reconnVars, resendVars,
                 callPc, shutPc, connectPc>>

(* Shutdown keeps the request lock until its doDisconnect has returned; a
   second call finds the channel closed and does nothing. *)
Shutdown ==
  /\ shutPc = "idle"
  /\ ~shutdown
  /\ FailAll("ErrClientShutdown")
  /\ shutPc' = "mtx"
  /\ UNCHANGED <<linkVars, sendChan, wire, inVars, outVars, reconnVars, resendVars,
                 callPc, userPc, connectPc>>

ShutdownFinish ==
  /\ shutPc = "mtx"
  /\ DoDisconnect
  /\ shutPc' = "done"
  /\ UNCHANGED <<futureVars, sendChan, wire, inVars, outVars, reconnVars, resendVars,
                 callPc, userPc, connectPc>>

(* Connect takes c.mtx for all of its attempts. *)
Connect ==
  /\ connectPc = "idle"
  /\ wsConn = 0
  /\ connectPc' = "dial"
  /\ UNCHANGED <<linkVars, futureVars, sendChan, wire, inVars, outVars, reconnVars,
                 resendVars, callPc, userPc, shutPc>>

ConnectFail ==
  /\ connectPc = "dial"
  /\ connectPc' = "idle"
  /\ UNCHANGED <<linkVars, futureVars, sendChan, wire, inVars, outVars, reconnVars,
                 resendVars, callPc, userPc, shutPc>>

(* The goroutines that New or Connect starts once it has a connection. *)
FirstReconnPc == IF AutoReconnect THEN "wait" ELSE "none"

ConnectEstablish ==
  /\ connectPc = "dial"
  /\ connectPc' = "idle"
  /\ wsConn' = 1
  /\ conn' = [conn EXCEPT ![1] = "open"]
  /\ connEstablished' = TRUE
  /\ inPc' = [inPc EXCEPT ![1] = "loop"]
  /\ outPc' = [outPc EXCEPT ![1] = "loop"]
  /\ reconnPc' = FirstReconnPc
  /\ UNCHANGED <<disconnected, disconnectClosed, futureVars, sendChan, wire, inConn,
                 inReq, outMsg, retryCount, resendVars, callPc, userPc, shutPc>>

(* The network or the server drops a connection. *)
NetworkFail(g) ==
  /\ conn[g] = "open"
  /\ conn' = [conn EXCEPT ![g] = "broken"]
  /\ UNCHANGED <<wsConn, disconnected, disconnectClosed, connEstablished, futureVars,
                 sendChan, wire, inVars, outVars, reconnVars, resendVars, callPc,
                 userVars>>

-----------------------------------------------------------------------------
(* New: the client starts connected unless DisableConnectOnNew is set. *)
Init ==
  LET first == IF ConnectOnNew THEN 1 ELSE 0
  IN
  /\ wsConn = first
  /\ disconnected = FALSE /\ disconnectClosed = FALSE /\ shutdown = FALSE
  /\ connEstablished = ConnectOnNew
  /\ requestMap = {}
  /\ sendChan = <<>>
  /\ retryCount = 0
  /\ conn = [g \in Gens |-> IF g = first THEN "open" ELSE "none"]
  /\ wire = [g \in Gens |-> [r \in Requests |-> 0]]
  /\ inPc = [g \in Gens |-> IF g = first THEN "loop" ELSE "none"]
  /\ inConn = [g \in Gens |-> 0]
  /\ inReq = [g \in Gens |-> {}]
  /\ outPc = [g \in Gens |-> IF g = first THEN "loop" ELSE "none"]
  /\ outMsg = [g \in Gens |-> {}]
  /\ reconnPc = IF ConnectOnNew THEN FirstReconnPc ELSE "none"
  /\ resendPc = [g \in Gens |-> "none"]
  /\ resendReqs = [g \in Gens |-> {}]
  /\ callPc = [r \in Requests |-> "idle"]
  /\ resp = [r \in Requests |-> <<>>]
  /\ userPc = "idle" /\ shutPc = "idle" /\ connectPc = "idle"

Call(r) == SendUnconnected(r) \/ AddRequest(r) \/ SendRequest(r) \/ ReceiveFuture(r)
InHandler(g) ==
  \/ InLoop(g) \/ InEnter(g) \/ InDeliver(g) \/ InError(g) \/ InDisconnect(g) \/ InFinish(g)
  \/ InIgnore(g) \/ \E r \in Requests : InReply(g, r)
OutHandler(g) ==
  \/ OutReceive(g) \/ OutQuit(g) \/ OutWrite(g) \/ OutDisconnect(g)
  \/ OutFinish(g) \/ OutDrain(g)
Reconnect ==
  \/ ReconnWait \/ ReconnCheck \/ ReconnDialFail \/ ReconnDial
  \/ ReconnAssign \/ ReconnReset
Resend(g) == ResendCopy(g) \/ ResendCheck(g) \/ ResendSend(g)
UserOps ==
  \/ Disconnect \/ DisconnectFinish \/ Shutdown \/ ShutdownFinish
  \/ Connect \/ ConnectFail \/ ConnectEstablish

Next ==
  \/ \E r \in Requests : Call(r)
  \/ \E g \in Gens : InHandler(g) \/ OutHandler(g) \/ Resend(g) \/ NetworkFail(g)
  \/ Reconnect
  \/ UserOps

Spec == Init /\ [][Next]_vars

-----------------------------------------------------------------------------
(* Safety properties. *)

Delivering(r) == \E g \in Gens : r \in inReq[g]

(* No responseChan is ever sent a second response: a reply, a Disconnect and
   a Shutdown racing for the same request never both answer it.  (The channel
   has room for one, so a second one could block a handler for good.) *)
AtMostOneResponse == \A r \in Requests : Len(resp[r]) <= 1

(* A caller never waits for a response that nobody owes it: its request is in
   the table, in the hands of a handler, or answered.  The long-running
   requests, which resendRequests forgets, are the documented exception. *)
NoOrphanedCaller ==
  \A r \in Requests \ LongRunning :
     callPc[r] \in {"send", "wait"} =>
        r \in requestMap \/ Delivering(r) \/ resp[r] # <<>>

(* Once c.shutdown is closed the table is empty and stays empty, so nothing can
   be left waiting for handlers that are about to stop. *)
ShutdownLeavesNothingPending == shutdown => requestMap = {}

(* close(c.disconnect) is reached only while the channel is open, however many
   handlers and callers race through doDisconnect and whenever the reconnect
   handler replaces the channel (closing it twice would panic). *)
DisconnectChanClosedOnce == ~disconnected => ~disconnectClosed

(* The reconnect handler replaces c.wsConn without c.mtx; meanwhile the
   disconnected flag keeps every doDisconnect away from c.wsConn. *)
UnlockedAssignIsGuarded == reconnPc \in {"assign", "reset"} => disconnected

(* For a client connected by New: every connection not closed by the client is
   the current one, or the one the reconnect handler is installing. *)
NoLeakedConnection ==
  \A g \in Gens : conn[g] \in {"open", "broken"} =>
     \/ g = wsConn /\ (~disconnected \/ reconnPc = "reset")
     \/ g = wsConn + 1 /\ reconnPc = "assign"

(* c.wg is zero: what WaitForShutdown waits for. *)
AllStopped ==
  /\ reconnPc \in {"none", "done"}
  /\ \A g \in Gens : inPc[g] \in {"none", "done"} /\ outPc[g] \in {"none", "done"}

(* "WaitForShutdown blocks until the client goroutines are stopped and the
   connection is closed." *)
StoppedMeansClosed ==
  AllStopped => \A g \in Gens : conn[g] \in {"none", "closed"}

-----------------------------------------------------------------------------
(* Two statements of the code's comments that its steps do not bear out. *)

(* wsOutHandler "uses a buffered channel to serialize output messages": no
   handler takes a message to write while the handler of the current
   connection is writing to it (the connection allows one writer). *)
OneWriterAtATime ==
  [][\A g \in Gens :
       outPc[g] = "loop" /\ outPc'[g] = "write" => outPc[wsConn] # "write"]_vars

(* The requests that had not completed are resent, "so the disconnect/reconnect
   process is largely transparent to the caller": while the client is connected
   an outstanding request is queued, being written, with the server or about to
   be resent, or a handler is about to disconnect. *)
Travelling(r) ==
  \/ \E i \in 1..Len(sendChan) : sendChan[i] = r
  \/ wire[wsConn][r] > 0
  \/ \E g \in Gens : r \in outMsg[g] \/ r \in resendReqs[g] \/ resendPc[g] = "copy"
NoLostRequest ==
  \A r \in Requests \ LongRunning :
     (r \in requestMap /\ callPc[r] = "wait" /\ ~disconnected /\ conn[wsConn] = "open") =>
        \/ Travelling(r)
        \/ \E g \in Gens : inPc[g] = "disconnect" \/ outPc[g] = "disconnect"

-----------------------------------------------------------------------------
(* The client implements the futures it hands out: through replies, reconnects,
   disconnects and a shutdown a future resolves at most once, all the outstanding
   ones fail together, and only the long-running requests that resendRequests
   drops from the table stay without an outcome. *)
FutureOf(r) ==
  IF resp[r] # <<>> THEN resp[r][1]
  ELSE IF r \in requestMap \/ Delivering(r) THEN "outstanding"
  ELSE IF callPc[r] = "idle" THEN "unsent" ELSE "forgotten"

Futures == INSTANCE RequestFutures WITH
  future   <- [r \in Requests |-> FutureOf(r)],
  arriving <- {r \in Requests : Delivering(r)},
  closed   <- shutdown

ImplementsFutures == Futures!FuturesSpec

-----------------------------------------------------------------------------
(* Fairness: every goroutine of the client keeps running, and reads and writes
   return once their connection is gone.  Nothing is assumed of the server, of
   the network (a write to an open connection may block for ever), of the
   length of a dial, or of what the application calls next. *)
InProgress(g) == InLoop(g) \/ InEnter(g) \/ InDeliver(g) \/ InError(g) \/ InDisconnect(g) \/ InFinish(g)
OutProgress(g) ==
  \/ OutReceive(g) \/ OutQuit(g) \/ OutDisconnect(g) \/ OutFinish(g) \/ OutDrain(g)
  \/ OutWrite(g) /\ conn[wsConn] # "open"

Fairness ==
  /\ \A g \in Gens : /\ WF_vars(InProgress(g))
                     /\ WF_vars(OutProgress(g))
                     /\ WF_vars(Resend(g))
  /\ WF_vars(ReconnWait \/ ReconnCheck \/ ReconnAssign \/ ReconnReset)
  /\ WF_vars(DisconnectFinish) /\ WF_vars(ShutdownFinish)
  /\ \A r \in Requests : WF_vars(SendRequest(r) \/ ReceiveFuture(r))

FairSpec == Spec /\ Fairness

(* Shutdown "also stops all goroutines": for good, but for a reconnect handler
   whose dial has not returned. *)
ShutdownStopsGoroutines ==
  [](shutdown =>
       <>[](/\ \A g \in Gens : inPc[g] \in {"none", "done"} /\ outPc[g] \in {"none", "done"}
            /\ reconnPc \in {"none", "done", "dial"}))

(* After a shutdown no caller of sendCmd or receiveFuture is left blocked. *)
ShutdownReleasesCallers ==
  \A r \in Requests : (shutdown /\ callPc[r] # "idle") ~> (callPc[r] = "returned")

(* Without auto reconnect, losing the connection resolves every future. *)
LostConnectionReleasesCallers ==
  \A r \in Requests :
     (conn[1] = "broken" /\ callPc[r] # "idle") ~> (callPc[r] = "returned")
=============================================================================
