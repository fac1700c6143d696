------------------------------ MODULE WsClient ------------------------------
(***************************************************************************)
(* The server's end of one websocket connection: wsClient of               *)
(* rpcwebsocket.go.  inHandler reads requests and starts one goroutine per *)
(* accepted command, at most SemCap at a time; these goroutines and        *)
(* inHandler itself answer through SendMessage, whose buffered channel     *)
(* outHandler writes to the connection.                                    *)
(*                                                                         *)
(* SendMessage looks at the disconnected flag and then sends, in two steps *)
(* with the lock released in between; the goroutines that service commands *)
(* are not counted in c.wg.  Disconnect is one critical section and so one *)
(* step: what sees the quit channel closed a moment earlier needs the lock *)
(* to see anything else of it.                                             *)
(***************************************************************************)
EXTENDS Naturals, Sequences, FiniteSets

CONSTANTS
  Requests,       \* the messages the peer may send
  SemCap,         \* capacity of serviceRequestSem
  SendCap         \* websocketSendBufferSize

ASSUME WsConfigAssumption ==
  /\ SemCap \in Nat \ {0}
  /\ SendCap \in Nat \ {0}

VARIABLES
  peer,         \* c.authenticated and c.isAdmin: the credentials of the upgrade
  disconnected, \* c.disconnected; c.quit and c.conn are closed with it
  conn,         \* the network connection, as its reads and writes find it
  unread,       \* messages the peer has not sent yet
  inPc, inReq,  \* inHandler: position, message in hand
  svcPc,        \* the goroutine that services each request
  sem,          \* tokens in serviceRequestSem
  sendChan,     \* c.sendChan, the requests whose replies it holds
  outPc, outMsg, \* outHandler: position, reply in hand (at most one)
  written       \* the replies written to the connection, in order

inVars  == <<inPc, inReq, unread>>
svcVars == <<svcPc, sem>>
outVars == <<outPc, outMsg, written>>
wsVars  == <<peer, disconnected, conn, inVars, svcVars, sendChan, outVars>>

Commands == INSTANCE Dispatch
Peers  == Commands!Credentials
InPcs  == {"loop", "read", "check", "send", "acquire", "disconnect", "done"}
SvcPcs == {"none", "run", "check", "send", "release", "done", "fail", "failed"}
OutPcs == {"loop", "write", "disconnect", "drain", "done"}

WsTypeOK ==
  /\ peer \in Peers
  /\ disconnected \in BOOLEAN
  /\ conn \in {"open", "broken", "closed"}
  /\ unread \subseteq Requests
  /\ inPc \in InPcs /\ inReq \in SUBSET Requests
  /\ svcPc \in [Requests -> SvcPcs]
  /\ sem \in 0..SemCap
  /\ sendChan \in Seq(Requests) /\ Len(sendChan) <= SendCap
  /\ outPc \in OutPcs /\ outMsg \in Seq(Requests)
  /\ written \in Seq(Requests)
-----------------------------------------------------------------------------
(* Disconnect, the whole critical section: nothing to do the second time. *)
Disconnect ==
  /\ disconnected' = TRUE
  /\ conn' = "closed"

(* The first step of SendMessage: Disconnected() decides whether to send. *)
MaySend == ~disconnected

(* The second: c.sendChan <- wsResponse{...}, which waits for room.  The
   mutants do not wait, or give up when there is none. *)
EnqueueAlways(r) == sendChan' = Append(sendChan, r)
EnqueueIfRoom(r) ==
  sendChan' = IF Len(sendChan) < SendCap THEN Append(sendChan, r) ELSE sendChan
Enqueue(r) ==
  /\ Len(sendChan) < SendCap
  /\ sendChan' = Append(sendChan, r)

-----------------------------------------------------------------------------
(* inHandler *)

InLoop ==
  /\ inPc = "loop"
  /\ inPc' = IF disconnected THEN "disconnect" ELSE "read"
  /\ UNCHANGED <<peer, disconnected, conn, inReq, unread, svcVars, sendChan, outVars>>

(* A message arrives, or one that was buffered before the connection went.  What it
   asks for is any request: Dispatch says which of them end the connection, are
   ignored, are answered by inHandler itself, or are given to a goroutine. *)
AfterRead(outcome) ==
  IF outcome.closes THEN "disconnect"
  ELSE IF outcome.runs THEN "acquire"
  ELSE IF outcome.reply = "none" THEN "loop"
  ELSE "check"
ReadPositions ==
  [who \in Peers |-> {AfterRead(outcome) : outcome \in Commands!WsOutcomes[who]}]
InRead(r) ==
  /\ inPc = "read"
  /\ r \in unread
  /\ unread' = unread \ {r}
  /\ inPc' \in ReadPositions[peer]
  /\ inReq' = IF inPc' \in {"check", "acquire"} THEN {r} ELSE inReq
  /\ UNCHANGED <<peer, disconnected, conn, svcVars, sendChan, outVars>>

InReadError ==
  /\ inPc = "read"
  /\ conn # "open"
  /\ inPc' = "disconnect"
  /\ UNCHANGED <<peer, disconnected, conn, inReq, unread, svcVars, sendChan, outVars>>

(* c.SendMessage(reply, nil) of inHandler *)
InCheck ==
  /\ inPc = "check"
  /\ inPc' = IF MaySend THEN "send" ELSE "loop"
  /\ inReq' = IF MaySend THEN inReq ELSE {}
  /\ UNCHANGED <<peer, disconnected, conn, unread, svcVars, sendChan, outVars>>

InSend ==
  /\ inPc = "send"
  /\ \E r \in inReq : Enqueue(r)
  /\ inPc' = "loop"
  /\ inReq' = {}
  /\ UNCHANGED <<peer, disconnected, conn, unread, svcVars, outVars>>

(* c.serviceRequestSem.acquire() and go func() { ... }() *)
InAcquire ==
  /\ inPc = "acquire"
  /\ sem < SemCap
  /\ sem' = sem + 1
  /\ svcPc' = [r \in Requests |-> IF r \in inReq THEN "run" ELSE svcPc[r]]
  /\ inPc' = "loop"
  /\ inReq' = {}
  /\ UNCHANGED <<peer, disconnected, conn, unread, sendChan, outVars>>

(* On the way out inHandler makes sure the connection is closed.  The mutant does
   not. *)
InLeave ==
  /\ inPc = "disconnect"
  /\ inPc' = "done"
  /\ UNCHANGED <<peer, disconnected, conn, inReq, unread, svcVars, sendChan, outVars>>
InDisconnect ==
  /\ inPc = "disconnect"
  /\ Disconnect
  /\ inPc' = "done"
  /\ UNCHANGED <<peer, inReq, unread, svcVars, sendChan, outVars>>

-----------------------------------------------------------------------------
(* The goroutine that services r: serviceRequest, then release. *)

(* The handler has run; a reply that cannot be marshalled is not sent. *)
SvcRun(r) ==
  /\ svcPc[r] = "run"
  /\ \E next \in {"check", "fail"} : svcPc' = [svcPc EXCEPT ![r] = next]
  /\ UNCHANGED <<peer, disconnected, conn, inVars, sem, sendChan, outVars>>

SvcCheck(r) ==
  /\ svcPc[r] = "check"
  /\ svcPc' = [svcPc EXCEPT ![r] = IF MaySend THEN "send" ELSE "release"]
  /\ UNCHANGED <<peer, disconnected, conn, inVars, sem, sendChan, outVars>>

(* The mutant ends once the reply is sent, and keeps its token. *)
SvcSendKeepsToken(r) ==
  /\ svcPc[r] = "send"
  /\ Enqueue(r)
  /\ svcPc' = [svcPc EXCEPT ![r] = "done"]
  /\ UNCHANGED <<peer, disconnected, conn, inVars, sem, outVars>>
SvcSend(r) ==
  /\ svcPc[r] = "send"
  /\ Enqueue(r)
  /\ svcPc' = [svcPc EXCEPT ![r] = "release"]
  /\ UNCHANGED <<peer, disconnected, conn, inVars, sem, outVars>>

(* c.serviceRequestSem.release(), whether a reply was sent or not.  The mutant
   returns the token only when one was. *)
ReleaseIfSent(r) ==
  /\ svcPc[r] \in {"release", "fail"}
  /\ svcPc' = [svcPc EXCEPT ![r] = IF @ = "fail" THEN "failed" ELSE "done"]
  /\ sem' = IF svcPc[r] = "fail" THEN sem ELSE sem - 1
  /\ UNCHANGED <<peer, disconnected, conn, inVars, sendChan, outVars>>
SvcRelease(r) ==
  /\ svcPc[r] \in {"release", "fail"}
  /\ svcPc' = [svcPc EXCEPT ![r] = IF @ = "fail" THEN "failed" ELSE "done"]
  /\ sem' = sem - 1
  /\ UNCHANGED <<peer, disconnected, conn, inVars, sendChan, outVars>>

-----------------------------------------------------------------------------
(* outHandler *)

OutReceive ==
  /\ outPc = "loop"
  /\ sendChan # <<>>
  /\ outMsg' = <<Head(sendChan)>>
  /\ sendChan' = Tail(sendChan)
  /\ outPc' = "write"
  /\ UNCHANGED <<peer, disconnected, conn, inVars, svcVars, written>>

OutQuit ==
  /\ outPc = "loop"
  /\ disconnected
  /\ outPc' = "drain"
  /\ UNCHANGED <<peer, disconnected, conn, inVars, svcVars, sendChan, outMsg, written>>

(* c.conn.WriteMessage; a write to a broken connection may still be accepted. *)
OutWrite ==
  /\ outPc = "write"
  /\ \/ /\ conn = "open"
        /\ written' = written \o outMsg
        /\ outPc' = "loop"
     \/ /\ conn = "broken"
        /\ outPc' = "loop"
        /\ UNCHANGED written
     \/ /\ conn # "open"
        /\ outPc' = "disconnect"
        /\ UNCHANGED written
  /\ outMsg' = <<>>
  /\ UNCHANGED <<peer, disconnected, conn, inVars, svcVars, sendChan>>

OutDisconnect ==
  /\ outPc = "disconnect"
  /\ Disconnect
  /\ outPc' = "drain"
  /\ UNCHANGED <<peer, inVars, svcVars, sendChan, outMsg, written>>

(* One turn of the cleanup loop; doneChan is nil for every message sent.  The
   mutant does not drain. *)
OutDrainNothing ==
  /\ outPc = "drain"
  /\ outPc' = "done"
  /\ UNCHANGED <<peer, disconnected, conn, inVars, svcVars, sendChan, outMsg, written>>
OutDrain ==
  /\ outPc = "drain"
  /\ outPc' = IF sendChan = <<>> THEN "done" ELSE "drain"
  /\ sendChan' = IF sendChan = <<>> THEN sendChan ELSE Tail(sendChan)
  /\ UNCHANGED <<peer, disconnected, conn, inVars, svcVars, outMsg, written>>

(* The peer goes away. *)
NetworkFail ==
  /\ conn = "open"
  /\ conn' = "broken"
  /\ UNCHANGED <<peer, disconnected, inVars, svcVars, sendChan, outVars>>

-----------------------------------------------------------------------------
(* newWebsocketClient and Start *)
WsInit ==
  /\ peer \in Peers
  /\ disconnected = FALSE
  /\ conn = "open"
  /\ unread = Requests
  /\ inPc = "loop" /\ inReq = {}
  /\ svcPc = [r \in Requests |-> "none"]
  /\ sem = 0
  /\ sendChan = <<>>
  /\ outPc = "loop" /\ outMsg = <<>>
  /\ written = <<>>

InHandler ==
  \/ InLoop \/ InReadError \/ InCheck \/ InSend \/ InAcquire \/ InDisconnect
  \/ \E r \in Requests : InRead(r)
ServiceRequest(r) == SvcRun(r) \/ SvcCheck(r) \/ SvcSend(r) \/ SvcRelease(r)
OutHandler == OutReceive \/ OutQuit \/ OutWrite \/ OutDisconnect \/ OutDrain

WsNext ==
  \/ InHandler \/ OutHandler \/ NetworkFail
  \/ \E r \in Requests : ServiceRequest(r)

WsSpec == WsInit /\ [][WsNext]_wsVars

-----------------------------------------------------------------------------
(* Properties. *)

Servicing == {r \in Requests : svcPc[r] \notin {"none", "done", "failed"}}
Waiting == {r \in Requests : svcPc[r] = "send" \/ (inPc = "send" /\ r \in inReq)}

(* "Drain any wait channels before exiting so nothing is left waiting around to
   send": once outHandler is gone there is room for everyone who still sends.
   The server's SendCap is its SemCap, and then this fails. *)
NothingLeftWaiting == outPc = "done" => Cardinality(Waiting) <= SendCap - Len(sendChan)

(* It fails for one sender at the most, however many passed the check before the
   disconnect: all the others find room in the channel that was drained. *)
AtMostOneLeftWaiting ==
  outPc = "done" => Cardinality(Waiting) <= SendCap - Len(sendChan) + 1

(* While the connection is up, a command's reply that its goroutine has sent is
   in exactly one place: written, being written, or queued. *)
NoReplyLost ==
  conn = "open" =>
    \A r \in Requests : svcPc[r] \in {"release", "done"} =>
      LET replies == written \o outMsg \o sendChan
      IN  Cardinality({i \in 1..Len(replies) : replies[i] = r}) = 1

(* Every token of the semaphore belongs to a request being serviced, so that a
   peer can never be left unable to have its requests serviced. *)
TokensAccounted == sem = Cardinality(Servicing)

(* Fairness: the goroutines run, the handlers of commands return, and reads and
   writes of a connection that is gone return.  Nothing is assumed of the peer. *)
WsFairness ==
  /\ WF_wsVars(InLoop \/ InReadError \/ InCheck \/ InSend \/ InAcquire \/ InDisconnect)
  /\ WF_wsVars(OutReceive \/ OutQuit \/ OutDisconnect \/ OutDrain \/ (OutWrite /\ conn # "open"))
  /\ \A r \in Requests : WF_wsVars(ServiceRequest(r))

WsFairSpec == WsSpec /\ WsFairness

(* When the peer is gone everything of the connection ends, both handlers and the
   goroutines that service its requests, but for one sender that may have found the
   channel full: a request goroutine, or inHandler, on which WaitForShutdown then
   waits.  With SendCap >= SemCap > 1; a semaphore of one token, held by that
   goroutine, would hold up inHandler too. *)
Gone == inPc = "done" /\ outPc = "done" /\ Servicing = {}
OneLeftBehind ==
  /\ outPc = "done" /\ Len(sendChan) = SendCap
  /\ Cardinality(Waiting) = 1
  /\ Waiting = Servicing \cup inReq /\ inPc \in {"send", "done"}
ConnectionWindsDown == (conn # "open") ~> (Gone \/ OneLeftBehind)
=============================================================================
