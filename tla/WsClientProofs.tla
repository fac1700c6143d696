---------------------------- MODULE WsClientProofs ----------------------------
(***************************************************************************)
(* Proofs about WsClient for any requests, any number of service           *)
(* goroutines and any send buffer: every variable keeps its type, every    *)
(* token of the semaphore belongs to a request being serviced, no reply is *)
(* lost or doubled while the connection is up, and with a send buffer as   *)
(* large as the semaphore at most one sender is left waiting to send.      *)
(***************************************************************************)
EXTENDS WsClient, FiniteSetTheorems, TLAPS

(* What inHandler has in hand is a request that nobody services yet, and what the
   peer has not sent is with nobody. *)
InHand ==
  /\ IF inPc \in {"check", "send", "acquire"} THEN \E r \in Requests : inReq = {r}
     ELSE inReq = {}
  /\ \A r \in inReq : svcPc[r] = "none" /\ r \notin unread
  /\ \A r \in unread : svcPc[r] = "none"

(* The handlers leave only a connection that is gone and drain only one that is given
   up, and outHandler holds a reply only while it writes it. *)
OutPositions ==
  /\ outPc \in {"drain", "done"} \/ inPc = "done" => disconnected
  /\ outPc = "disconnect" => conn # "open"
  /\ outPc # "write" => outMsg = <<>>
  /\ disconnected => conn = "closed"

Tokens == IsFiniteSet(Servicing) /\ TokensAccounted

WsInv == WsTypeOK /\ InHand /\ OutPositions /\ Tokens

(* The replies on their way and where they end: each once, and those of the
   commands whose goroutines have sent them among them. *)
Replies == written \o outMsg \o sendChan
Member(x, s) == \E i \in 1..Len(s) : s[i] = x
Distinct(s)  == \A i, j \in 1..Len(s) : s[i] = s[j] => i = j
RepliesInv ==
  conn = "open" =>
    /\ Distinct(Replies)
    /\ \A r \in Requests :
         /\ Member(r, Replies) =>
              r \notin unread /\ r \notin inReq /\ svcPc[r] \in {"none", "release", "done"}
         /\ svcPc[r] \in {"release", "done"} => Member(r, Replies)
-----------------------------------------------------------------------------
(* Where a message that was read takes inHandler. *)
LEMMA PositionsAfterRead ==
  ASSUME peer \in Peers
  PROVE  ReadPositions[peer] \subseteq {"loop", "check", "acquire", "disconnect"}
  BY Zenon DEF ReadPositions, AfterRead

(* Requests being serviced, as the steps of one of them change that set. *)
LEMMA ServicingSame ==
  ASSUME WsTypeOK, Tokens, sem' = sem,
         \A r \in Requests : svcPc[r] \in {"none", "done", "failed"}
                               <=> svcPc'[r] \in {"none", "done", "failed"}
  PROVE  Servicing' = Servicing /\ Tokens'
<1>1. Servicing' = Servicing
  BY DEF Servicing
<1> QED BY <1>1 DEF Tokens, TokensAccounted

LEMMA ServicingMore ==
  ASSUME WsTypeOK, Tokens, NEW r \in Requests, svcPc[r] = "none", sem' = sem + 1,
         svcPc' = [q \in Requests |-> IF q = r THEN "run" ELSE svcPc[q]]
  PROVE  Tokens'
<1>1. Servicing' = Servicing \cup {r} /\ r \notin Servicing
  BY DEF Servicing
<1>2. IsFiniteSet(Servicing') /\ Cardinality(Servicing') = Cardinality(Servicing) + 1
  BY <1>1, FS_AddElement DEF Tokens
<1> QED BY <1>2 DEF Tokens, TokensAccounted

LEMMA ServicingLess ==
  ASSUME WsTypeOK, Tokens, NEW r \in Requests, svcPc[r] \notin {"none", "done", "failed"},
         sem' = sem - 1, NEW pc \in {"done", "failed"}, svcPc' = [svcPc EXCEPT ![r] = pc]
  PROVE  Tokens' /\ sem' \in 0..SemCap
<1>1. Servicing' = Servicing \ {r} /\ r \in Servicing
  BY DEF Servicing, WsTypeOK
<1>2. IsFiniteSet(Servicing') /\ Cardinality(Servicing') = Cardinality(Servicing) - 1
  BY <1>1, FS_RemoveElement DEF Tokens
<1>3. Cardinality(Servicing') \in Nat
  BY <1>2, FS_CardinalityType
<1>4. sem' = Cardinality(Servicing')
  BY <1>2 DEF Tokens, TokensAccounted
<1> QED BY <1>2, <1>3, <1>4, WsConfigAssumption DEF Tokens, TokensAccounted, WsTypeOK

-----------------------------------------------------------------------------
LEMMA WsInvInit == WsInit => WsInv
<1> SUFFICES ASSUME WsInit PROVE WsInv
  OBVIOUS
<1>1. <<>> \in Seq(Requests) /\ Len(<<>>) = 0
  OBVIOUS
<1>2. svcPc \in [Requests -> SvcPcs] /\ unread \subseteq Requests /\ inReq \in SUBSET Requests
  BY DEF WsInit, SvcPcs
<1>3. WsTypeOK
  <2>1. /\ peer \in Peers /\ disconnected \in BOOLEAN /\ conn \in {"open", "broken", "closed"}
        /\ inPc \in InPcs /\ outPc \in OutPcs
    BY DEF WsInit, InPcs, OutPcs
  <2>2. sem \in 0..SemCap /\ Len(sendChan) <= SendCap
    BY <1>1, WsConfigAssumption DEF WsInit
  <2>3. sendChan \in Seq(Requests) /\ outMsg \in Seq(Requests) /\ written \in Seq(Requests)
    BY <1>1 DEF WsInit
  <2> QED BY <1>2, <2>1, <2>2, <2>3 DEF WsTypeOK
<1>4. InHand /\ OutPositions
  BY DEF WsInit, InHand, OutPositions
<1>5. Servicing = {}
  BY DEF WsInit, Servicing
<1>6. Tokens
  BY <1>5, FS_EmptySet DEF WsInit, Tokens, TokensAccounted
<1> QED BY <1>3, <1>4, <1>6 DEF WsInv

LEMMA InHandlerKeeps == ASSUME WsInv, InHandler PROVE WsInv'
<1> USE DEF inVars, svcVars, outVars, WsInv
<1>1. CASE InLoop \/ InReadError \/ InCheck \/ InDisconnect
  <2>1. UNCHANGED svcVars
    BY <1>1 DEF InLoop, InReadError, InCheck, InDisconnect
  <2>2. Tokens'
    BY <2>1, ServicingSame
  <2>3. WsTypeOK'
    BY <1>1 DEF InLoop, InReadError, InCheck, InDisconnect, Disconnect, WsTypeOK, InPcs
  <2>4. InHand'
    BY <1>1 DEF InLoop, InReadError, InCheck, InDisconnect, InHand, WsTypeOK, InPcs
  <2>5. OutPositions'
    BY <1>1 DEF InLoop, InReadError, InCheck, InDisconnect, Disconnect, OutPositions
  <2> QED BY <2>2, <2>3, <2>4, <2>5
<1>2. CASE InSend
  <2>1. PICK r \in inReq : Enqueue(r)
    BY <1>2 DEF InSend
  <2>2. r \in Requests
    BY DEF WsTypeOK
  <2>3. WsTypeOK'
    BY <1>2, <2>1, <2>2, WsConfigAssumption DEF InSend, Enqueue, WsTypeOK, InPcs
  <2>4. InHand' /\ OutPositions'
    BY <1>2 DEF InSend, InHand, OutPositions
  <2>5. Tokens'
    BY <1>2, ServicingSame DEF InSend
  <2> QED BY <2>3, <2>4, <2>5
<1>3. CASE InAcquire
  <2>1. PICK r \in Requests : inReq = {r}
    BY <1>3 DEF InAcquire, InHand
  <2>2. svcPc' = [q \in Requests |-> IF q = r THEN "run" ELSE svcPc[q]]
    BY <1>3, <2>1 DEF InAcquire
  <2>3. WsTypeOK'
    BY <1>3, <2>2, WsConfigAssumption DEF InAcquire, WsTypeOK, InPcs, SvcPcs
  <2>4. InHand' /\ OutPositions'
    BY <1>3, <2>1, <2>2 DEF InAcquire, InHand, OutPositions, WsTypeOK
  <2>5. Tokens'
    BY <1>3, <2>1, <2>2, ServicingMore DEF InAcquire, InHand
  <2> QED BY <2>3, <2>4, <2>5
<1>4. ASSUME NEW r \in Requests, InRead(r) PROVE WsInv'
  <2>1. inPc' \in {"loop", "check", "acquire", "disconnect"}
    BY <1>4, PositionsAfterRead DEF InRead, WsTypeOK
  <2>2. WsTypeOK'
    BY <1>4, <2>1 DEF InRead, WsTypeOK, InPcs
  <2>3. InHand'
    BY <1>4, <2>1 DEF InRead, InHand, WsTypeOK
  <2>4. OutPositions' /\ Tokens'
    BY <1>4, <2>1, ServicingSame DEF InRead, OutPositions
  <2> QED BY <2>2, <2>3, <2>4
<1> QED BY <1>1, <1>2, <1>3, <1>4 DEF InHandler

LEMMA ServiceKeeps == ASSUME WsInv, NEW r \in Requests, ServiceRequest(r) PROVE WsInv'
<1> USE DEF inVars, svcVars, outVars, WsInv
<1>1. CASE SvcRun(r) \/ SvcCheck(r)
  <2>1. /\ UNCHANGED <<peer, disconnected, conn, inVars, sem, sendChan, outVars>>
        /\ svcPc[r] \in {"run", "check"}
        /\ \E next \in {"check", "fail", "send", "release"} : svcPc' = [svcPc EXCEPT ![r] = next]
    BY <1>1 DEF SvcRun, SvcCheck, MaySend
  <2>2. WsTypeOK'
    BY <2>1 DEF WsTypeOK, SvcPcs
  <2>3. InHand' /\ OutPositions'
    BY <2>1 DEF InHand, OutPositions, WsTypeOK
  <2>4. Tokens'
    BY <2>1, ServicingSame DEF WsTypeOK
  <2> QED BY <2>2, <2>3, <2>4
<1>2. CASE SvcSend(r)
  <2>1. WsTypeOK'
    BY <1>2, WsConfigAssumption DEF SvcSend, Enqueue, WsTypeOK, SvcPcs
  <2>2. InHand' /\ OutPositions'
    BY <1>2 DEF SvcSend, InHand, OutPositions, WsTypeOK
  <2>3. Tokens'
    BY <1>2, ServicingSame DEF SvcSend, WsTypeOK
  <2> QED BY <2>1, <2>2, <2>3
<1>3. CASE SvcRelease(r)
  <2>1. PICK pc \in {"done", "failed"} : svcPc' = [svcPc EXCEPT ![r] = pc]
    BY <1>3 DEF SvcRelease, WsTypeOK
  <2>2. Tokens' /\ sem' \in 0..SemCap
    BY <1>3, <2>1, ServicingLess DEF SvcRelease
  <2>3. WsTypeOK'
    BY <1>3, <2>1, <2>2 DEF SvcRelease, WsTypeOK, SvcPcs
  <2>4. InHand' /\ OutPositions'
    BY <1>3, <2>1 DEF SvcRelease, InHand, OutPositions, WsTypeOK
  <2> QED BY <2>2, <2>3, <2>4
<1> QED BY <1>1, <1>2, <1>3 DEF ServiceRequest

LEMMA OutHandlerKeeps == ASSUME WsInv, OutHandler \/ NetworkFail PROVE WsInv'
<1> USE DEF inVars, svcVars, outVars, WsInv
<1>1. UNCHANGED <<inVars, svcVars, peer>>
  BY DEF OutHandler, OutReceive, OutQuit, OutWrite, OutDisconnect, OutDrain, NetworkFail
<1>2. InHand' /\ Tokens'
  BY <1>1, ServicingSame DEF InHand
<1>3. OutPositions'
  BY DEF OutHandler, OutReceive, OutQuit, OutWrite, OutDisconnect, OutDrain, NetworkFail,
         Disconnect, OutPositions, WsTypeOK
<1>4. sendChan' \in Seq(Requests) /\ Len(sendChan') <= SendCap
  <2>1. CASE sendChan' = sendChan
    BY <2>1 DEF WsTypeOK
  <2>2. CASE sendChan # <<>> /\ sendChan' = Tail(sendChan)
    <3>1. /\ Tail(sendChan) \in Seq(Requests) /\ Len(sendChan) \in Nat
          /\ Len(Tail(sendChan)) = Len(sendChan) - 1
      BY <2>2 DEF WsTypeOK
    <3> QED BY <2>2, <3>1, WsConfigAssumption DEF WsTypeOK
  <2>3. ASSUME OutReceive \/ OutDrain PROVE sendChan' = sendChan \/ (sendChan # <<>> /\ sendChan' = Tail(sendChan))
    BY <2>3 DEF OutReceive, OutDrain
  <2>4. ASSUME OutQuit \/ OutWrite \/ OutDisconnect \/ NetworkFail PROVE sendChan' = sendChan
    BY <2>4 DEF OutQuit, OutWrite, OutDisconnect, NetworkFail
  <2> QED BY <2>1, <2>2, <2>3, <2>4 DEF OutHandler
<1>5. outMsg' \in Seq(Requests)
  <2>1. CASE OutReceive
    <3>1. Head(sendChan) \in Requests
      BY <2>1 DEF OutReceive, WsTypeOK
    <3> QED BY <2>1, <3>1 DEF OutReceive
  <2>2. CASE OutWrite
    <3>1. <<>> \in Seq(Requests)
      OBVIOUS
    <3> QED BY <2>2, <3>1 DEF OutWrite
  <2>3. CASE OutQuit \/ OutDisconnect \/ OutDrain \/ NetworkFail
    BY <2>3 DEF OutQuit, OutDisconnect, OutDrain, NetworkFail, WsTypeOK
  <2> QED BY <2>1, <2>2, <2>3 DEF OutHandler
<1>6. written' \in Seq(Requests)
  <2>1. CASE OutWrite
    <3>1. written' = written \/ written' = written \o outMsg
      BY <2>1 DEF OutWrite
    <3>2. written \o outMsg \in Seq(Requests)
      BY DEF WsTypeOK
    <3> QED BY <3>1, <3>2 DEF WsTypeOK
  <2>2. CASE OutReceive \/ OutQuit \/ OutDisconnect \/ OutDrain \/ NetworkFail
    BY <2>2 DEF OutReceive, OutQuit, OutDisconnect, OutDrain, NetworkFail, WsTypeOK
  <2> QED BY <2>1, <2>2 DEF OutHandler
<1>7. /\ disconnected' \in BOOLEAN /\ conn' \in {"open", "broken", "closed"}
      /\ outPc' \in OutPcs
  BY DEF OutHandler, OutReceive, OutQuit, OutWrite, OutDisconnect, OutDrain, NetworkFail,
         Disconnect, OutPcs, WsTypeOK
<1> QED BY <1>1, <1>2, <1>3, <1>4, <1>5, <1>6, <1>7 DEF WsTypeOK

LEMMA WsInvStep == WsInv /\ [WsNext]_wsVars => WsInv'
<1> SUFFICES ASSUME WsInv, [WsNext]_wsVars PROVE WsInv'
  OBVIOUS
<1>1. CASE WsNext
  BY <1>1, InHandlerKeeps, ServiceKeeps, OutHandlerKeeps DEF WsNext
<1>2. CASE UNCHANGED wsVars
  <2>1. Tokens'
    BY <1>2, ServicingSame DEF WsInv, wsVars, svcVars
  <2> QED BY <1>2, <2>1 DEF WsInv, wsVars, inVars, svcVars, outVars, WsTypeOK, InHand,
                            OutPositions
<1> QED BY <1>1, <1>2

(* The invariant holds throughout, whatever the peer sends. *)
THEOREM WsInvHolds == WsSpec => []WsInv
<1> QED BY WsInvInit, WsInvStep, PTL DEF WsSpec

(* Every variable of the connection keeps its type: in particular the semaphore
   stays within its capacity (releases match acquisitions) and the send channel
   within its buffer (rpcwebsocket.go, acquire, release and SendMessage). *)
THEOREM WsTypeCorrect == WsSpec => []WsTypeOK
<1>1. WsInv => WsTypeOK
  BY DEF WsInv
<1> QED BY <1>1, WsInvHolds, PTL

(* Whatever a peer sends and whenever it goes, a token of serviceRequestSem is
   held exactly while its request is being serviced: serviceRequest gives it back
   on every path, a reply that cannot be marshalled among them. *)
THEOREM TokensBelong == WsSpec => []TokensAccounted
<1>1. WsInv => TokensAccounted
  BY DEF WsInv, Tokens
<1> QED BY <1>1, WsInvHolds, PTL

-----------------------------------------------------------------------------
(* Those who wait to send are goroutines that service requests and inHandler. *)
LEMMA WaitingBounded ==
  ASSUME WsInv
  PROVE  /\ IsFiniteSet(Waiting) /\ Cardinality(Waiting) \in Nat
         /\ Cardinality(Waiting) <= SemCap + 1
<1>1. Waiting \subseteq Servicing \cup inReq
  BY DEF Waiting, Servicing
<1>2. IsFiniteSet(Servicing \cup inReq) /\ Cardinality(Servicing \cup inReq) <= SemCap + 1
  <2>1. /\ IsFiniteSet(Servicing) /\ Cardinality(Servicing) = sem
        /\ sem \in Nat /\ sem <= SemCap
    BY WsConfigAssumption DEF WsInv, Tokens, TokensAccounted, WsTypeOK
  <2>2. CASE inReq = {}
    <3>1. Servicing \cup inReq = Servicing
      BY <2>2
    <3>2. sem <= SemCap + 1
      BY <2>1, WsConfigAssumption
    <3> QED BY <2>1, <3>1, <3>2, Zenon
  <2>3. CASE \E r \in Requests : inReq = {r}
    <3>1. PICK r \in Requests : inReq = {r}
      BY <2>3
    <3>2. /\ IsFiniteSet(Servicing \cup {r})
          /\ Cardinality(Servicing \cup {r}) =
               IF r \in Servicing THEN Cardinality(Servicing) ELSE Cardinality(Servicing) + 1
      BY <2>1, FS_AddElement
    <3> QED BY <2>1, <3>1, <3>2, WsConfigAssumption
  <2> QED BY <2>2, <2>3 DEF WsInv, InHand
<1>3. /\ IsFiniteSet(Waiting) /\ Cardinality(Waiting) <= Cardinality(Servicing \cup inReq)
  BY <1>1, <1>2, FS_Subset
<1>4. Cardinality(Waiting) \in Nat /\ Cardinality(Servicing \cup inReq) \in Nat
  BY <1>2, <1>3, FS_CardinalityType
<1> QED BY <1>2, <1>3, <1>4, WsConfigAssumption

(* Who sends waits no longer, and its reply takes the room. *)
LEMMA RoomTaken ==
  ASSUME WsInv, outPc = "done", AtMostOneLeftWaiting, NEW r \in Waiting,
         Waiting' = Waiting \ {r}, Enqueue(r)
  PROVE  AtMostOneLeftWaiting'
<1>1. Cardinality(Waiting') = Cardinality(Waiting) - 1
  BY WaitingBounded, FS_RemoveElement
<1>2. Len(sendChan) \in Nat /\ Len(sendChan') = Len(sendChan) + 1
  BY DEF Enqueue, Waiting, WsInv, WsTypeOK
<1> QED BY <1>1, <1>2, WaitingBounded, WsConfigAssumption DEF AtMostOneLeftWaiting

LEMMA WaitingSame ==
  ASSUME AtMostOneLeftWaiting, outPc' = outPc, Waiting' = Waiting, sendChan' = sendChan
  PROVE  AtMostOneLeftWaiting'
  BY DEF AtMostOneLeftWaiting

(* When outHandler has drained the send buffer all but one of those who wait to send
   find room in it; and as the connection is given up by then, nobody joins them. *)
LEMMA LeftWaitingStep ==
  ASSUME SendCap >= SemCap, WsInv, AtMostOneLeftWaiting, [WsNext]_wsVars
  PROVE  AtMostOneLeftWaiting'
<1> USE DEF inVars, svcVars, outVars
<1> SUFFICES ASSUME outPc' = "done" PROVE AtMostOneLeftWaiting'
  BY DEF AtMostOneLeftWaiting
<1>1. CASE outPc # "done"
  <2>1. OutDrain /\ sendChan = <<>> /\ sendChan' = sendChan
    BY <1>1 DEF WsNext, wsVars, InHandler, InLoop, InReadError, InCheck, InSend, InAcquire,
                InDisconnect, InRead, ServiceRequest, SvcRun, SvcCheck, SvcSend, SvcRelease,
                OutHandler, OutReceive, OutQuit, OutWrite, OutDisconnect, OutDrain, NetworkFail
  <2>2. Waiting' = Waiting
    BY <2>1 DEF OutDrain, Waiting
  <2>3. Len(sendChan') = 0
    BY <2>1
  <2> QED BY <2>2, <2>3, WaitingBounded, WsConfigAssumption DEF AtMostOneLeftWaiting
<1>2. CASE outPc = "done"
  <2>1. ~MaySend /\ outPc' = outPc
    BY <1>2 DEF MaySend, WsInv, OutPositions
  <2>2. CASE InSend
    <3>1. PICK r \in Requests : inReq = {r} /\ Enqueue(r)
      BY <2>2 DEF InSend, WsInv, InHand
    <3>2. r \in Waiting /\ Waiting' = Waiting \ {r}
      BY <2>2, <3>1 DEF InSend, Waiting, WsInv, InHand
    <3> QED BY <1>2, <3>1, <3>2, RoomTaken
  <2>3. ASSUME NEW r \in Requests, SvcSend(r) PROVE AtMostOneLeftWaiting'
    <3>1. r \in Waiting /\ r \notin inReq
      BY <2>3 DEF SvcSend, Waiting, WsInv, InHand
    <3>2. Waiting' = Waiting \ {r}
      BY <2>3, <3>1 DEF SvcSend, Waiting, WsInv, WsTypeOK
    <3> QED BY <1>2, <2>3, <3>1, <3>2, RoomTaken DEF SvcSend
  <2>4. CASE InLoop \/ InReadError \/ InCheck \/ InAcquire \/ InDisconnect
    <3>1. sendChan' = sendChan
      BY <2>4 DEF InLoop, InReadError, InCheck, InAcquire, InDisconnect
    <3>2. Waiting' = Waiting
      BY <2>1, <2>4 DEF InLoop, InReadError, InCheck, InAcquire, InDisconnect, Waiting,
                        WsInv, InHand
    <3> QED BY <2>1, <3>1, <3>2, WaitingSame
  <2>5. ASSUME NEW r \in Requests, InRead(r) PROVE AtMostOneLeftWaiting'
    <3>1. inPc = "read" /\ inPc' # "send" /\ UNCHANGED <<svcPc, sendChan>>
      BY <2>5, PositionsAfterRead DEF InRead, WsInv, WsTypeOK
    <3>2. Waiting' = Waiting
      BY <3>1 DEF Waiting
    <3> QED BY <2>1, <3>1, <3>2, WaitingSame
  <2>6. ASSUME NEW r \in Requests, SvcRun(r) \/ SvcCheck(r) \/ SvcRelease(r)
        PROVE  AtMostOneLeftWaiting'
    <3>1. /\ UNCHANGED <<sendChan, inPc, inReq>> /\ svcPc[r] # "send"
          /\ \E next \in SvcPcs \ {"send"} : svcPc' = [svcPc EXCEPT ![r] = next]
      BY <2>1, <2>6 DEF SvcRun, SvcCheck, SvcRelease, SvcPcs
    <3>2. Waiting' = Waiting
      BY <3>1 DEF Waiting, WsInv, WsTypeOK
    <3> QED BY <2>1, <3>1, <3>2, WaitingSame
  <2>7. CASE OutHandler \/ NetworkFail \/ UNCHANGED wsVars
    <3>1. sendChan' = sendChan /\ UNCHANGED <<inPc, inReq, svcPc>>
      BY <1>2, <2>7 DEF OutHandler, OutReceive, OutQuit, OutWrite, OutDisconnect, OutDrain,
                        NetworkFail, wsVars
    <3>2. Waiting' = Waiting
      BY <3>1 DEF Waiting
    <3> QED BY <2>1, <3>1, <3>2, WaitingSame
  <2> QED BY <2>2, <2>3, <2>4, <2>5, <2>6, <2>7 DEF WsNext, InHandler, ServiceRequest
<1> QED BY <1>1, <1>2

(* "Drain any wait channels before exiting so nothing is left waiting around to
   send" (rpcwebsocket.go, outHandler) can fail for one sender and never for more,
   with a send buffer as large as the semaphore: newWebsocketClient and
   websocketSendBufferSize make them 50 and 50. *)
THEOREM OneLeftAtMost == SendCap >= SemCap => (WsSpec => []AtMostOneLeftWaiting)
<1> SUFFICES ASSUME SendCap >= SemCap PROVE WsSpec => []AtMostOneLeftWaiting
  OBVIOUS
<1>1. WsInit => AtMostOneLeftWaiting
  BY DEF WsInit, AtMostOneLeftWaiting
<1>2. WsInv /\ AtMostOneLeftWaiting /\ [WsNext]_wsVars => AtMostOneLeftWaiting'
  BY LeftWaitingStep
<1> QED BY <1>1, <1>2, WsInvHolds, PTL DEF WsSpec

-----------------------------------------------------------------------------
(* A reply more at the end of those on their way. *)
LEMMA OneMore ==
  ASSUME NEW S, NEW s \in Seq(S), NEW e \in S
  PROVE  /\ \A x : Member(x, Append(s, e)) <=> Member(x, s) \/ x = e
         /\ Distinct(s) /\ ~Member(e, s) => Distinct(Append(s, e))
<1>1. /\ Len(s) \in Nat
      /\ Append(s, e) \in Seq(S) /\ Len(Append(s, e)) = Len(s) + 1
      /\ \A i \in 1..Len(s) : Append(s, e)[i] = s[i]
      /\ Append(s, e)[Len(s) + 1] = e
  OBVIOUS
<1>2. 1..(Len(s) + 1) = 1..Len(s) \cup {Len(s) + 1}
  BY <1>1
<1>3. \A x : Member(x, Append(s, e)) <=> Member(x, s) \/ x = e
  BY <1>1, <1>2 DEF Member
<1>4. Distinct(s) /\ ~Member(e, s) => Distinct(Append(s, e))
  BY <1>1, <1>2 DEF Member, Distinct
<1> QED BY <1>3, <1>4

(* An element of a sequence without repetitions is at one place of it. *)
LEMMA OnePlace ==
  ASSUME NEW s, NEW x, Distinct(s), Member(x, s)
  PROVE  Cardinality({i \in 1..Len(s) : s[i] = x}) = 1
<1>1. PICK k \in 1..Len(s) : s[k] = x
  BY DEF Member
<1>2. {i \in 1..Len(s) : s[i] = x} = {k}
  BY <1>1 DEF Distinct
<1> QED BY <1>2, FS_Singleton

(* outHandler passes a reply on, from the buffer to the connection; a send puts one
   at the end. *)
LEMMA RepliesPassedOn ==
  ASSUME WsInv, OutReceive \/ (OutWrite /\ conn = "open") PROVE Replies' = Replies
<1>1. /\ written \in Seq(Requests) /\ outMsg \in Seq(Requests) /\ sendChan \in Seq(Requests)
  BY DEF WsInv, WsTypeOK
<1>2. CASE OutReceive
  <2>1. /\ outMsg = <<>> /\ sendChan # <<>> /\ written' = written
        /\ outMsg' = <<Head(sendChan)>> /\ sendChan' = Tail(sendChan)
    BY <1>2 DEF OutReceive, WsInv, OutPositions
  <2>2. /\ written \o <<>> = written
        /\ (written \o <<Head(sendChan)>>) \o Tail(sendChan) = written \o sendChan
    BY <1>1, <2>1
  <2> QED BY <2>1, <2>2 DEF Replies
<1>3. CASE OutWrite /\ conn = "open"
  <2>1. written' = written \o outMsg /\ outMsg' = <<>> /\ sendChan' = sendChan
    BY <1>3 DEF OutWrite
  <2>2. (written \o outMsg) \o <<>> = written \o outMsg
    BY <1>1
  <2> QED BY <2>1, <2>2 DEF Replies
<1> QED BY <1>2, <1>3

LEMMA RepliesGrow ==
  ASSUME WsInv, NEW r \in Requests, Enqueue(r), UNCHANGED <<written, outMsg>>
  PROVE  Replies \in Seq(Requests) /\ Replies' = Append(Replies, r)
  BY DEF Replies, Enqueue, WsInv, WsTypeOK

LEMMA RepliesInit == WsInit => RepliesInv
<1> SUFFICES ASSUME WsInit PROVE RepliesInv
  OBVIOUS
<1>1. Replies = <<>>
  BY DEF WsInit, Replies
<1>2. Distinct(Replies) /\ \A x : ~Member(x, Replies)
  BY <1>1 DEF Distinct, Member
<1> QED BY <1>2 DEF WsInit, RepliesInv

LEMMA RepliesStep == WsInv /\ RepliesInv /\ [WsNext]_wsVars => RepliesInv'
<1> SUFFICES ASSUME WsInv, RepliesInv, [WsNext]_wsVars, conn' = "open" PROVE RepliesInv'
  BY DEF RepliesInv
<1> USE DEF inVars, svcVars, outVars
<1>1. conn = "open" /\ MaySend
  BY DEF WsNext, wsVars, InHandler, InLoop, InReadError, InCheck, InSend, InAcquire,
         InDisconnect, InRead, ServiceRequest, SvcRun, SvcCheck, SvcSend, SvcRelease,
         OutHandler, OutReceive, OutQuit, OutWrite, OutDisconnect, OutDrain, NetworkFail,
         Disconnect, MaySend, WsInv, OutPositions
<1>2. /\ Distinct(Replies)
      /\ \A r \in Requests :
           /\ Member(r, Replies) =>
                r \notin unread /\ r \notin inReq /\ svcPc[r] \in {"none", "release", "done"}
           /\ svcPc[r] \in {"release", "done"} => Member(r, Replies)
  BY <1>1 DEF RepliesInv
<1>3. UNCHANGED <<written, outMsg, sendChan>> => Replies' = Replies
  BY DEF Replies
<1>4. CASE InLoop \/ InReadError \/ InCheck \/ InDisconnect
  <2>1. /\ UNCHANGED <<written, outMsg, sendChan, unread, svcPc>>
        /\ inReq' \subseteq inReq
    BY <1>4 DEF InLoop, InReadError, InCheck, InDisconnect
  <2> QED BY <1>2, <1>3, <2>1 DEF RepliesInv
<1>5. CASE InSend
  <2>1. PICK r \in Requests : inReq = {r} /\ Enqueue(r)
    BY <1>5 DEF InSend, WsInv, InHand
  <2>2. ~Member(r, Replies) /\ svcPc[r] = "none" /\ r \notin unread
    BY <1>2, <2>1 DEF WsInv, InHand
  <2>3. /\ \A x : Member(x, Replies') <=> Member(x, Replies) \/ x = r
        /\ Distinct(Replies')
    <3>1. Replies \in Seq(Requests) /\ Replies' = Append(Replies, r)
      BY <1>5, <2>1, RepliesGrow DEF InSend
    <3> QED BY <1>2, <2>2, <3>1, OneMore
  <2>4. inReq' = {} /\ UNCHANGED <<unread, svcPc>>
    BY <1>5 DEF InSend
  <2> QED BY <1>2, <2>2, <2>3, <2>4 DEF RepliesInv
<1>6. CASE InAcquire
  <2>1. /\ UNCHANGED <<written, outMsg, sendChan, unread>> /\ inReq' = {}
        /\ \A r \in Requests : svcPc'[r] = IF r \in inReq THEN "run" ELSE svcPc[r]
    BY <1>6 DEF InAcquire
  <2> QED BY <1>2, <1>3, <2>1 DEF RepliesInv, WsInv, InHand
<1>7. ASSUME NEW r \in Requests, InRead(r) PROVE RepliesInv'
  <2>1. /\ UNCHANGED <<written, outMsg, sendChan, svcPc>> /\ r \in unread
        /\ unread' = unread \ {r} /\ inReq' \subseteq inReq \cup {r}
    BY <1>7 DEF InRead
  <2> QED BY <1>2, <1>3, <2>1 DEF RepliesInv
<1>8. ASSUME NEW r \in Requests, SvcRun(r) \/ SvcCheck(r) \/ SvcRelease(r) PROVE RepliesInv'
  <2>1. UNCHANGED <<written, outMsg, sendChan, unread, inReq>>
    BY <1>8 DEF SvcRun, SvcCheck, SvcRelease
  <2>2. \A q \in Requests \ {r} : svcPc'[q] = svcPc[q]
    BY <1>8 DEF SvcRun, SvcCheck, SvcRelease, WsInv, WsTypeOK
  <2>3. \/ svcPc[r] \in {"run", "check"} /\ svcPc'[r] \in {"check", "fail", "send"}
        \/ svcPc[r] = "release" /\ svcPc'[r] = "done"
        \/ svcPc[r] = "fail" /\ svcPc'[r] = "failed"
    BY <1>1, <1>8 DEF SvcRun, SvcCheck, SvcRelease, WsInv, WsTypeOK
  <2> QED BY <1>2, <1>3, <2>1, <2>2, <2>3 DEF RepliesInv
<1>9. ASSUME NEW r \in Requests, SvcSend(r) PROVE RepliesInv'
  <2>1. ~Member(r, Replies) /\ r \notin unread /\ r \notin inReq
    BY <1>2, <1>9 DEF SvcSend, WsInv, InHand
  <2>2. /\ \A x : Member(x, Replies') <=> Member(x, Replies) \/ x = r
        /\ Distinct(Replies')
    <3>1. Replies \in Seq(Requests) /\ Replies' = Append(Replies, r)
      BY <1>9, RepliesGrow DEF SvcSend
    <3> QED BY <1>2, <2>1, <3>1, OneMore
  <2>3. /\ UNCHANGED <<unread, inReq>> /\ svcPc'[r] = "release"
        /\ \A q \in Requests \ {r} : svcPc'[q] = svcPc[q]
    BY <1>9 DEF SvcSend, WsInv, WsTypeOK
  <2> QED BY <1>2, <2>1, <2>2, <2>3 DEF RepliesInv
<1>10. CASE OutHandler \/ NetworkFail \/ UNCHANGED wsVars
  <2>1. UNCHANGED <<unread, inReq, svcPc>>
    BY <1>10 DEF OutHandler, OutReceive, OutQuit, OutWrite, OutDisconnect, OutDrain,
                 NetworkFail, wsVars
  <2>2. ~OutDrain /\ ~OutDisconnect /\ ~NetworkFail
    BY <1>1 DEF OutDrain, OutDisconnect, Disconnect, NetworkFail, MaySend, WsInv, OutPositions
  <2>3. Replies' = Replies
    BY <1>1, <1>3, <1>10, <2>2, RepliesPassedOn DEF OutHandler, OutQuit, wsVars
  <2> QED BY <1>2, <2>1, <2>3 DEF RepliesInv
<1> QED BY <1>4, <1>5, <1>6, <1>7, <1>8, <1>9, <1>10 DEF WsNext, InHandler, ServiceRequest

(* While the connection is up the reply of every command whose goroutine has sent
   it is in exactly one place: written, being written, or queued
   (rpcwebsocket.go, SendMessage and outHandler). *)
THEOREM RepliesKept == WsSpec => []NoReplyLost
<1>1. RepliesInv => NoReplyLost
  <2> SUFFICES ASSUME RepliesInv, conn = "open", NEW r \in Requests,
                      svcPc[r] \in {"release", "done"}
               PROVE  Cardinality({i \in 1..Len(Replies) : Replies[i] = r}) = 1
    BY Zenon DEF NoReplyLost, Replies
  <2> QED BY OnePlace DEF RepliesInv
<1> QED BY <1>1, RepliesInit, RepliesStep, WsInvHolds, PTL DEF WsSpec

-----------------------------------------------------------------------------
(* What the server does for a client whose requests are all answered: it ignores
   none, and every result can be marshalled.  Each request is then unsent or held:
   in hand, being serviced, or its reply on the way. *)
Answers ==
  \/ InLoop \/ InReadError \/ InCheck \/ InSend \/ InAcquire \/ InDisconnect
  \/ OutHandler \/ NetworkFail
  \/ \E r \in Requests :
       \/ InRead(r) /\ inPc' # "loop"
       \/ SvcRun(r) /\ svcPc'[r] = "check"
       \/ SvcCheck(r) \/ SvcSend(r) \/ SvcRelease(r)
Held(r) == r \in inReq \/ svcPc[r] \in {"run", "check", "send"} \/ Member(r, Replies)
UnsentOrHeld == \A r \in Requests : r \in unread \/ Held(r)
Serving == conn = "open" /\ inPc # "disconnect"

LEMMA ServingBefore == ASSUME WsInv, Answers, Serving' PROVE Serving /\ MaySend
  BY DEF Serving, Answers, InLoop, InReadError, InCheck, InSend, InAcquire, InDisconnect, InRead,
         SvcRun, SvcCheck, SvcSend, SvcRelease, OutHandler, OutReceive, OutQuit, OutWrite,
         OutDisconnect, OutDrain, NetworkFail, Disconnect, MaySend, WsInv, OutPositions,
         inVars, svcVars, outVars

LEMMA HeldStep ==
  ASSUME WsInv, RepliesInv, Answers, UnsentOrHeld, Serving'
  PROVE  UnsentOrHeld'
<1> USE DEF inVars, svcVars, outVars
<1>1. Serving /\ MaySend
  BY ServingBefore
<1>2. UNCHANGED <<written, outMsg, sendChan>> => Replies' = Replies
  BY DEF Replies
<1> USE DEF UnsentOrHeld, Held
<1>3. CASE InLoop \/ InReadError \/ InCheck
  <2>1. UNCHANGED <<written, outMsg, sendChan, unread, svcPc, inReq>>
    BY <1>1, <1>3 DEF InLoop, InReadError, InCheck
  <2> QED BY <1>2, <2>1
<1>4. CASE InSend
  <2>1. PICK r \in Requests : inReq = {r} /\ Enqueue(r)
    BY <1>4 DEF InSend, WsInv, InHand
  <2>2. Replies \in Seq(Requests) /\ Replies' = Append(Replies, r)
    BY <1>4, <2>1, RepliesGrow DEF InSend
  <2>3. \A x : Member(x, Replies') <=> Member(x, Replies) \/ x = r
    BY <2>2, OneMore
  <2>4. UNCHANGED <<unread, svcPc>>
    BY <1>4 DEF InSend
  <2> QED BY <2>1, <2>3, <2>4
<1>5. CASE InAcquire
  <2>1. /\ UNCHANGED <<written, outMsg, sendChan, unread>>
        /\ \A r \in Requests : svcPc'[r] = IF r \in inReq THEN "run" ELSE svcPc[r]
    BY <1>5 DEF InAcquire
  <2> QED BY <1>2, <2>1
<1>6. CASE InDisconnect
  BY <1>1, <1>6 DEF InDisconnect, Serving
<1>7. ASSUME NEW r \in Requests, InRead(r), inPc' # "loop" PROVE UnsentOrHeld'
  <2>1. /\ UNCHANGED <<written, outMsg, sendChan, svcPc>> /\ unread' = unread \ {r}
        /\ inReq = {}
    BY <1>7 DEF InRead, WsInv, InHand
  <2>2. inPc' \in {"check", "acquire"} /\ inReq' = {r}
    <3>1. inPc' \in {"loop", "check", "acquire", "disconnect"}
      BY <1>7, PositionsAfterRead DEF InRead, WsInv, WsTypeOK
    <3> QED BY <1>7, <3>1 DEF InRead, Serving
  <2> QED BY <1>2, <2>1, <2>2
<1>8. ASSUME NEW r \in Requests,
             (SvcRun(r) /\ svcPc'[r] = "check") \/ SvcCheck(r) \/ SvcRelease(r)
      PROVE  UnsentOrHeld'
  <2>1. UNCHANGED <<written, outMsg, sendChan, unread, inReq>>
    BY <1>8 DEF SvcRun, SvcCheck, SvcRelease
  <2>2. \A q \in Requests \ {r} : svcPc'[q] = svcPc[q]
    BY <1>8 DEF SvcRun, SvcCheck, SvcRelease, WsInv, WsTypeOK
  <2>3. svcPc'[r] \in {"check", "send"} \/ svcPc[r] \in {"release", "fail"}
    BY <1>1, <1>8 DEF SvcRun, SvcCheck, SvcRelease, WsInv, WsTypeOK
  <2> QED BY <1>2, <2>1, <2>2, <2>3
<1>9. ASSUME NEW r \in Requests, SvcSend(r) PROVE UnsentOrHeld'
  <2>1. Replies \in Seq(Requests) /\ Replies' = Append(Replies, r)
    BY <1>9, RepliesGrow DEF SvcSend
  <2>2. \A x : Member(x, Replies') <=> Member(x, Replies) \/ x = r
    BY <2>1, OneMore
  <2>3. UNCHANGED <<unread, inReq>> /\ \A q \in Requests \ {r} : svcPc'[q] = svcPc[q]
    BY <1>9 DEF SvcSend, WsInv, WsTypeOK
  <2> QED BY <2>2, <2>3
<1>10. CASE OutHandler \/ NetworkFail
  <2>1. UNCHANGED <<unread, inReq, svcPc>>
    BY <1>10 DEF OutHandler, OutReceive, OutQuit, OutWrite, OutDisconnect, OutDrain, NetworkFail
  <2>2. ~OutDrain /\ ~OutDisconnect /\ ~NetworkFail
    BY <1>1 DEF OutDrain, OutDisconnect, Disconnect, NetworkFail, MaySend, WsInv, OutPositions,
                Serving
  <2>3. Replies' = Replies
    BY <1>1, <1>2, <1>10, <2>2, RepliesPassedOn DEF OutHandler, OutQuit, Serving
  <2> QED BY <2>1, <2>3
<1> QED BY <1>3, <1>4, <1>5, <1>6, <1>7, <1>8, <1>9, <1>10 DEF Answers
===============================================================================
