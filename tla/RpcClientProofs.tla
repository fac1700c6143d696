--------------------------- MODULE RpcClientProofs ---------------------------
(***************************************************************************)
(* Proofs about RpcClient for any number of requests, connections and any  *)
(* configuration: type correctness, what callers are promised about their  *)
(* futures, the discipline around the disconnect channel, and, for a       *)
(* client connected by New, that no connection is leaked.                  *)
(***************************************************************************)
EXTENDS RpcClient, TLAPS

(* How the reconnect handler, the dials and the handlers' life cycles fit
   together; type correctness alone is not inductive (ReconnAssign counts the
   connections up), nor are the facts about futures (a handler must not be
   started over one that still holds a reply). *)
StructInv ==
  /\ connectPc = "dial" => wsConn = 0
  /\ wsConn = 0 => reconnPc = "none"
  /\ reconnPc = "assign" => wsConn < MaxConn
  /\ \A g \in Gens : g > wsConn => inPc[g] = "none"
  /\ reconnPc = "reset" => inPc[wsConn] = "none"
  /\ \A g \in Gens : inReq[g] # {} => inPc[g] = "deliver"

-----------------------------------------------------------------------------
(* What the helpers preserve of the types. *)

LEMMA RespondType ==
  ASSUME resp \in [Requests -> Seq(Outcomes)], NEW S, NEW outcome \in Outcomes
  PROVE  Respond(S, outcome) \in [Requests -> Seq(Outcomes)]
  BY DEF Respond

LEMMA SendMessageType ==
  ASSUME sendChan \in Seq(Requests), Len(sendChan) <= SendCap,
         NEW r \in Requests, SendMessage(r)
  PROVE  sendChan' \in Seq(Requests) /\ Len(sendChan') <= SendCap
  BY ConfigAssumption DEF SendMessage

LEMMA FailAllType ==
  ASSUME TypeOK, NEW err \in Errors, FailAll(err)
  PROVE  /\ requestMap' \subseteq Requests
         /\ resp' \in [Requests -> Seq(Outcomes)]
         /\ shutdown' \in BOOLEAN
  BY RespondType DEF FailAll, RemoveAllRequests, TypeOK, Outcomes

LEMMA AfterDisconnectType ==
  ASSUME TypeOK, AfterDisconnect
  PROVE  /\ requestMap' \subseteq Requests
         /\ resp' \in [Requests -> Seq(Outcomes)]
         /\ shutdown' \in BOOLEAN
  BY FailAllType DEF AfterDisconnect, Errors, futureVars, TypeOK

LEMMA WireType ==
  ASSUME wire \in [Gens -> [Requests -> Nat]], NEW g \in Gens, NEW f \in [Requests -> Nat]
  PROVE  [wire EXCEPT ![g] = f] \in [Gens -> [Requests -> Nat]]
  OBVIOUS

LEMMA DoDisconnectType ==
  ASSUME TypeOK, DoDisconnect
  PROVE  /\ wsConn' \in 0..MaxConn /\ disconnected' \in BOOLEAN
         /\ disconnectClosed' \in BOOLEAN /\ connEstablished' \in BOOLEAN
         /\ conn' \in [Gens -> ConnState]
  BY DEF DoDisconnect, TypeOK, ConnState

-----------------------------------------------------------------------------
LEMMA StructInit == Init => StructInv
  BY ConfigAssumption DEF Init, StructInv, Gens, FirstReconnPc

LEMMA TypeInit == Init => TypeOK
<1> SUFFICES ASSUME Init PROVE TypeOK
  OBVIOUS
<1>1. /\ wsConn \in 0..MaxConn /\ conn \in [Gens -> ConnState]
      /\ retryCount \in 0..MaxRetries
      /\ wire \in [Gens -> [Requests -> Nat]]
      /\ inPc \in [Gens -> InPcs] /\ inConn \in [Gens -> 0..MaxConn]
      /\ inReq \in [Gens -> SUBSET Requests]
  BY ConfigAssumption DEF Init, ConnState, InPcs
<1>2. /\ outPc \in [Gens -> OutPcs] /\ outMsg \in [Gens -> SUBSET Requests]
      /\ reconnPc \in ReconnPcs
      /\ resendPc \in [Gens -> ResendPcs] /\ resendReqs \in [Gens -> SUBSET Requests]
  BY DEF Init, OutPcs, ReconnPcs, ResendPcs, FirstReconnPc
<1>3. /\ callPc \in [Requests -> CallPcs] /\ resp \in [Requests -> Seq(Outcomes)]
      /\ sendChan \in Seq(Requests) /\ Len(sendChan) <= SendCap
      /\ requestMap \subseteq Requests
  BY ConfigAssumption DEF Init, CallPcs
<1>4. /\ disconnected \in BOOLEAN /\ disconnectClosed \in BOOLEAN
      /\ shutdown \in BOOLEAN /\ connEstablished \in BOOLEAN
      /\ userPc \in {"idle", "lock"} /\ shutPc \in {"idle", "mtx", "done"}
      /\ connectPc \in {"idle", "dial"}
  BY ConfigAssumption DEF Init
<1> QED BY <1>1, <1>2, <1>3, <1>4 DEF TypeOK

LEMMA TypeNext == TypeOK /\ StructInv /\ [Next]_vars => TypeOK'
<1> SUFFICES ASSUME TypeOK, StructInv, [Next]_vars PROVE TypeOK'
  OBVIOUS
<1>0. /\ reconnPc = "assign" => wsConn < MaxConn
      /\ MaxConn \in Nat \ {0} /\ MaxRetries \in Nat \ {0} /\ SendCap \in Nat \ {0}
  BY ConfigAssumption DEF StructInv
<1> USE DEF linkVars, futureVars, inVars, outVars, reconnVars, resendVars, userVars
<1>1. ASSUME NEW r \in Requests, Call(r) PROVE TypeOK'
  <2>1. CASE SendUnconnected(r)
    BY <2>1, <1>0, RespondType DEF SendUnconnected, CallPcs, Outcomes, Errors, TypeOK
  <2>2. CASE AddRequest(r)
    <3>1. resp' \in [Requests -> Seq(Outcomes)]
      BY <2>2, RespondType DEF AddRequest, TypeOK, Outcomes, Errors
    <3>2. requestMap' \subseteq Requests /\ callPc' \in [Requests -> CallPcs]
      BY <2>2 DEF AddRequest, TypeOK, CallPcs
    <3> QED BY <2>2, <3>1, <3>2, <1>0 DEF AddRequest, TypeOK
  <2>3. CASE SendRequest(r)
    BY <2>3, <1>0, SendMessageType DEF SendRequest, CallPcs, TypeOK
  <2>4. CASE ReceiveFuture(r)
    BY <2>4, <1>0 DEF ReceiveFuture, CallPcs, TypeOK
  <2> QED BY <1>1, <2>1, <2>2, <2>3, <2>4 DEF Call
<1>2. ASSUME NEW g \in Gens, InHandler(g) PROVE TypeOK'
  <2>1. CASE InLoop(g) \/ InEnter(g)
    <3>1. inPc' \in [Gens -> InPcs]
      BY <2>1, <1>0 DEF InLoop, InEnter, InPcs, TypeOK
    <3>2. inConn' \in [Gens -> 0..MaxConn]
      BY <2>1, <1>0 DEF InLoop, InEnter, TypeOK, Gens
    <3> QED BY <2>1, <3>1, <3>2, <1>0 DEF InLoop, InEnter, TypeOK
  <2>2. CASE InDeliver(g)
    BY <2>2, <1>0, RespondType DEF InDeliver, InPcs, Outcomes, TypeOK
  <2>3. CASE InError(g)
    BY <2>3, <1>0 DEF InError, InPcs, TypeOK
  <2>4. CASE InDisconnect(g)
    BY <2>4, <1>0, DoDisconnectType DEF InDisconnect, InPcs, TypeOK
  <2>5. CASE InFinish(g)
    BY <2>5, <1>0, AfterDisconnectType DEF InFinish, InPcs, TypeOK
  <2>6. CASE InIgnore(g)
    BY <2>6, <1>0 DEF InIgnore, InPcs, TypeOK
  <2>7. ASSUME NEW r \in Requests, InReply(g, r) PROVE TypeOK'
    <3>1. wire' \in [Gens -> [Requests -> Nat]]
      <4> DEFINE f == [wire[inConn[g]] EXCEPT ![r] = @ - 1]
      <4>1. inConn[g] \in Gens
        BY <2>7, <1>0 DEF InReply, TypeOK, Gens
      <4>2. f \in [Requests -> Nat]
        BY <2>7, <4>1 DEF InReply, TypeOK
      <4>3. wire' = [wire EXCEPT ![inConn[g]] = f]
        BY <2>7 DEF InReply
      <4> HIDE DEF f
      <4> QED BY <4>1, <4>2, <4>3, WireType DEF TypeOK
    <3>0. /\ inConn' = [inConn EXCEPT ![g] = 0]
          /\ inPc' = [inPc EXCEPT ![g] = IF r \in requestMap THEN "deliver" ELSE "loop"]
          /\ inReq' = [inReq EXCEPT ![g] = {r}] \/ inReq' = inReq
          /\ requestMap' \subseteq requestMap
      BY <2>7, Zenon DEF InReply, RemoveRequest
    <3>2. inPc' \in [Gens -> InPcs] /\ inConn' \in [Gens -> 0..MaxConn]
      BY <3>0, <1>0 DEF TypeOK, InPcs
    <3>3. requestMap' \subseteq Requests
      BY <3>0 DEF TypeOK
    <3>4. inReq' \in [Gens -> SUBSET Requests]
      <4>1. {r} \in SUBSET Requests /\ inReq \in [Gens -> SUBSET Requests]
        BY DEF TypeOK
      <4> QED BY <4>1, <3>0, Zenon
    <3> QED BY <2>7, <3>1, <3>2, <3>3, <3>4 DEF InReply, TypeOK
  <2> QED BY <1>2, <2>1, <2>2, <2>3, <2>4, <2>5, <2>6, <2>7 DEF InHandler
<1>3. ASSUME NEW g \in Gens, OutHandler(g) PROVE TypeOK'
  <2>1. CASE OutReceive(g)
    BY <2>1, <1>0 DEF OutReceive, OutPcs, TypeOK
  <2>2. CASE OutQuit(g)
    BY <2>2, <1>0 DEF OutQuit, OutPcs, TypeOK
  <2>3. CASE OutWrite(g)
    <3>1. wire' \in [Gens -> [Requests -> Nat]]
      <4> DEFINE f == [r \in Requests |->
                         IF r \in outMsg[g] THEN wire[wsConn][r] + 1 ELSE wire[wsConn][r]]
      <4>1. wsConn \in Gens
        BY <2>3, <1>0 DEF OutWrite, TypeOK, Gens
      <4>2. f \in [Requests -> Nat]
        BY <4>1 DEF TypeOK
      <4>3. wire' = [wire EXCEPT ![wsConn] = f] \/ wire' = wire
        BY <2>3, <4>1 DEF OutWrite, TypeOK
      <4> HIDE DEF f
      <4> QED BY <4>1, <4>2, <4>3, WireType DEF TypeOK
    <3>2. outPc' \in [Gens -> OutPcs] /\ outMsg' \in [Gens -> SUBSET Requests]
      BY <2>3 DEF OutWrite, TypeOK, OutPcs
    <3> QED BY <2>3, <3>1, <3>2 DEF OutWrite, TypeOK
  <2>4. CASE OutDisconnect(g)
    BY <2>4, <1>0, DoDisconnectType DEF OutDisconnect, OutPcs, TypeOK
  <2>5. CASE OutFinish(g)
    BY <2>5, <1>0, AfterDisconnectType DEF OutFinish, OutPcs, TypeOK
  <2>6. CASE OutDrain(g)
    BY <2>6, <1>0 DEF OutDrain, OutPcs, TypeOK
  <2> QED BY <1>3, <2>1, <2>2, <2>3, <2>4, <2>5, <2>6 DEF OutHandler
<1>4. ASSUME NEW g \in Gens, Resend(g) PROVE TypeOK'
  <2>1. CASE ResendCopy(g)
    BY <2>1, <1>0 DEF ResendCopy, ResendableRequests, ResendPcs, TypeOK
  <2>2. CASE ResendCheck(g)
    BY <2>2, <1>0 DEF ResendCheck, ResendPcs, TypeOK
  <2>3. CASE ResendSend(g)
    BY <2>3, <1>0, SendMessageType DEF ResendSend, ResendPcs, TypeOK
  <2> QED BY <1>4, <2>1, <2>2, <2>3 DEF Resend
<1>5. ASSUME NEW g \in Gens, NetworkFail(g) PROVE TypeOK'
  BY <1>5, <1>0 DEF NetworkFail, ConnState, TypeOK
<1>6. ASSUME Reconnect PROVE TypeOK'
  <2>1. CASE ReconnWait
    BY <2>1, <1>0 DEF ReconnWait, ReconnPcs, TypeOK
  <2>2. CASE ReconnCheck
    BY <2>2, <1>0 DEF ReconnCheck, ReconnPcs, TypeOK
  <2>3. CASE ReconnDialFail
    BY <2>3, <1>0 DEF ReconnDialFail, ReconnPcs, TypeOK
  <2>4. CASE ReconnDial
    BY <2>4, <1>0 DEF ReconnDial, ReconnPcs, ConnState, TypeOK
  <2>5. CASE ReconnAssign
    BY <2>5, <1>0 DEF ReconnAssign, ReconnPcs, TypeOK
  <2>6. CASE ReconnReset
    BY <2>6, <1>0 DEF ReconnReset, NewDisconnectChan, ReconnPcs, InPcs, OutPcs, ResendPcs, TypeOK
  <2> QED BY <1>6, <2>1, <2>2, <2>3, <2>4, <2>5, <2>6 DEF Reconnect
<1>7. ASSUME UserOps PROVE TypeOK'
  <2>1. CASE Disconnect
    BY <2>1, <1>0, DoDisconnectType DEF Disconnect, TypeOK
  <2>2. CASE DisconnectFinish
    BY <2>2, <1>0, AfterDisconnectType DEF DisconnectFinish, TypeOK
  <2>3. CASE Shutdown
    BY <2>3, <1>0, FailAllType DEF Shutdown, Errors, TypeOK
  <2>4. CASE ShutdownFinish
    BY <2>4, <1>0, DoDisconnectType DEF ShutdownFinish, TypeOK
  <2>5. CASE Connect
    BY <2>5, <1>0 DEF Connect, TypeOK
  <2>6. CASE ConnectFail
    BY <2>6, <1>0 DEF ConnectFail, TypeOK
  <2>7. CASE ConnectEstablish
    <3>1. conn' \in [Gens -> ConnState] /\ inPc' \in [Gens -> InPcs] /\ outPc' \in [Gens -> OutPcs]
      BY <2>7, <1>0 DEF ConnectEstablish, InPcs, OutPcs, ConnState, TypeOK
    <3>2. wsConn' \in 0..MaxConn /\ reconnPc' \in ReconnPcs
      BY <2>7, <1>0 DEF ConnectEstablish, FirstReconnPc, ReconnPcs
    <3> QED BY <2>7, <3>1, <3>2, <1>0 DEF ConnectEstablish, TypeOK
  <2> QED BY <1>7, <2>1, <2>2, <2>3, <2>4, <2>5, <2>6, <2>7 DEF UserOps
<1>8. CASE UNCHANGED vars
  BY <1>8 DEF vars, TypeOK
<1> QED BY <1>1, <1>2, <1>3, <1>4, <1>5, <1>6, <1>7, <1>8 DEF Next

LEMMA StructNext == TypeOK /\ StructInv /\ [Next]_vars => StructInv'
<1> SUFFICES ASSUME TypeOK, StructInv, [Next]_vars PROVE StructInv'
  OBVIOUS
<1>0. /\ wsConn \in 0..MaxConn /\ MaxConn \in Nat \ {0}
      /\ inPc \in [Gens -> InPcs] /\ inReq \in [Gens -> SUBSET Requests]
  BY ConfigAssumption DEF TypeOK
<1> USE DEF linkVars, futureVars, inVars, outVars, reconnVars, resendVars, userVars
<1>1. ASSUME NEW r \in Requests, Call(r) PROVE StructInv'
  <2>1. CASE SendUnconnected(r)
    BY <2>1, <1>0 DEF SendUnconnected, StructInv, Gens
  <2>2. CASE AddRequest(r)
    BY <2>2, <1>0 DEF AddRequest, StructInv, Gens
  <2>3. CASE SendRequest(r)
    BY <2>3, <1>0 DEF SendRequest, StructInv, Gens
  <2>4. CASE ReceiveFuture(r)
    BY <2>4, <1>0 DEF ReceiveFuture, StructInv, Gens
  <2> QED BY <1>1, <2>1, <2>2, <2>3, <2>4 DEF Call
<1>2. ASSUME NEW g \in Gens, InHandler(g) PROVE StructInv'
  <2>1. CASE InLoop(g) \/ InEnter(g)
    BY <2>1, <1>0 DEF InLoop, InEnter, StopsReading, StructInv, Gens
  <2>2. CASE InDeliver(g)
    BY <2>2, <1>0 DEF InDeliver, StructInv, Gens
  <2>3. CASE InError(g)
    BY <2>3, <1>0 DEF InError, StructInv, Gens
  <2>4. CASE InDisconnect(g)
    BY <2>4, <1>0 DEF InDisconnect, DoDisconnect, StructInv, Gens
  <2>5. CASE InFinish(g)
    BY <2>5, <1>0 DEF InFinish, StructInv, Gens
  <2>6. CASE InIgnore(g)
    BY <2>6, <1>0 DEF InIgnore, StructInv, Gens
  <2>7. ASSUME NEW r \in Requests, InReply(g, r) PROVE StructInv'
    BY <2>7, <1>0 DEF InReply, RemoveRequest, StructInv, Gens
  <2> QED BY <1>2, <2>1, <2>2, <2>3, <2>4, <2>5, <2>6, <2>7 DEF InHandler
<1>3. ASSUME NEW g \in Gens, OutHandler(g) PROVE StructInv'
  <2>1. CASE OutReceive(g)
    BY <2>1, <1>0 DEF OutReceive, StructInv, Gens
  <2>2. CASE OutQuit(g)
    BY <2>2, <1>0 DEF OutQuit, StructInv, Gens
  <2>3. CASE OutWrite(g)
    BY <2>3, <1>0 DEF OutWrite, StructInv, Gens
  <2>4. CASE OutDisconnect(g)
    BY <2>4, <1>0 DEF OutDisconnect, DoDisconnect, StructInv, Gens
  <2>5. CASE OutFinish(g)
    BY <2>5, <1>0 DEF OutFinish, StructInv, Gens
  <2>6. CASE OutDrain(g)
    BY <2>6, <1>0 DEF OutDrain, StructInv, Gens
  <2> QED BY <1>3, <2>1, <2>2, <2>3, <2>4, <2>5, <2>6 DEF OutHandler
<1>4. ASSUME NEW g \in Gens, Resend(g) PROVE StructInv'
  <2>1. CASE ResendCopy(g)
    BY <2>1, <1>0 DEF ResendCopy, StructInv, Gens
  <2>2. CASE ResendCheck(g)
    BY <2>2, <1>0 DEF ResendCheck, StructInv, Gens
  <2>3. CASE ResendSend(g)
    BY <2>3, <1>0 DEF ResendSend, StructInv, Gens
  <2> QED BY <1>4, <2>1, <2>2, <2>3 DEF Resend
<1>5. ASSUME NEW g \in Gens, NetworkFail(g) PROVE StructInv'
  BY <1>5, <1>0 DEF NetworkFail, StructInv, Gens
<1>6. ASSUME Reconnect PROVE StructInv'
  <2>1. CASE ReconnWait
    BY <2>1, <1>0 DEF ReconnWait, StructInv, Gens
  <2>2. CASE ReconnCheck
    BY <2>2, <1>0 DEF ReconnCheck, StructInv, Gens
  <2>3. CASE ReconnDialFail
    BY <2>3, <1>0 DEF ReconnDialFail, StructInv, Gens
  <2>4. CASE ReconnDial
    BY <2>4, <1>0 DEF ReconnDial, StructInv, Gens
  <2>5. CASE ReconnAssign
    BY <2>5, <1>0 DEF ReconnAssign, StructInv, Gens
  <2>6. CASE ReconnReset
    BY <2>6, <1>0 DEF ReconnReset, StructInv, Gens
  <2> QED BY <1>6, <2>1, <2>2, <2>3, <2>4, <2>5, <2>6 DEF Reconnect
<1>7. ASSUME UserOps PROVE StructInv'
  <2>1. CASE Disconnect
    BY <2>1, <1>0 DEF Disconnect, DoDisconnect, StructInv, Gens
  <2>2. CASE DisconnectFinish
    BY <2>2, <1>0 DEF DisconnectFinish, StructInv, Gens
  <2>3. CASE Shutdown
    BY <2>3, <1>0 DEF Shutdown, StructInv, Gens
  <2>4. CASE ShutdownFinish
    BY <2>4, <1>0 DEF ShutdownFinish, DoDisconnect, StructInv, Gens
  <2>5. CASE Connect
    BY <2>5, <1>0 DEF Connect, StructInv, Gens
  <2>6. CASE ConnectFail
    BY <2>6, <1>0 DEF ConnectFail, StructInv, Gens
  <2>7. CASE ConnectEstablish
    BY <2>7, <1>0 DEF ConnectEstablish, FirstReconnPc, StructInv, Gens
  <2> QED BY <1>7, <2>1, <2>2, <2>3, <2>4, <2>5, <2>6, <2>7 DEF UserOps
<1>8. CASE UNCHANGED vars
  BY <1>8 DEF vars, StructInv, Gens
<1> QED BY <1>1, <1>2, <1>3, <1>4, <1>5, <1>6, <1>7, <1>8 DEF Next

(* Type correctness, with the facts about the goroutines' life cycles. *)
THEOREM TypeCorrect == Spec => [](TypeOK /\ StructInv)
<1>1. Init => TypeOK /\ StructInv
  BY TypeInit, StructInit
<1>2. TypeOK /\ StructInv /\ [Next]_vars => (TypeOK /\ StructInv)'
  BY TypeNext, StructNext
<1> QED BY <1>1, <1>2, PTL DEF Spec

-----------------------------------------------------------------------------
(* What callers are promised.  The safety properties are not inductive alone: a
   request in the table, or in the hands of a handler, is unanswered; it is never
   in both places nor with two handlers; and a command not yet issued is nowhere. *)
FutureInv ==
  /\ \A r \in Requests :
       callPc[r] = "idle" => r \notin requestMap /\ ~Delivering(r) /\ resp[r] = <<>>
  /\ \A r \in requestMap : ~Delivering(r) /\ resp[r] = <<>>
  /\ \A r \in Requests : Delivering(r) => resp[r] = <<>>
  /\ \A g, h \in Gens : g # h => inReq[g] \cap inReq[h] = {}
  /\ \A g \in Gens : inReq[g] = {} \/ \E r \in Requests : inReq[g] = {r}
  /\ AtMostOneResponse
  /\ NoOrphanedCaller
  /\ ShutdownLeavesNothingPending

LEMMA FirstResponse ==
  ASSUME NEW s \in Seq(Outcomes), s = <<>>, NEW outcome \in Outcomes
  PROVE  /\ Append(s, outcome) \in Seq(Outcomes)
         /\ Len(Append(s, outcome)) <= 1 /\ Append(s, outcome) # <<>>
         /\ Append(s, outcome)[1] = outcome
  OBVIOUS

(* A step that touches neither the table, the responses, the replies held by
   handlers nor the callers. *)
LEMMA FutureQuiet ==
  ASSUME FutureInv, UNCHANGED <<requestMap, resp, shutdown, inReq, callPc>>
  PROVE  FutureInv'
  BY DEF FutureInv, AtMostOneResponse, NoOrphanedCaller, ShutdownLeavesNothingPending,
         Delivering

LEMMA FutureFailAll ==
  ASSUME TypeOK, FutureInv, NEW err \in Errors, FailAll(err), UNCHANGED <<inReq, callPc>>
  PROVE  FutureInv'
<1>1. /\ requestMap' = {}
      /\ resp' = [r \in Requests |->
                    IF r \in requestMap THEN Append(resp[r], err) ELSE resp[r]]
  BY DEF FailAll, RemoveAllRequests, Respond
<1>2. \A r \in Requests : Delivering(r)' <=> Delivering(r)
  BY DEF Delivering
<1>3. \A r \in Requests : r \in requestMap => Len(resp'[r]) <= 1 /\ resp'[r] # <<>>
  <2> SUFFICES ASSUME NEW r \in Requests, r \in requestMap
               PROVE  Len(resp'[r]) <= 1 /\ resp'[r] # <<>>
    OBVIOUS
  <2>1. resp[r] = <<>> /\ resp'[r] = Append(resp[r], err)
    BY <1>1 DEF FutureInv
  <2> QED BY <2>1, FirstResponse DEF TypeOK, Outcomes
<1>4. \A r \in Requests : r \notin requestMap => resp'[r] = resp[r]
  BY <1>1
<1>5. AtMostOneResponse'
  <2> SUFFICES ASSUME NEW r \in Requests PROVE Len(resp'[r]) <= 1
    BY DEF AtMostOneResponse
  <2>1. CASE r \in requestMap
    BY <2>1, <1>3
  <2>2. CASE r \notin requestMap
    BY <2>2, <1>4 DEF FutureInv, AtMostOneResponse
  <2> QED BY <2>1, <2>2
<1>6. NoOrphanedCaller'
  <2> SUFFICES ASSUME NEW r \in Requests \ LongRunning, callPc[r] \in {"send", "wait"}
               PROVE  Delivering(r) \/ resp'[r] # <<>>
    BY <1>2 DEF NoOrphanedCaller
  <2> QED BY <1>3, <1>4 DEF FutureInv, NoOrphanedCaller
<1>7. \A r \in Requests : callPc'[r] = "idle" => ~Delivering(r)' /\ resp'[r] = <<>>
  BY <1>2, <1>4 DEF FutureInv
<1>8. \A r \in Requests : Delivering(r)' => resp'[r] = <<>>
  BY <1>2, <1>4 DEF FutureInv
<1> QED BY <1>1, <1>5, <1>6, <1>7, <1>8 DEF FutureInv, ShutdownLeavesNothingPending

LEMMA FutureAfterDisconnect ==
  ASSUME TypeOK, FutureInv, AfterDisconnect, UNCHANGED <<inReq, callPc>>
  PROVE  FutureInv'
  BY FutureFailAll, FutureQuiet DEF AfterDisconnect, Errors, futureVars

LEMMA FutureRefuse ==
  ASSUME TypeOK, FutureInv, NEW r \in Requests, NEW err \in Errors, callPc[r] = "idle",
         resp' = Respond({r}, err), callPc' = [callPc EXCEPT ![r] = "wait"],
         UNCHANGED <<requestMap, shutdown, inReq>>
  PROVE  FutureInv'
<1>1. /\ Len(resp'[r]) <= 1 /\ resp'[r] # <<>>
      /\ \A q \in Requests \ {r} : resp'[q] = resp[q]
  <2>1. resp[r] = <<>>
    BY DEF FutureInv
  <2>2. resp'[r] = Append(resp[r], err) /\ \A q \in Requests \ {r} : resp'[q] = resp[q]
    BY DEF Respond
  <2>3. resp[r] \in Seq(Outcomes) /\ err \in Outcomes
    BY DEF TypeOK, Outcomes
  <2>4. Len(Append(resp[r], err)) <= 1 /\ Append(resp[r], err) # <<>>
    BY <2>1, <2>3, FirstResponse
  <2> QED BY <2>2, <2>4
<1>2. \A q \in Requests : Delivering(q)' <=> Delivering(q)
  BY DEF Delivering
<1>3. callPc'[r] = "wait" /\ \A q \in Requests \ {r} : callPc'[q] = callPc[q]
  BY DEF TypeOK
<1>4. r \notin requestMap /\ ~Delivering(r)
  BY DEF FutureInv
<1>5. AtMostOneResponse'
  <2> SUFFICES ASSUME NEW q \in Requests PROVE Len(resp'[q]) <= 1
    BY DEF AtMostOneResponse
  <2>1. CASE q = r
    BY <2>1, <1>1
  <2>2. CASE q # r
    BY <2>2, <1>1 DEF FutureInv, AtMostOneResponse
  <2> QED BY <2>1, <2>2
<1>6. NoOrphanedCaller'
  BY <1>1, <1>2, <1>3 DEF FutureInv, NoOrphanedCaller
<1>7. requestMap \subseteq Requests
  BY DEF TypeOK
<1> QED BY <1>1, <1>2, <1>3, <1>4, <1>5, <1>6, <1>7
        DEF FutureInv, ShutdownLeavesNothingPending

LEMMA FutureAddRequest ==
  ASSUME TypeOK, FutureInv, NEW r \in Requests, AddRequest(r)
  PROVE  FutureInv'
<1>1. CASE ~AcceptsRequests
  BY <1>1, FutureRefuse DEF AddRequest, Errors, linkVars, inVars
<1>2. CASE AcceptsRequests
  <2>1. /\ requestMap' = requestMap \cup {r} /\ callPc' = [callPc EXCEPT ![r] = "send"]
        /\ UNCHANGED <<resp, shutdown, inReq>> /\ ~shutdown /\ callPc[r] = "idle"
    BY <1>2 DEF AddRequest, AcceptsRequests, inVars
  <2>2. \A q \in Requests : Delivering(q)' <=> Delivering(q)
    BY <2>1 DEF Delivering
  <2>3. callPc'[r] = "send" /\ \A q \in Requests \ {r} : callPc'[q] = callPc[q]
    BY <2>1 DEF TypeOK
  <2>4. AtMostOneResponse' /\ ShutdownLeavesNothingPending'
    BY <2>1 DEF FutureInv, AtMostOneResponse, ShutdownLeavesNothingPending
  <2>5. NoOrphanedCaller'
    BY <2>1, <2>2, <2>3 DEF FutureInv, NoOrphanedCaller
  <2>6. requestMap \subseteq Requests
    BY DEF TypeOK
  <2> QED BY <2>1, <2>2, <2>3, <2>4, <2>5, <2>6 DEF FutureInv
<1> QED BY <1>1, <1>2

(* sendMessage and receiveFuture: the caller moves on, nothing else does. *)
LEMMA FutureCaller ==
  ASSUME TypeOK, FutureInv, NEW r \in Requests, SendRequest(r) \/ ReceiveFuture(r)
  PROVE  FutureInv'
<1>1. UNCHANGED <<requestMap, resp, shutdown, inReq>>
  BY DEF SendRequest, ReceiveFuture, futureVars, inVars
<1>2. /\ callPc[r] \in {"send", "wait"} /\ callPc'[r] \in {"wait", "returned"}
      /\ \A q \in Requests \ {r} : callPc'[q] = callPc[q]
  BY DEF SendRequest, ReceiveFuture, TypeOK
<1>3. \A q \in Requests : Delivering(q)' <=> Delivering(q)
  BY <1>1 DEF Delivering
<1>4. NoOrphanedCaller'
  BY <1>1, <1>2, <1>3 DEF FutureInv, NoOrphanedCaller
<1>5. AtMostOneResponse' /\ ShutdownLeavesNothingPending'
  BY <1>1 DEF FutureInv, AtMostOneResponse, ShutdownLeavesNothingPending
<1>6. \A q \in Requests : callPc'[q] = "idle" => callPc[q] = "idle"
  BY <1>2
<1>7. requestMap \subseteq Requests
  BY DEF TypeOK
<1> QED BY <1>1, <1>3, <1>4, <1>5, <1>6, <1>7 DEF FutureInv

LEMMA FutureReply ==
  ASSUME TypeOK, StructInv, FutureInv, NEW g \in Gens, NEW r \in Requests, InReply(g, r)
  PROVE  FutureInv'
<1>1. CASE r \notin requestMap
  BY <1>1, FutureQuiet DEF InReply
<1>2. CASE r \in requestMap
  <2>1. /\ requestMap' = requestMap \ {r} /\ inReq' = [inReq EXCEPT ![g] = {r}]
        /\ UNCHANGED <<resp, shutdown, callPc>> /\ inPc[g] = "read"
    BY <1>2 DEF InReply, RemoveRequest
  <2>2. inReq[g] = {}
    BY <2>1 DEF StructInv
  <2>3. inReq'[g] = {r} /\ \A h \in Gens \ {g} : inReq'[h] = inReq[h]
    BY <2>1 DEF TypeOK
  <2>4. ~Delivering(r) /\ resp[r] = <<>> /\ callPc[r] # "idle"
    BY <1>2 DEF FutureInv
  <2>5. Delivering(r)' /\ \A q \in Requests \ {r} : Delivering(q)' <=> Delivering(q)
    BY <2>2, <2>3 DEF Delivering
  <2>6. AtMostOneResponse' /\ ShutdownLeavesNothingPending'
    BY <2>1 DEF FutureInv, AtMostOneResponse, ShutdownLeavesNothingPending
  <2>7. NoOrphanedCaller'
    BY <2>1, <2>5 DEF FutureInv, NoOrphanedCaller
  <2>8. \A h, i \in Gens : h # i => inReq'[h] \cap inReq'[i] = {}
    BY <2>3, <2>4 DEF FutureInv, Delivering
  <2>9. \A h \in Gens : inReq'[h] = {} \/ \E q \in Requests : inReq'[h] = {q}
    BY <2>3 DEF FutureInv
  <2>10. requestMap \subseteq Requests
    BY DEF TypeOK
  <2> QED BY <2>1, <2>4, <2>5, <2>6, <2>7, <2>8, <2>9, <2>10 DEF FutureInv
<1> QED BY <1>1, <1>2

LEMMA FutureDeliver ==
  ASSUME TypeOK, FutureInv, NEW g \in Gens, InDeliver(g)
  PROVE  FutureInv'
<1>1. /\ resp' = Respond(inReq[g], "reply") /\ inReq' = [inReq EXCEPT ![g] = {}]
      /\ UNCHANGED <<requestMap, shutdown, callPc>>
  BY DEF InDeliver
<1>2. inReq'[g] = {} /\ \A h \in Gens \ {g} : inReq'[h] = inReq[h]
  BY <1>1 DEF TypeOK
<1>3. \A q \in Requests : q \in inReq[g] => Len(resp'[q]) <= 1 /\ resp'[q] # <<>>
  <2> SUFFICES ASSUME NEW q \in Requests, q \in inReq[g]
               PROVE  Len(resp'[q]) <= 1 /\ resp'[q] # <<>>
    OBVIOUS
  <2>1. resp[q] = <<>>
    BY DEF FutureInv, Delivering
  <2>2. resp'[q] = Append(resp[q], "reply")
    BY <1>1 DEF Respond
  <2> QED BY <2>1, <2>2, FirstResponse DEF TypeOK, Outcomes
<1>4. \A q \in Requests : q \notin inReq[g] => resp'[q] = resp[q]
  BY <1>1 DEF Respond
<1>5. \A q \in Requests : Delivering(q)' <=> Delivering(q) /\ q \notin inReq[g]
  BY <1>2 DEF FutureInv, Delivering
<1>6. AtMostOneResponse'
  <2> SUFFICES ASSUME NEW q \in Requests PROVE Len(resp'[q]) <= 1
    BY DEF AtMostOneResponse
  <2>1. CASE q \in inReq[g]
    BY <2>1, <1>3
  <2>2. CASE q \notin inReq[g]
    BY <2>2, <1>4 DEF FutureInv, AtMostOneResponse
  <2> QED BY <2>1, <2>2
<1>11. ShutdownLeavesNothingPending'
  BY <1>1 DEF FutureInv, ShutdownLeavesNothingPending
<1>7. NoOrphanedCaller'
  BY <1>1, <1>3, <1>4, <1>5 DEF FutureInv, NoOrphanedCaller
<1>8. \A q \in requestMap : q \in Requests /\ q \notin inReq[g]
  BY DEF FutureInv, TypeOK, Delivering
<1>9. \A q \in Requests : callPc[q] = "idle" => q \notin inReq[g]
  BY DEF FutureInv, Delivering
<1>10. \A h, i \in Gens : h # i => inReq'[h] \cap inReq'[i] = {}
  BY <1>2 DEF FutureInv
<1> QED BY <1>1, <1>2, <1>4, <1>5, <1>6, <1>7, <1>8, <1>9, <1>10, <1>11 DEF FutureInv

(* resendRequests only forgets long-running requests. *)
LEMMA FutureResendCopy ==
  ASSUME TypeOK, FutureInv, NEW g \in Gens, ResendCopy(g)
  PROVE  FutureInv'
<1>1. /\ requestMap' = requestMap \ LongRunning
      /\ UNCHANGED <<resp, shutdown, inReq, callPc>>
  BY DEF ResendCopy, ResendableRequests, inVars
<1>2. \A q \in Requests : Delivering(q)' <=> Delivering(q)
  BY <1>1 DEF Delivering
<1>3. NoOrphanedCaller'
  BY <1>1, <1>2 DEF FutureInv, NoOrphanedCaller
<1>4. requestMap \subseteq Requests
  BY DEF TypeOK
<1> QED BY <1>1, <1>2, <1>3, <1>4
        DEF FutureInv, AtMostOneResponse, ShutdownLeavesNothingPending

LEMMA FutureInit == Init => FutureInv
<1> SUFFICES ASSUME Init PROVE FutureInv
  OBVIOUS
<1>1. /\ requestMap = {} /\ inReq = [g \in Gens |-> {}]
      /\ resp = [r \in Requests |-> <<>>] /\ callPc = [r \in Requests |-> "idle"]
  BY DEF Init
<1> QED BY <1>1 DEF FutureInv, Delivering, AtMostOneResponse, NoOrphanedCaller,
                    ShutdownLeavesNothingPending

LEMMA FutureNext == TypeOK /\ StructInv /\ FutureInv /\ [Next]_vars => FutureInv'
<1> SUFFICES ASSUME TypeOK, StructInv, FutureInv, [Next]_vars PROVE FutureInv'
  OBVIOUS
<1> USE DEF linkVars, futureVars, inVars, outVars, reconnVars, resendVars, userVars
<1>1. ASSUME NEW r \in Requests, Call(r) PROVE FutureInv'
  <2>1. CASE SendUnconnected(r)
    BY <2>1, FutureRefuse DEF SendUnconnected, Errors
  <2>2. CASE AddRequest(r)
    BY <2>2, FutureAddRequest
  <2>3. CASE SendRequest(r)
    BY <2>3, FutureCaller
  <2>4. CASE ReceiveFuture(r)
    BY <2>4, FutureCaller
  <2> QED BY <1>1, <2>1, <2>2, <2>3, <2>4 DEF Call
<1>2. ASSUME NEW g \in Gens, InHandler(g) PROVE FutureInv'
  <2>1. CASE InLoop(g) \/ InEnter(g)
    BY <2>1, FutureQuiet DEF InLoop, InEnter
  <2>2. CASE InDeliver(g)
    BY <2>2, FutureDeliver
  <2>3. CASE InError(g)
    BY <2>3, FutureQuiet DEF InError
  <2>4. CASE InDisconnect(g)
    BY <2>4, FutureQuiet DEF InDisconnect
  <2>5. CASE InFinish(g)
    BY <2>5, FutureAfterDisconnect DEF InFinish
  <2>6. CASE InIgnore(g)
    BY <2>6, FutureQuiet DEF InIgnore
  <2>7. ASSUME NEW r \in Requests, InReply(g, r) PROVE FutureInv'
    BY <2>7, FutureReply
  <2> QED BY <1>2, <2>1, <2>2, <2>3, <2>4, <2>5, <2>6, <2>7 DEF InHandler
<1>3. ASSUME NEW g \in Gens, OutHandler(g) PROVE FutureInv'
  <2>1. CASE OutReceive(g)
    BY <2>1, FutureQuiet DEF OutReceive
  <2>2. CASE OutQuit(g)
    BY <2>2, FutureQuiet DEF OutQuit
  <2>3. CASE OutWrite(g)
    BY <2>3, FutureQuiet DEF OutWrite
  <2>4. CASE OutDisconnect(g)
    BY <2>4, FutureQuiet DEF OutDisconnect
  <2>5. CASE OutFinish(g)
    BY <2>5, FutureAfterDisconnect DEF OutFinish
  <2>6. CASE OutDrain(g)
    BY <2>6, FutureQuiet DEF OutDrain
  <2> QED BY <1>3, <2>1, <2>2, <2>3, <2>4, <2>5, <2>6 DEF OutHandler
<1>4. ASSUME NEW g \in Gens, Resend(g) PROVE FutureInv'
  <2>1. CASE ResendCopy(g)
    BY <2>1, FutureResendCopy
  <2>2. CASE ResendCheck(g)
    BY <2>2, FutureQuiet DEF ResendCheck
  <2>3. CASE ResendSend(g)
    BY <2>3, FutureQuiet DEF ResendSend
  <2> QED BY <1>4, <2>1, <2>2, <2>3 DEF Resend
<1>5. ASSUME NEW g \in Gens, NetworkFail(g) PROVE FutureInv'
  BY <1>5, FutureQuiet DEF NetworkFail
<1>6. ASSUME Reconnect PROVE FutureInv'
  <2>1. CASE ReconnWait
    BY <2>1, FutureQuiet DEF ReconnWait
  <2>2. CASE ReconnCheck
    BY <2>2, FutureQuiet DEF ReconnCheck
  <2>3. CASE ReconnDialFail
    BY <2>3, FutureQuiet DEF ReconnDialFail
  <2>4. CASE ReconnDial
    BY <2>4, FutureQuiet DEF ReconnDial
  <2>5. CASE ReconnAssign
    BY <2>5, FutureQuiet DEF ReconnAssign
  <2>6. CASE ReconnReset
    BY <2>6, FutureQuiet DEF ReconnReset
  <2> QED BY <1>6, <2>1, <2>2, <2>3, <2>4, <2>5, <2>6 DEF Reconnect
<1>7. ASSUME UserOps PROVE FutureInv'
  <2>1. CASE Disconnect
    BY <2>1, FutureQuiet DEF Disconnect
  <2>2. CASE DisconnectFinish
    BY <2>2, FutureAfterDisconnect DEF DisconnectFinish
  <2>3. CASE Shutdown
    BY <2>3, FutureFailAll DEF Shutdown, Errors
  <2>4. CASE ShutdownFinish
    BY <2>4, FutureQuiet DEF ShutdownFinish
  <2>5. CASE Connect
    BY <2>5, FutureQuiet DEF Connect
  <2>6. CASE ConnectFail
    BY <2>6, FutureQuiet DEF ConnectFail
  <2>7. CASE ConnectEstablish
    BY <2>7, FutureQuiet DEF ConnectEstablish
  <2> QED BY <1>7, <2>1, <2>2, <2>3, <2>4, <2>5, <2>6, <2>7 DEF UserOps
<1>8. CASE UNCHANGED vars
  BY <1>8, FutureQuiet DEF vars
<1> QED BY <1>1, <1>2, <1>3, <1>4, <1>5, <1>6, <1>7, <1>8 DEF Next

LEMMA FutureInvariant == Spec => [](TypeOK /\ StructInv /\ FutureInv)
<1>1. Init => TypeOK /\ StructInv /\ FutureInv
  BY TypeInit, StructInit, FutureInit
<1>2. TypeOK /\ StructInv /\ FutureInv /\ [Next]_vars => (TypeOK /\ StructInv /\ FutureInv)'
  BY TypeNext, StructNext, FutureNext
<1> QED BY <1>1, <1>2, PTL DEF Spec

(* No future is ever answered twice, whatever replies, disconnects and shutdowns
   race for it. *)
THEOREM AnsweredAtMostOnce == Spec => []AtMostOneResponse
<1>1. FutureInv => AtMostOneResponse
  BY DEF FutureInv
<1> QED BY <1>1, FutureInvariant, PTL

(* A caller only ever waits for a response that the table, a handler or the
   channel owes it. *)
THEOREM CallersAreOwed == Spec => []NoOrphanedCaller
<1>1. FutureInv => NoOrphanedCaller
  BY DEF FutureInv
<1> QED BY <1>1, FutureInvariant, PTL

(* From the moment c.shutdown is closed, no request is pending. *)
THEOREM ShutdownIsFinal == Spec => []ShutdownLeavesNothingPending
<1>1. FutureInv => ShutdownLeavesNothingPending
  BY DEF FutureInv
<1> QED BY <1>1, FutureInvariant, PTL

-----------------------------------------------------------------------------
(* The disconnect channel.  While the reconnect handler dials, installs and
   announces a connection, the disconnected flag stays set. *)
LinkInv ==
  /\ DisconnectChanClosedOnce
  /\ reconnPc \in {"check", "dial", "assign", "reset"} => disconnected

LEMMA LinkQuiet ==
  ASSUME LinkInv, UNCHANGED <<disconnected, disconnectClosed, reconnPc>>
  PROVE  LinkInv'
  BY DEF LinkInv, DisconnectChanClosedOnce

LEMMA LinkDisconnect ==
  ASSUME LinkInv, DoDisconnect, UNCHANGED reconnPc
  PROVE  LinkInv'
  BY DEF LinkInv, DisconnectChanClosedOnce, DoDisconnect

LEMMA LinkNext == TypeOK /\ StructInv /\ LinkInv /\ [Next]_vars => LinkInv'
<1> SUFFICES ASSUME TypeOK, StructInv, LinkInv, [Next]_vars PROVE LinkInv'
  OBVIOUS
<1> USE DEF linkVars, futureVars, inVars, outVars, reconnVars, resendVars, userVars
<1>1. ASSUME NEW r \in Requests, Call(r) PROVE LinkInv'
  <2>1. CASE SendUnconnected(r)
    BY <2>1, LinkQuiet DEF SendUnconnected
  <2>2. CASE AddRequest(r)
    BY <2>2, LinkQuiet DEF AddRequest
  <2>3. CASE SendRequest(r)
    BY <2>3, LinkQuiet DEF SendRequest
  <2>4. CASE ReceiveFuture(r)
    BY <2>4, LinkQuiet DEF ReceiveFuture
  <2> QED BY <1>1, <2>1, <2>2, <2>3, <2>4 DEF Call
<1>2. ASSUME NEW g \in Gens, InHandler(g) PROVE LinkInv'
  <2>1. CASE InLoop(g) \/ InEnter(g)
    BY <2>1, LinkQuiet DEF InLoop, InEnter
  <2>2. CASE InDeliver(g)
    BY <2>2, LinkQuiet DEF InDeliver
  <2>3. CASE InError(g)
    BY <2>3, LinkQuiet DEF InError
  <2>4. CASE InDisconnect(g)
    BY <2>4, LinkDisconnect DEF InDisconnect
  <2>5. CASE InFinish(g)
    BY <2>5, LinkQuiet DEF InFinish
  <2>6. CASE InIgnore(g)
    BY <2>6, LinkQuiet DEF InIgnore
  <2>7. ASSUME NEW r \in Requests, InReply(g, r) PROVE LinkInv'
    BY <2>7, LinkQuiet DEF InReply
  <2> QED BY <1>2, <2>1, <2>2, <2>3, <2>4, <2>5, <2>6, <2>7 DEF InHandler
<1>3. ASSUME NEW g \in Gens, OutHandler(g) PROVE LinkInv'
  <2>1. CASE OutReceive(g)
    BY <2>1, LinkQuiet DEF OutReceive
  <2>2. CASE OutQuit(g)
    BY <2>2, LinkQuiet DEF OutQuit
  <2>3. CASE OutWrite(g)
    BY <2>3, LinkQuiet DEF OutWrite
  <2>4. CASE OutDisconnect(g)
    BY <2>4, LinkDisconnect DEF OutDisconnect
  <2>5. CASE OutFinish(g)
    BY <2>5, LinkQuiet DEF OutFinish
  <2>6. CASE OutDrain(g)
    BY <2>6, LinkQuiet DEF OutDrain
  <2> QED BY <1>3, <2>1, <2>2, <2>3, <2>4, <2>5, <2>6 DEF OutHandler
<1>4. ASSUME NEW g \in Gens, Resend(g) PROVE LinkInv'
  <2>1. CASE ResendCopy(g)
    BY <2>1, LinkQuiet DEF ResendCopy
  <2>2. CASE ResendCheck(g)
    BY <2>2, LinkQuiet DEF ResendCheck
  <2>3. CASE ResendSend(g)
    BY <2>3, LinkQuiet DEF ResendSend
  <2> QED BY <1>4, <2>1, <2>2, <2>3 DEF Resend
<1>5. ASSUME NEW g \in Gens, NetworkFail(g) PROVE LinkInv'
  BY <1>5, LinkQuiet DEF NetworkFail
<1>6. ASSUME Reconnect PROVE LinkInv'
  <2>1. CASE ReconnWait
    BY <2>1 DEF ReconnWait, LinkInv, DisconnectChanClosedOnce
  <2>2. CASE ReconnCheck
    BY <2>2 DEF ReconnCheck, LinkInv, DisconnectChanClosedOnce
  <2>3. CASE ReconnDialFail
    BY <2>3 DEF ReconnDialFail, LinkInv, DisconnectChanClosedOnce
  <2>4. CASE ReconnDial
    BY <2>4 DEF ReconnDial, LinkInv, DisconnectChanClosedOnce
  <2>5. CASE ReconnAssign
    BY <2>5 DEF ReconnAssign, LinkInv, DisconnectChanClosedOnce
  <2>6. CASE ReconnReset
    BY <2>6 DEF ReconnReset, NewDisconnectChan, LinkInv, DisconnectChanClosedOnce
  <2> QED BY <1>6, <2>1, <2>2, <2>3, <2>4, <2>5, <2>6 DEF Reconnect
<1>7. ASSUME UserOps PROVE LinkInv'
  <2>1. CASE Disconnect
    BY <2>1, LinkDisconnect DEF Disconnect
  <2>2. CASE DisconnectFinish
    BY <2>2, LinkQuiet DEF DisconnectFinish
  <2>3. CASE Shutdown
    BY <2>3, LinkQuiet DEF Shutdown
  <2>4. CASE ShutdownFinish
    BY <2>4, LinkDisconnect DEF ShutdownFinish
  <2>5. CASE Connect
    BY <2>5, LinkQuiet DEF Connect
  <2>6. CASE ConnectFail
    BY <2>6, LinkQuiet DEF ConnectFail
  <2>7. CASE ConnectEstablish
    BY <2>7 DEF ConnectEstablish, FirstReconnPc, LinkInv, DisconnectChanClosedOnce
  <2> QED BY <1>7, <2>1, <2>2, <2>3, <2>4, <2>5, <2>6, <2>7 DEF UserOps
<1>8. CASE UNCHANGED vars
  BY <1>8, LinkQuiet DEF vars
<1> QED BY <1>1, <1>2, <1>3, <1>4, <1>5, <1>6, <1>7, <1>8 DEF Next

LEMMA LinkInvariant == Spec => [](TypeOK /\ StructInv /\ LinkInv)
<1>1. Init => TypeOK /\ StructInv /\ LinkInv
  <2>1. Init => LinkInv
    BY DEF Init, LinkInv, DisconnectChanClosedOnce, FirstReconnPc
  <2> QED BY <2>1, TypeInit, StructInit
<1>2. TypeOK /\ StructInv /\ LinkInv /\ [Next]_vars => (TypeOK /\ StructInv /\ LinkInv)'
  BY TypeNext, StructNext, LinkNext
<1> QED BY <1>1, <1>2, PTL DEF Spec

(* close(c.disconnect) never closes a closed channel. *)
THEOREM NoDoubleClose == Spec => []DisconnectChanClosedOnce
<1>1. LinkInv => DisconnectChanClosedOnce
  BY DEF LinkInv
<1> QED BY <1>1, LinkInvariant, PTL

(* Nobody else looks at c.wsConn to close it while the reconnect handler
   replaces it without the lock. *)
THEOREM UnlockedAssignIsSafe == Spec => []UnlockedAssignIsGuarded
<1>1. LinkInv => UnlockedAssignIsGuarded
  BY DEF LinkInv, UnlockedAssignIsGuarded
<1> QED BY <1>1, LinkInvariant, PTL

-----------------------------------------------------------------------------
(* A client connected by New leaks no connection.  The last two parts tie the
   current connection to its read handler, which never stops without seeing to
   it that the client is disconnected. *)
LeakInv ==
  /\ wsConn # 0
  /\ NoLeakedConnection
  /\ inPc[wsConn] \in {"lock", "done"} => disconnected
  /\ inPc[wsConn] = "none" => reconnPc = "reset"

LEMMA LeakQuiet ==
  ASSUME LeakInv, UNCHANGED <<wsConn, disconnected, conn, inPc, reconnPc>>
  PROVE  LeakInv'
  BY DEF LeakInv, NoLeakedConnection

(* A step of a read handler that does not end it. *)
LEMMA LeakReading ==
  ASSUME TypeOK, LeakInv, NEW g \in Gens, inPc[g] # "none",
         NEW pc \in {"loop", "enter", "read", "deliver", "disconnect"},
         inPc' = [inPc EXCEPT ![g] = pc],
         UNCHANGED <<wsConn, disconnected, conn, reconnPc>>
  PROVE  LeakInv'
  BY DEF LeakInv, NoLeakedConnection, TypeOK, Gens

LEMMA LeakDisconnect ==
  ASSUME TypeOK, LinkInv, LeakInv, DoDisconnect, UNCHANGED <<inPc, reconnPc>>
  PROVE  LeakInv'
  BY DEF TypeOK, LinkInv, LeakInv, NoLeakedConnection, DoDisconnect, Gens

LEMMA LeakNext ==
  TypeOK /\ StructInv /\ LinkInv /\ LeakInv /\ [Next]_vars => LeakInv'
<1> SUFFICES ASSUME TypeOK, StructInv, LinkInv, LeakInv, [Next]_vars PROVE LeakInv'
  OBVIOUS
<1> USE DEF linkVars, futureVars, inVars, outVars, reconnVars, resendVars, userVars
<1>1. ASSUME NEW r \in Requests, Call(r) PROVE LeakInv'
  <2>1. CASE SendUnconnected(r)
    BY <2>1, LeakQuiet DEF SendUnconnected
  <2>2. CASE AddRequest(r)
    BY <2>2, LeakQuiet DEF AddRequest
  <2>3. CASE SendRequest(r)
    BY <2>3, LeakQuiet DEF SendRequest
  <2>4. CASE ReceiveFuture(r)
    BY <2>4, LeakQuiet DEF ReceiveFuture
  <2> QED BY <1>1, <2>1, <2>2, <2>3, <2>4 DEF Call
<1>2. ASSUME NEW g \in Gens, InHandler(g) PROVE LeakInv'
  <2>1. CASE InLoop(g) \/ InEnter(g)
    BY <2>1, LeakReading DEF InLoop, InEnter, StopsReading
  <2>2. CASE InDeliver(g)
    BY <2>2, LeakReading DEF InDeliver
  <2>3. CASE InError(g)
    BY <2>3, LeakReading DEF InError
  <2>4. CASE InDisconnect(g)
    BY <2>4 DEF InDisconnect, DoDisconnect, LeakInv, NoLeakedConnection, LinkInv, TypeOK, Gens
  <2>5. CASE InFinish(g)
    BY <2>5 DEF InFinish, LeakInv, NoLeakedConnection, LinkInv, TypeOK, Gens
  <2>6. CASE InIgnore(g)
    BY <2>6, LeakReading DEF InIgnore
  <2>7. ASSUME NEW r \in Requests, InReply(g, r) PROVE LeakInv'
    BY <2>7, LeakReading DEF InReply
  <2> QED BY <1>2, <2>1, <2>2, <2>3, <2>4, <2>5, <2>6, <2>7 DEF InHandler
<1>3. ASSUME NEW g \in Gens, OutHandler(g) PROVE LeakInv'
  <2>1. CASE OutReceive(g)
    BY <2>1, LeakQuiet DEF OutReceive
  <2>2. CASE OutQuit(g)
    BY <2>2, LeakQuiet DEF OutQuit
  <2>3. CASE OutWrite(g)
    BY <2>3, LeakQuiet DEF OutWrite
  <2>4. CASE OutDisconnect(g)
    BY <2>4, LeakDisconnect DEF OutDisconnect
  <2>5. CASE OutFinish(g)
    BY <2>5, LeakQuiet DEF OutFinish
  <2>6. CASE OutDrain(g)
    BY <2>6, LeakQuiet DEF OutDrain
  <2> QED BY <1>3, <2>1, <2>2, <2>3, <2>4, <2>5, <2>6 DEF OutHandler
<1>4. ASSUME NEW g \in Gens, Resend(g) PROVE LeakInv'
  <2>1. CASE ResendCopy(g)
    BY <2>1, LeakQuiet DEF ResendCopy
  <2>2. CASE ResendCheck(g)
    BY <2>2, LeakQuiet DEF ResendCheck
  <2>3. CASE ResendSend(g)
    BY <2>3, LeakQuiet DEF ResendSend
  <2> QED BY <1>4, <2>1, <2>2, <2>3 DEF Resend
<1>5. ASSUME NEW g \in Gens, NetworkFail(g) PROVE LeakInv'
  BY <1>5 DEF NetworkFail, LeakInv, NoLeakedConnection, LinkInv, TypeOK, Gens
<1>6. ASSUME Reconnect PROVE LeakInv'
  <2>1. CASE ReconnWait
    BY <2>1 DEF ReconnWait, LeakInv, NoLeakedConnection, LinkInv, TypeOK, Gens
  <2>2. CASE ReconnCheck
    BY <2>2 DEF ReconnCheck, LeakInv, NoLeakedConnection, LinkInv, TypeOK, Gens
  <2>3. CASE ReconnDialFail
    BY <2>3 DEF ReconnDialFail, LeakInv, NoLeakedConnection, LinkInv, TypeOK, Gens
  <2>4. CASE ReconnDial
    BY <2>4 DEF ReconnDial, LeakInv, NoLeakedConnection, LinkInv, TypeOK, Gens
  <2>5. CASE ReconnAssign
    BY <2>5 DEF ReconnAssign, StructInv, LeakInv, NoLeakedConnection, LinkInv, TypeOK, Gens
  <2>6. CASE ReconnReset
    BY <2>6 DEF ReconnReset, LeakInv, NoLeakedConnection, LinkInv, TypeOK, Gens
  <2> QED BY <1>6, <2>1, <2>2, <2>3, <2>4, <2>5, <2>6 DEF Reconnect
<1>7. ASSUME UserOps PROVE LeakInv'
  <2>1. CASE Disconnect
    BY <2>1, LeakDisconnect DEF Disconnect
  <2>2. CASE DisconnectFinish
    BY <2>2, LeakQuiet DEF DisconnectFinish
  <2>3. CASE Shutdown
    BY <2>3, LeakQuiet DEF Shutdown
  <2>4. CASE ShutdownFinish
    BY <2>4, LeakDisconnect DEF ShutdownFinish
  <2>5. CASE Connect
    BY <2>5 DEF Connect, LeakInv
  <2>6. CASE ConnectFail
    BY <2>6, LeakQuiet DEF ConnectFail
  <2>7. CASE ConnectEstablish
    BY <2>7 DEF ConnectEstablish, StructInv, LeakInv
  <2> QED BY <1>7, <2>1, <2>2, <2>3, <2>4, <2>5, <2>6, <2>7 DEF UserOps
<1>8. CASE UNCHANGED vars
  BY <1>8, LeakQuiet DEF vars
<1> QED BY <1>1, <1>2, <1>3, <1>4, <1>5, <1>6, <1>7, <1>8 DEF Next

LEMMA LeakInvariant ==
  ASSUME ConnectOnNew PROVE Spec => [](TypeOK /\ StructInv /\ LinkInv /\ LeakInv)
<1>1. Init => LeakInv
  BY ConfigAssumption DEF Init, LeakInv, NoLeakedConnection, Gens
<1>2. TypeOK /\ StructInv /\ LinkInv /\ LeakInv /\ [Next]_vars => LeakInv'
  BY LeakNext
<1>3. Spec => [](TypeOK /\ StructInv /\ LinkInv)
  BY LinkInvariant
<1> QED BY <1>1, <1>2, <1>3, PTL DEF Spec

(* For a client connected by New, every connection that was ever dialled is
   closed, current, or about to become current. *)
THEOREM NoConnectionLeaks == ASSUME ConnectOnNew PROVE Spec => []NoLeakedConnection
<1>1. LeakInv => NoLeakedConnection
  BY DEF LeakInv
<1> QED BY <1>1, LeakInvariant, PTL

(* For such a client WaitForShutdown keeps its word: when the handlers have
   stopped, every connection is closed. *)
THEOREM WaitForShutdownIsRight == ASSUME ConnectOnNew PROVE Spec => []StoppedMeansClosed
<1>1. TypeOK /\ LeakInv => StoppedMeansClosed
  BY DEF TypeOK, LeakInv, NoLeakedConnection, StoppedMeansClosed, AllStopped, ConnState, Gens
<1> QED BY <1>1, LeakInvariant, PTL

-----------------------------------------------------------------------------
(* The client implements RequestFutures.  FutureInv supplies what the mapping
   needs to know: a table entry or a held reply means an unanswered future. *)
LEMMA FutureOfPrimed ==
  ASSUME NEW r \in Requests
  PROVE  FutureOf(r)' = IF resp'[r] # <<>> THEN resp'[r][1]
                        ELSE IF r \in requestMap' \/ Delivering(r)' THEN "outstanding"
                        ELSE IF callPc'[r] = "idle" THEN "unsent" ELSE "forgotten"
  BY DEF FutureOf

(* Of a caller's position the mapping sees only whether the command was issued. *)
LEMMA RefinesCaller ==
  ASSUME UNCHANGED <<requestMap, resp, shutdown, inReq>>,
         \A r \in Requests : callPc'[r] = "idle" <=> callPc[r] = "idle"
  PROVE  UNCHANGED Futures!fvars
<1>1. \A r \in Requests : Delivering(r)' <=> Delivering(r)
  BY DEF Delivering
<1>2. \A r \in Requests : FutureOf(r)' = FutureOf(r)
  BY <1>1 DEF FutureOf
<1> QED BY <1>1, <1>2 DEF Futures!fvars

LEMMA RefinesQuiet ==
  ASSUME UNCHANGED <<requestMap, resp, shutdown, inReq, callPc>>
  PROVE  UNCHANGED Futures!fvars
  BY RefinesCaller

(* The state of a future, from the parts of the client's state. *)
LEMMA FutureStates ==
  ASSUME TypeOK, FutureInv, NEW r \in Requests
  PROVE  /\ callPc[r] = "idle" => FutureOf(r) = "unsent"
         /\ r \in requestMap \/ Delivering(r) => FutureOf(r) = "outstanding"
         /\ r \notin requestMap /\ ~Delivering(r) => FutureOf(r) # "outstanding"
  <1>1. resp[r] # <<>> => resp[r][1] \in Outcomes
    BY DEF TypeOK
  <1> QED BY <1>1 DEF FutureOf, FutureInv, Outcomes, Errors

LEMMA RefinesClose ==
  ASSUME TypeOK, FutureInv, NEW err \in {"ErrClientDisconnect", "ErrClientShutdown"},
         FailAll(err), UNCHANGED <<inReq, callPc>>
  PROVE  Futures!Close(err)
<1>1. /\ requestMap' = {} /\ shutdown' = TRUE
      /\ resp' = [r \in Requests |->
                    IF r \in requestMap THEN Append(resp[r], err) ELSE resp[r]]
  BY DEF FailAll, RemoveAllRequests, Respond
<1>2. \A r \in Requests : Delivering(r)' <=> Delivering(r)
  BY DEF Delivering
<1>3. ASSUME NEW r \in Requests, r \in requestMap
      PROVE  FutureOf(r)' = err /\ FutureOf(r) = "outstanding" /\ ~Delivering(r)
  <2>1. resp[r] = <<>> /\ ~Delivering(r) /\ resp'[r] = Append(resp[r], err)
    BY <1>1, <1>3 DEF FutureInv
  <2>2. resp[r] \in Seq(Outcomes) /\ err \in Outcomes
    BY DEF TypeOK, Outcomes, Errors
  <2>3. resp'[r] # <<>> /\ resp'[r][1] = err
    BY <2>1, <2>2, FirstResponse
  <2> QED BY <1>3, <2>1, <2>3, FutureOfPrimed, FutureStates
<1>4. ASSUME NEW r \in Requests, r \notin requestMap
      PROVE  /\ FutureOf(r)' = FutureOf(r)
             /\ FutureOf(r) = "outstanding" => Delivering(r)
  <2>1. resp'[r] = resp[r]
    BY <1>1, <1>4
  <2> QED BY <2>1, <1>1, <1>2, <1>4, FutureStates DEF FutureOf
<1> QED BY <1>1, <1>2, <1>3, <1>4 DEF Futures!Close, Futures!Outstanding

LEMMA RefinesRefuse ==
  ASSUME TypeOK, FutureInv, NEW r \in Requests, NEW err \in Errors, callPc[r] = "idle",
         err = "ErrClientNotConnected" \/ (shutdown /\ err = "ErrClientShutdown"),
         resp' = Respond({r}, err), callPc' = [callPc EXCEPT ![r] = "wait"],
         UNCHANGED <<requestMap, shutdown, inReq>>
  PROVE  Futures!Refuse(r, err)
<1>1. \A q \in Requests : Delivering(q)' <=> Delivering(q)
  BY DEF Delivering
<1>2. FutureOf(r) = "unsent"
  BY FutureStates
<1>3. FutureOf(r)' = err
  <2>1. resp[r] = <<>> /\ resp'[r] = Append(resp[r], err)
    BY DEF FutureInv, Respond
  <2>2. resp[r] \in Seq(Outcomes) /\ err \in Outcomes
    BY DEF TypeOK, Outcomes, Errors
  <2>3. resp'[r] # <<>> /\ resp'[r][1] = err
    BY <2>1, <2>2, FirstResponse
  <2> QED BY <2>3, FutureOfPrimed
<1>4. \A q \in Requests \ {r} : FutureOf(q)' = FutureOf(q)
  <2>1. \A q \in Requests \ {r} : resp'[q] = resp[q] /\ callPc'[q] = callPc[q]
    BY DEF Respond, TypeOK
  <2> QED BY <2>1, <1>1 DEF FutureOf
<1> QED BY <1>1, <1>2, <1>3, <1>4 DEF Futures!Refuse

LEMMA RefinesAddRequest ==
  ASSUME TypeOK, FutureInv, NEW r \in Requests, AddRequest(r)
  PROVE  Futures!Issue(r) \/ Futures!Refuse(r, "ErrClientShutdown")
<1>1. CASE ~AcceptsRequests
  BY <1>1, RefinesRefuse DEF AddRequest, AcceptsRequests, Errors, inVars
<1>2. CASE AcceptsRequests
  <2>1. /\ requestMap' = requestMap \cup {r} /\ ~shutdown /\ callPc[r] = "idle"
        /\ callPc' = [callPc EXCEPT ![r] = "send"] /\ UNCHANGED <<resp, shutdown, inReq>>
    BY <1>2 DEF AddRequest, AcceptsRequests, inVars
  <2>2. \A q \in Requests : Delivering(q)' <=> Delivering(q)
    BY <2>1 DEF Delivering
  <2>3. FutureOf(r) = "unsent" /\ FutureOf(r)' = "outstanding"
    BY <2>1, FutureStates DEF FutureOf, FutureInv
  <2>4. \A q \in Requests \ {r} : FutureOf(q)' = FutureOf(q)
    BY <2>1, <2>2 DEF FutureOf, TypeOK
  <2> QED BY <2>1, <2>2, <2>3, <2>4 DEF Futures!Issue
<1> QED BY <1>1, <1>2

LEMMA RefinesReply ==
  ASSUME TypeOK, StructInv, FutureInv, NEW g \in Gens, NEW r \in Requests, InReply(g, r)
  PROVE  Futures!Match(r) \/ UNCHANGED Futures!fvars
<1>1. CASE r \notin requestMap
  BY <1>1, RefinesQuiet DEF InReply
<1>2. CASE r \in requestMap
  <2>1. /\ requestMap' = requestMap \ {r} /\ inReq' = [inReq EXCEPT ![g] = {r}]
        /\ UNCHANGED <<resp, shutdown, callPc>> /\ inReq[g] = {}
    BY <1>2 DEF InReply, RemoveRequest, StructInv
  <2>2. Delivering(r)' /\ \A q \in Requests \ {r} : Delivering(q)' <=> Delivering(q)
    BY <2>1 DEF Delivering, TypeOK
  <2>3. ~shutdown /\ ~Delivering(r) /\ resp[r] = <<>>
    BY <1>2 DEF FutureInv, ShutdownLeavesNothingPending
  <2>4. \A q \in Requests : FutureOf(q)' = FutureOf(q)
    BY <1>2, <2>1, <2>2 DEF FutureOf
  <2>5. FutureOf(r) = "outstanding"
    BY <1>2, FutureStates
  <2> QED BY <2>1, <2>2, <2>3, <2>4, <2>5 DEF Futures!Match, Futures!Outstanding
<1> QED BY <1>1, <1>2

LEMMA RefinesDeliver ==
  ASSUME TypeOK, FutureInv, NEW g \in Gens, InDeliver(g)
  PROVE  (\E r \in Requests : Futures!Resolve(r)) \/ UNCHANGED Futures!fvars
<1>1. /\ resp' = Respond(inReq[g], "reply") /\ inReq' = [inReq EXCEPT ![g] = {}]
      /\ UNCHANGED <<requestMap, shutdown, callPc>>
  BY DEF InDeliver
<1>2. CASE inReq[g] = {}
  <2>1. resp' = resp /\ inReq' = inReq
    BY <1>1, <1>2 DEF Respond, TypeOK
  <2> QED BY <1>1, <2>1, RefinesQuiet
<1>3. ASSUME NEW r \in Requests, inReq[g] = {r} PROVE Futures!Resolve(r)
  <2>1. ~Delivering(r)' /\ \A q \in Requests \ {r} : Delivering(q)' <=> Delivering(q)
    BY <1>1, <1>3 DEF FutureInv, Delivering, TypeOK
  <2>2. Delivering(r) /\ resp[r] = <<>>
    BY <1>3 DEF FutureInv, Delivering
  <2>3. FutureOf(r)' = "reply"
    <3>1. resp'[r] = Append(resp[r], "reply")
      BY <1>1, <1>3 DEF Respond
    <3>2. resp[r] \in Seq(Outcomes) /\ "reply" \in Outcomes
      BY DEF TypeOK, Outcomes
    <3>3. resp'[r] # <<>> /\ resp'[r][1] = "reply"
      BY <2>2, <3>1, <3>2, FirstResponse
    <3> QED BY <3>3, FutureOfPrimed
  <2>4. \A q \in Requests \ {r} : FutureOf(q)' = FutureOf(q)
    <3>1. \A q \in Requests \ {r} : resp'[q] = resp[q]
      BY <1>1, <1>3 DEF Respond
    <3> QED BY <3>1, <2>1, <1>1 DEF FutureOf
  <2> QED BY <1>1, <2>1, <2>2, <2>3, <2>4 DEF Futures!Resolve
<1> QED BY <1>2, <1>3 DEF FutureInv

(* resendRequests forgets the long-running requests of the table and no other. *)
LEMMA RefinesResendCopy ==
  ASSUME TypeOK, FutureInv, NEW g \in Gens, ResendCopy(g)
  PROVE  Futures!Forget
<1>1. requestMap' = requestMap \ LongRunning /\ UNCHANGED <<resp, shutdown, inReq, callPc>>
  BY DEF ResendCopy, ResendableRequests, inVars
<1>2. \A r \in Requests : Delivering(r)' <=> Delivering(r)
  BY <1>1 DEF Delivering
<1>3. ASSUME NEW r \in Requests, r \in requestMap
      PROVE  /\ FutureOf(r) = "outstanding" /\ ~Delivering(r)
             /\ FutureOf(r)' = IF r \in LongRunning THEN "forgotten" ELSE FutureOf(r)
  <2>1. resp[r] = <<>> /\ ~Delivering(r) /\ callPc[r] # "idle"
    BY <1>3 DEF FutureInv
  <2> QED BY <1>1, <1>2, <1>3, <2>1, FutureOfPrimed DEF FutureOf
<1>4. ASSUME NEW r \in Requests, r \notin requestMap
      PROVE  /\ FutureOf(r)' = FutureOf(r)
             /\ FutureOf(r) = "outstanding" => Delivering(r)
  BY <1>1, <1>2, <1>4, FutureStates DEF FutureOf
<1> QED BY <1>1, <1>2, <1>3, <1>4 DEF Futures!Forget, Futures!Outstanding

LEMMA RefinesInit == Init => Futures!FuturesInit
<1> SUFFICES ASSUME Init PROVE Futures!FuturesInit
  OBVIOUS
<1>1. /\ requestMap = {} /\ inReq = [g \in Gens |-> {}] /\ shutdown = FALSE
      /\ resp = [r \in Requests |-> <<>>] /\ callPc = [r \in Requests |-> "idle"]
  BY DEF Init
<1> QED BY <1>1 DEF Futures!FuturesInit, FutureOf, Delivering

LEMMA RefinesNext ==
  ASSUME TypeOK, StructInv, FutureInv, [Next]_vars
  PROVE  [Futures!FuturesNext]_(Futures!fvars)
<1> DEFINE Goal == Futures!FuturesNext \/ UNCHANGED Futures!fvars
<1> USE DEF linkVars, futureVars, inVars, outVars, reconnVars, resendVars, userVars
<1>a. ASSUME AfterDisconnect, UNCHANGED <<inReq, callPc>> PROVE Goal
  <2>1. CASE AutoReconnect
    BY <1>a, <2>1, RefinesQuiet DEF AfterDisconnect
  <2>2. CASE ~AutoReconnect
    BY <1>a, <2>2, RefinesClose DEF AfterDisconnect, Futures!FuturesNext
  <2> QED BY <2>1, <2>2
<1>1. ASSUME NEW r \in Requests, Call(r) PROVE Goal
  <2>1. CASE SendUnconnected(r)
    BY <2>1, RefinesRefuse DEF SendUnconnected, Errors, Outcomes, Futures!FuturesNext
  <2>2. CASE AddRequest(r)
    BY <2>2, RefinesAddRequest DEF Errors, Outcomes, Futures!FuturesNext
  <2>3. CASE SendRequest(r)
    BY <2>3, RefinesCaller DEF SendRequest, TypeOK
  <2>4. CASE ReceiveFuture(r)
    BY <2>4, RefinesCaller DEF ReceiveFuture, TypeOK
  <2> QED BY <1>1, <2>1, <2>2, <2>3, <2>4 DEF Call
<1>2. ASSUME NEW g \in Gens, InHandler(g) PROVE Goal
  <2>1. CASE InLoop(g) \/ InEnter(g)
    BY <2>1, RefinesQuiet DEF InLoop, InEnter
  <2>2. CASE InDeliver(g)
    BY <2>2, RefinesDeliver DEF Futures!FuturesNext
  <2>3. CASE InError(g)
    BY <2>3, RefinesQuiet DEF InError
  <2>4. CASE InDisconnect(g)
    BY <2>4, RefinesQuiet DEF InDisconnect
  <2>5. CASE InFinish(g)
    BY <2>5, <1>a DEF InFinish
  <2>6. CASE InIgnore(g)
    BY <2>6, RefinesQuiet DEF InIgnore
  <2>7. ASSUME NEW r \in Requests, InReply(g, r) PROVE Goal
    BY <2>7, RefinesReply DEF Futures!FuturesNext
  <2> QED BY <1>2, <2>1, <2>2, <2>3, <2>4, <2>5, <2>6, <2>7 DEF InHandler
<1>3. ASSUME NEW g \in Gens, OutHandler(g) PROVE Goal
  <2>1. CASE OutReceive(g)
    BY <2>1, RefinesQuiet DEF OutReceive
  <2>2. CASE OutQuit(g)
    BY <2>2, RefinesQuiet DEF OutQuit
  <2>3. CASE OutWrite(g)
    BY <2>3, RefinesQuiet DEF OutWrite
  <2>4. CASE OutDisconnect(g)
    BY <2>4, RefinesQuiet DEF OutDisconnect
  <2>5. CASE OutFinish(g)
    BY <2>5, <1>a DEF OutFinish
  <2>6. CASE OutDrain(g)
    BY <2>6, RefinesQuiet DEF OutDrain
  <2> QED BY <1>3, <2>1, <2>2, <2>3, <2>4, <2>5, <2>6 DEF OutHandler
<1>4. ASSUME NEW g \in Gens, Resend(g) PROVE Goal
  <2>1. CASE ResendCopy(g)
    BY <2>1, RefinesResendCopy DEF Futures!FuturesNext
  <2>2. CASE ResendCheck(g)
    BY <2>2, RefinesQuiet DEF ResendCheck
  <2>3. CASE ResendSend(g)
    BY <2>3, RefinesQuiet DEF ResendSend
  <2> QED BY <1>4, <2>1, <2>2, <2>3 DEF Resend
<1>5. ASSUME NEW g \in Gens, NetworkFail(g) PROVE Goal
  BY <1>5, RefinesQuiet DEF NetworkFail
<1>6. ASSUME Reconnect PROVE Goal
  <2>1. CASE ReconnWait
    BY <2>1, RefinesQuiet DEF ReconnWait
  <2>2. CASE ReconnCheck
    BY <2>2, RefinesQuiet DEF ReconnCheck
  <2>3. CASE ReconnDialFail
    BY <2>3, RefinesQuiet DEF ReconnDialFail
  <2>4. CASE ReconnDial
    BY <2>4, RefinesQuiet DEF ReconnDial
  <2>5. CASE ReconnAssign
    BY <2>5, RefinesQuiet DEF ReconnAssign
  <2>6. CASE ReconnReset
    BY <2>6, RefinesQuiet DEF ReconnReset
  <2> QED BY <1>6, <2>1, <2>2, <2>3, <2>4, <2>5, <2>6 DEF Reconnect
<1>7. ASSUME UserOps PROVE Goal
  <2>1. CASE Disconnect
    BY <2>1, RefinesQuiet DEF Disconnect
  <2>2. CASE DisconnectFinish
    BY <2>2, <1>a DEF DisconnectFinish
  <2>3. CASE Shutdown
    BY <2>3, RefinesClose DEF Shutdown, Futures!FuturesNext
  <2>4. CASE ShutdownFinish
    BY <2>4, RefinesQuiet DEF ShutdownFinish
  <2>5. CASE Connect
    BY <2>5, RefinesQuiet DEF Connect
  <2>6. CASE ConnectFail
    BY <2>6, RefinesQuiet DEF ConnectFail
  <2>7. CASE ConnectEstablish
    BY <2>7, RefinesQuiet DEF ConnectEstablish
  <2> QED BY <1>7, <2>1, <2>2, <2>3, <2>4, <2>5, <2>6, <2>7 DEF UserOps
<1>8. CASE UNCHANGED vars
  BY <1>8, RefinesQuiet DEF vars
<1> QED BY <1>1, <1>2, <1>3, <1>4, <1>5, <1>6, <1>7, <1>8 DEF Next

(* The client keeps the whole promise of RequestFutures, whatever is lost, resent
   or forgotten on the way. *)
THEOREM ClientImplementsFutures == Spec => ImplementsFutures
<1>1. Init => Futures!FuturesInit
  BY RefinesInit
<1>2. TypeOK /\ StructInv /\ FutureInv /\ [Next]_vars => [Futures!FuturesNext]_(Futures!fvars)
  BY RefinesNext
<1> QED BY <1>1, <1>2, FutureInvariant, PTL DEF Spec, ImplementsFutures, Futures!FuturesSpec
=============================================================================
