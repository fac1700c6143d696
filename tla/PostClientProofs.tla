--------------------------- MODULE PostClientProofs ---------------------------
(***************************************************************************)
(* Proofs about PostClient for any number of callers and any capacity of   *)
(* its queue: every variable keeps its type, and each future is answered   *)
(* once, a refused one at most twice.                                      *)
(***************************************************************************)
EXTENDS PostClient, SequenceTheorems, TLAPS

(* The handler cleans up only after a shutdown, and holds a request exactly
   while it works on it. *)
HandlerInv ==
  /\ handlerPc \in {"drain", "answer", "done"} => shutdown
  /\ IF handlerPc \in {"post", "answer"} THEN \E r \in Requests : details = {r}
     ELSE details = {}

(* Where a request is: first only with its caller, then in one place of the queue or
   with the handler, and after that answered.  One that was refused has an answer
   before it is queued and gets a second one. *)
Pending(r) == r \in details \/ Queued(r)
Refused(r) == shutdown /\ resp[r] = <<"ErrClientShutdown">>
Answered(r) ==
  \/ Len(resp[r]) = 1
  \/ shutdown /\ Len(resp[r]) = 2 /\ resp[r][1] = "ErrClientShutdown"
NoneTwice == \A i, j \in 1..Len(sendPostChan) : sendPostChan[i] = sendPostChan[j] => i = j
CallInv(r) ==
  /\ ~(r \in details /\ Queued(r))
  /\ callPc[r] \in {"idle", "check"} => ~Pending(r) /\ resp[r] = <<>>
  /\ callPc[r] = "enqueue" => ~Pending(r) /\ (resp[r] = <<>> \/ Refused(r))
  /\ Pending(r) => resp[r] = <<>> \/ Refused(r)
  /\ callPc[r] \in {"wait", "returned"} /\ ~Pending(r) => Answered(r)
  /\ callPc[r] = "returned" => resp[r] # <<>>
PlacesInv == NoneTwice /\ \A r \in Requests : CallInv(r)

PostInv == PostTypeOK /\ HandlerInv /\ PlacesInv

-----------------------------------------------------------------------------
(* Membership and uniqueness in a queue, as sends and receives change it. *)
Member(x, s) == \E i \in 1..Len(s) : s[i] = x
Distinct(s)  == \A i, j \in 1..Len(s) : s[i] = s[j] => i = j

LEMMA SendMembers ==
  ASSUME NEW S, NEW s \in Seq(S), NEW e \in S
  PROVE  /\ Append(s, e) \in Seq(S) /\ Len(Append(s, e)) = Len(s) + 1
         /\ \A x : Member(x, Append(s, e)) <=> Member(x, s) \/ x = e
         /\ Distinct(s) /\ ~Member(e, s) => Distinct(Append(s, e))
<1>1. /\ Len(s) \in Nat
      /\ Append(s, e) \in Seq(S) /\ Len(Append(s, e)) = Len(s) + 1
      /\ \A i \in 1..Len(s) : Append(s, e)[i] = s[i]
      /\ Append(s, e)[Len(s) + 1] = e
  OBVIOUS
<1>2. 1..(Len(s) + 1) = 1..Len(s) \cup {Len(s) + 1}
  BY <1>1
<1>3. \A x : Member(x, Append(s, e)) <=> Member(x, s) \/ x = e
  BY <1>1, <1>2 DEF Member
<1>4. Distinct(s) /\ ~Member(e, s) => Distinct(Append(s, e))
  BY <1>1, <1>2 DEF Member, Distinct
<1> QED BY <1>1, <1>3, <1>4

LEMMA ReceiveMembers ==
  ASSUME NEW S, NEW s \in Seq(S), s # <<>>
  PROVE  /\ Head(s) \in S /\ Tail(s) \in Seq(S) /\ Len(Tail(s)) = Len(s) - 1
         /\ \A x : Member(x, s) <=> Member(x, Tail(s)) \/ x = Head(s)
         /\ Distinct(s) => Distinct(Tail(s)) /\ ~Member(Head(s), Tail(s))
<1>1. /\ Len(s) \in Nat \ {0} /\ Head(s) = s[1] /\ Head(s) \in S
      /\ Tail(s) \in Seq(S) /\ Len(Tail(s)) = Len(s) - 1
      /\ \A i \in 1..(Len(s) - 1) : Tail(s)[i] = s[i + 1]
  OBVIOUS
<1>2. /\ \A i \in 1..(Len(s) - 1) : i + 1 \in 1..Len(s) /\ i + 1 # 1
      /\ \A i \in 1..Len(s) : i # 1 => i - 1 \in 1..(Len(s) - 1) /\ (i - 1) + 1 = i
      /\ 1 \in 1..Len(s)
  BY <1>1
<1>3. \A x : Member(x, s) <=> Member(x, Tail(s)) \/ x = Head(s)
  <2>1. ASSUME NEW x, Member(x, s) PROVE Member(x, Tail(s)) \/ x = Head(s)
    <3>1. PICK i \in 1..Len(s) : s[i] = x
      BY <2>1 DEF Member
    <3>2. CASE i = 1
      BY <1>1, <3>1, <3>2
    <3>3. CASE i # 1
      <4>1. i - 1 \in 1..Len(Tail(s)) /\ Tail(s)[i - 1] = x
        BY <1>1, <1>2, <3>1, <3>3
      <4> QED BY <4>1 DEF Member
    <3> QED BY <3>2, <3>3
  <2>2. ASSUME NEW x, Member(x, Tail(s)) \/ x = Head(s) PROVE Member(x, s)
    BY <1>1, <1>2, <2>2 DEF Member
  <2> QED BY <2>1, <2>2
<1>4. ASSUME Distinct(s) PROVE Distinct(Tail(s)) /\ ~Member(Head(s), Tail(s))
  BY <1>1, <1>2, <1>4 DEF Member, Distinct
<1> QED BY <1>1, <1>3, <1>4

(* A response is sent only when none is waiting to be received. *)
LEMMA RespondResult ==
  ASSUME PostTypeOK, NEW r \in Requests, NEW outcome \in Outcomes, Respond(r, outcome)
  PROVE  /\ resp' \in [Requests -> Seq(Outcomes)]
         /\ resp'[r] = Append(resp[r], outcome) /\ resp'[r] # <<>>
         /\ \A q \in Requests \ {r} : resp'[q] = resp[q]
  BY DEF PostTypeOK, Respond

(* The first answer, and the one after a refusal. *)
LEMMA AnswerAppended ==
  ASSUME NEW S, NEW s \in Seq(S), NEW e \in S, NEW f \in S
  PROVE  /\ s = <<>> => Append(s, e) = <<e>> /\ Len(Append(s, e)) = 1
         /\ s = <<f>> => Len(Append(s, e)) = 2 /\ Append(s, e)[1] = f
<1>1. ASSUME s = <<>> PROVE Append(s, e) = <<e>>
  BY <1>1
<1>2. Len(<<>>) = 0 /\ Len(<<e>>) = 1 /\ Len(<<f>>) = 1 /\ <<f>>[1] = f
  OBVIOUS
<1>3. ASSUME s = <<f>> PROVE Len(Append(s, e)) = 2 /\ Append(s, e)[1] = f
  <2>1. Len(s) = 1 /\ s[1] = f
    BY <1>2, <1>3
  <2>2. Len(Append(s, e)) = Len(s) + 1 /\ \A i \in 1..Len(s) : Append(s, e)[i] = s[i]
    OBVIOUS
  <2> QED BY <2>1, <2>2
<1> QED BY <1>1, <1>2, <1>3

-----------------------------------------------------------------------------
LEMMA PostInvInit == PostInit => PostInv
<1> SUFFICES ASSUME PostInit PROVE PostInv
  OBVIOUS
<1> USE DEF PostInit
<1>1. PostTypeOK
  <2>1. sendPostChan \in Seq(Requests) /\ Len(sendPostChan) <= SendPostCap
    BY PostConfigAssumption
  <2>2. resp \in [Requests -> Seq(Outcomes)] /\ callPc \in [Requests -> CallPcs]
    BY DEF CallPcs
  <2> QED BY <2>1, <2>2 DEF PostTypeOK, HandlerPcs
<1>2. HandlerInv
  BY DEF HandlerInv
<1>3. PlacesInv
  BY DEF PlacesInv, NoneTwice, CallInv, Pending, Queued
<1> QED BY <1>1, <1>2, <1>3 DEF PostInv

LEMMA PostTypeNext == PostTypeOK /\ [PostNext]_postVars => PostTypeOK'
<1> SUFFICES ASSUME PostTypeOK, [PostNext]_postVars PROVE PostTypeOK'
  OBVIOUS
<1> USE DEF PostTypeOK, HandlerPcs, CallPcs
<1>1. ASSUME NEW r \in Requests, Call(r) PROVE PostTypeOK'
  <2>1. CASE SendPost(r)
    BY <2>1, RespondResult DEF SendPost, Outcomes
  <2>2. CASE CheckShutdown(r)
    BY <2>2, RespondResult DEF CheckShutdown, Outcomes
  <2>3. CASE EnqueuePost(r)
    BY <2>3, SendMembers, PostConfigAssumption DEF EnqueuePost, Queue
  <2>4. CASE ReceiveFuture(r)
    BY <2>4 DEF ReceiveFuture
  <2> QED BY <1>1, <2>1, <2>2, <2>3, <2>4 DEF Call
<1>2. ASSUME Handler PROVE PostTypeOK'
  <2>1. CASE HandlerReceive
    BY <2>1, ReceiveMembers, PostConfigAssumption DEF HandlerReceive
  <2>2. CASE HandlePost
    BY <2>2, RespondResult DEF HandlePost, Outcomes
  <2>3. CASE HandlerQuit
    BY <2>3 DEF HandlerQuit
  <2>4. CASE HandlerDrain
    <3>1. CASE sendPostChan # <<>>
      <4>1. /\ details' = {Head(sendPostChan)} /\ sendPostChan' = Tail(sendPostChan)
            /\ handlerPc' = "answer" /\ UNCHANGED <<shutdown, callPc, resp>>
        BY <2>4, <3>1 DEF HandlerDrain
      <4> QED BY <3>1, <4>1, ReceiveMembers, PostConfigAssumption
    <3>2. CASE sendPostChan = <<>>
      BY <2>4, <3>2 DEF HandlerDrain
    <3> QED BY <3>1, <3>2
  <2>5. CASE HandlerAnswer
    BY <2>5, RespondResult DEF HandlerAnswer, Outcomes
  <2> QED BY <1>2, <2>1, <2>2, <2>3, <2>4, <2>5 DEF Handler
<1>3. CASE Shutdown
  BY <1>3 DEF Shutdown
<1>4. CASE UNCHANGED postVars
  BY <1>4 DEF postVars
<1> QED BY <1>1, <1>2, <1>3, <1>4 DEF PostNext

LEMMA HandlerInvNext == PostTypeOK /\ HandlerInv /\ [PostNext]_postVars => HandlerInv'
<1> SUFFICES ASSUME PostTypeOK, HandlerInv, [PostNext]_postVars PROVE HandlerInv'
  OBVIOUS
<1> USE DEF HandlerInv
<1>1. ASSUME NEW r \in Requests, Call(r) PROVE HandlerInv'
  BY <1>1 DEF Call, SendPost, CheckShutdown, EnqueuePost, ReceiveFuture
<1>2. ASSUME Handler PROVE HandlerInv'
  <2>1. CASE HandlerReceive
    BY <2>1, ReceiveMembers DEF HandlerReceive, PostTypeOK
  <2>2. CASE HandlePost
    BY <2>2 DEF HandlePost
  <2>3. CASE HandlerQuit
    BY <2>3 DEF HandlerQuit
  <2>4. CASE HandlerDrain
    BY <2>4, ReceiveMembers DEF HandlerDrain, PostTypeOK
  <2>5. CASE HandlerAnswer
    BY <2>5 DEF HandlerAnswer
  <2> QED BY <1>2, <2>1, <2>2, <2>3, <2>4, <2>5 DEF Handler
<1>3. CASE Shutdown
  BY <1>3 DEF Shutdown
<1>4. CASE UNCHANGED postVars
  BY <1>4 DEF postVars
<1> QED BY <1>1, <1>2, <1>3, <1>4 DEF PostNext

-----------------------------------------------------------------------------
(* Each step moves one request one place on. *)

LEMMA QueueFacts ==
  /\ NoneTwice <=> Distinct(sendPostChan)
  /\ \A r : Queued(r) <=> Member(r, sendPostChan)
  BY DEF NoneTwice, Distinct, Queued, Member

LEMMA CallStays ==
  ASSUME NEW q, CallInv(q), UNCHANGED <<sendPostChan, details, shutdown>>,
         callPc'[q] = callPc[q], resp'[q] = resp[q]
  PROVE  CallInv(q)'
  BY DEF CallInv, Pending, Queued, Refused, Answered

LEMMA PlacesCall ==
  ASSUME PostInv, NEW r \in Requests, Call(r)
  PROVE  PlacesInv'
<1>1. NoneTwice /\ \A q \in Requests : CallInv(q)
  BY DEF PostInv, PlacesInv
<1>2. details' = details /\ shutdown' = shutdown
  BY DEF Call, SendPost, CheckShutdown, EnqueuePost, ReceiveFuture
<1> USE DEF PostInv, PostTypeOK
<1>3. CASE SendPost(r)
  <2>1. /\ callPc[r] = "idle" /\ sendPostChan' = sendPostChan
        /\ \A q \in Requests \ {r} : callPc'[q] = callPc[q]
    BY <1>3 DEF SendPost
  <2>2. NoneTwice' /\ (Pending(r)' <=> Pending(r)) /\ (Queued(r)' <=> Queued(r))
    BY <1>1, <1>2, <2>1 DEF NoneTwice, Pending, Queued
  <2>3. \/ callPc'[r] = "check" /\ resp' = resp
        \/ callPc'[r] = "wait" /\ Respond(r, "error")
    BY <1>3 DEF SendPost
  <2>4. resp[r] = <<>> /\ ~Pending(r) /\ ~(r \in details /\ Queued(r))
    BY <1>1, <2>1 DEF CallInv
  <2>5. CallInv(r)'
    <3>1. CASE resp' = resp /\ callPc'[r] = "check"
      BY <1>2, <2>2, <2>4, <3>1, Zenon DEF CallInv
    <3>2. CASE callPc'[r] = "wait" /\ Respond(r, "error")
      <4>1. "error" \in Outcomes
        BY DEF Outcomes
      <4>2. Len(resp'[r]) = 1
        <5>1. resp[r] \in Seq(Outcomes) /\ resp'[r] = Append(resp[r], "error")
          BY <3>2, <4>1, RespondResult
        <5> QED BY <2>4, <4>1, <5>1, AnswerAppended
      <4> QED BY <1>2, <2>2, <2>4, <3>2, <4>2 DEF CallInv, Answered
    <3> QED BY <2>3, <3>1, <3>2
  <2>6. ASSUME NEW q \in Requests \ {r} PROVE CallInv(q)'
    <3>1. resp'[q] = resp[q]
      BY <2>3, RespondResult DEF Outcomes
    <3> QED BY <1>1, <1>2, <2>1, <3>1, CallStays
  <2> QED BY <2>2, <2>5, <2>6 DEF PlacesInv
<1>4. CASE CheckShutdown(r)
  <2>1. /\ callPc[r] = "check" /\ sendPostChan' = sendPostChan
        /\ callPc' = [callPc EXCEPT ![r] = "enqueue"]
        /\ IF shutdown THEN Respond(r, "ErrClientShutdown") ELSE resp' = resp
    BY <1>4 DEF CheckShutdown
  <2>2. NoneTwice' /\ (Pending(r)' <=> Pending(r)) /\ (Queued(r)' <=> Queued(r))
    BY <1>1, <1>2, <2>1 DEF NoneTwice, Pending, Queued
  <2>3. resp[r] = <<>> /\ ~Pending(r) /\ ~(r \in details /\ Queued(r))
    BY <1>1, <2>1 DEF CallInv
  <2>4. "ErrClientShutdown" \in Outcomes
    BY DEF Outcomes
  <2>5. resp'[r] = <<>> \/ Refused(r)'
    BY <1>2, <2>1, <2>3, <2>4, RespondResult, AnswerAppended DEF Refused
  <2>6. CallInv(r)'
    BY <1>2, <2>1, <2>2, <2>3, <2>5 DEF CallInv
  <2>7. ASSUME NEW q \in Requests \ {r} PROVE CallInv(q)'
    <3>1. resp'[q] = resp[q]
      BY <2>1, <2>4, RespondResult
    <3> QED BY <1>1, <1>2, <2>1, <3>1, CallStays
  <2> QED BY <2>2, <2>6, <2>7 DEF PlacesInv
<1>5. CASE EnqueuePost(r)
  <2>1. /\ callPc[r] = "enqueue" /\ resp' = resp
        /\ callPc' = [callPc EXCEPT ![r] = "wait"]
        /\ sendPostChan' = Append(sendPostChan, r)
    BY <1>5 DEF EnqueuePost, Queue
  <2>2. ~Queued(r) /\ r \notin details /\ (resp[r] = <<>> \/ Refused(r))
    BY <1>1, <2>1 DEF CallInv, Pending
  <2>3. /\ Distinct(sendPostChan')
        /\ \A q : Member(q, sendPostChan') <=> Member(q, sendPostChan) \/ q = r
    BY <1>1, <2>1, <2>2, QueueFacts, SendMembers
  <2>4. NoneTwice' /\ \A q : Queued(q)' <=> Queued(q) \/ q = r
    BY <2>3, QueueFacts DEF NoneTwice, Queued, Member, Distinct
  <2>5. CallInv(r)'
    BY <1>2, <2>1, <2>2, <2>4 DEF CallInv, Pending, Refused
  <2>6. ASSUME NEW q \in Requests \ {r} PROVE CallInv(q)'
    BY <1>1, <1>2, <2>1, <2>4 DEF CallInv, Pending, Refused, Answered
  <2> QED BY <2>4, <2>5, <2>6 DEF PlacesInv
<1>6. CASE ReceiveFuture(r)
  <2>1. /\ callPc[r] = "wait" /\ resp[r] # <<>> /\ UNCHANGED <<sendPostChan, resp>>
        /\ callPc' = [callPc EXCEPT ![r] = "returned"]
    BY <1>6 DEF ReceiveFuture
  <2> QED BY <1>1, <1>2, <2>1
          DEF PlacesInv, NoneTwice, CallInv, Pending, Queued, Refused, Answered
<1> QED BY <1>3, <1>4, <1>5, <1>6 DEF Call

(* The handler takes the next request. *)
Take ==
  /\ handlerPc \in {"loop", "drain"} /\ sendPostChan # <<>>
  /\ details' = {Head(sendPostChan)} /\ sendPostChan' = Tail(sendPostChan)
  /\ UNCHANGED <<shutdown, callPc, resp>>

LEMMA PlacesTake == ASSUME PostInv, Take PROVE PlacesInv'
<1> USE DEF PostInv, PostTypeOK
<1>1. NoneTwice /\ \A q \in Requests : CallInv(q)
  BY DEF PlacesInv
<1>2. PICK h \in Requests : sendPostChan # <<>> /\ h = Head(sendPostChan)
  BY ReceiveMembers DEF Take
<1>3. /\ details = {} /\ details' = {h}
      /\ sendPostChan' = Tail(sendPostChan) /\ UNCHANGED <<shutdown, callPc, resp>>
  BY <1>2 DEF Take, HandlerInv
<1>4. /\ Distinct(sendPostChan') /\ ~Member(h, sendPostChan')
      /\ \A q : Member(q, sendPostChan) <=> Member(q, sendPostChan') \/ q = h
  BY <1>1, <1>2, <1>3, QueueFacts, ReceiveMembers
<1>5. /\ NoneTwice' /\ ~Queued(h)'
      /\ \A q : Queued(q) <=> Queued(q)' \/ q = h
  BY <1>4, QueueFacts DEF NoneTwice, Queued, Member, Distinct
<1>6. \A q \in Requests : Pending(q)' <=> Pending(q)
  BY <1>3, <1>5 DEF Pending
<1>7. ASSUME NEW q \in Requests PROVE CallInv(q)'
  BY <1>1, <1>3, <1>5, <1>6 DEF CallInv, Refused, Answered
<1> QED BY <1>5, <1>7 DEF PlacesInv

(* The handler answers the request it has. *)
Answer ==
  /\ handlerPc \in {"post", "answer"}
  /\ \E r \in details, outcome \in Outcomes : Respond(r, outcome)
  /\ details' = {}
  /\ UNCHANGED <<shutdown, sendPostChan, callPc>>

LEMMA PlacesAnswer == ASSUME PostInv, Answer PROVE PlacesInv'
<1> USE DEF PostInv, PostTypeOK
<1>1. NoneTwice /\ \A q \in Requests : CallInv(q)
  BY DEF PlacesInv
<1>2. PICK r \in Requests : details = {r}
  BY DEF Answer, HandlerInv
<1>3. PICK outcome \in Outcomes : Respond(r, outcome)
  BY <1>2 DEF Answer
<1>4. details' = {} /\ UNCHANGED <<shutdown, sendPostChan, callPc>>
  BY DEF Answer
<1>5. /\ resp'[r] = Append(resp[r], outcome) /\ resp'[r] # <<>>
      /\ \A q \in Requests \ {r} : resp'[q] = resp[q]
  BY <1>3, RespondResult
<1>6. /\ callPc[r] \in {"wait", "returned"} /\ ~Queued(r)
      /\ resp[r] = <<>> \/ Refused(r)
  BY <1>1, <1>2 DEF CallInv, Pending, CallPcs
<1>7. Answered(r)'
  <2>1. resp[r] \in Seq(Outcomes) /\ "ErrClientShutdown" \in Outcomes
    BY DEF Outcomes
  <2>2. CASE resp[r] = <<>>
    <3>1. Len(Append(resp[r], outcome)) = 1
      BY <2>1, <2>2, AnswerAppended
    <3> QED BY <1>5, <3>1 DEF Answered
  <2>3. CASE Refused(r)
    <3>1. Len(Append(resp[r], outcome)) = 2 /\ Append(resp[r], outcome)[1] = "ErrClientShutdown"
      BY <2>1, <2>3, AnswerAppended DEF Refused
    <3> QED BY <1>4, <1>5, <2>3, <3>1 DEF Answered, Refused
  <2> QED BY <1>6, <2>2, <2>3
<1>8. \A q \in Requests \ {r} : Pending(q)' <=> Pending(q)
  BY <1>2, <1>4 DEF Pending, Queued
<1>9. NoneTwice' /\ ~Pending(r)' /\ \A q \in Requests : Queued(q)' <=> Queued(q)
  BY <1>1, <1>4, <1>6 DEF NoneTwice, Pending, Queued
<1>10. CallInv(r)'
  BY <1>4, <1>5, <1>6, <1>7, <1>9 DEF CallInv
<1>11. ASSUME NEW q \in Requests \ {r} PROVE CallInv(q)'
  BY <1>1, <1>2, <1>4, <1>5, <1>8, <1>9 DEF CallInv, Refused, Answered
<1> QED BY <1>9, <1>10, <1>11 DEF PlacesInv

(* The other steps move no request. *)
LEMMA PlacesStay ==
  ASSUME PostInv, UNCHANGED <<sendPostChan, details, callPc, resp>>,
         shutdown => shutdown'
  PROVE  PlacesInv'
  BY DEF PostInv, PlacesInv, NoneTwice, CallInv, Pending, Queued, Refused, Answered

LEMMA PlacesInvNext == PostInv /\ [PostNext]_postVars => PlacesInv'
<1> SUFFICES ASSUME PostInv, [PostNext]_postVars PROVE PlacesInv'
  OBVIOUS
<1>1. ASSUME NEW r \in Requests, Call(r) PROVE PlacesInv'
  BY <1>1, PlacesCall
<1>2. ASSUME Handler PROVE PlacesInv'
  <2>1. CASE HandlerReceive
    BY <2>1, PlacesTake DEF HandlerReceive, Take
  <2>2. CASE HandlePost
    <3>1. Answer
      BY <2>2 DEF HandlePost, Answer, Outcomes
    <3> QED BY <3>1, PlacesAnswer
  <2>3. CASE HandlerQuit
    BY <2>3, PlacesStay DEF HandlerQuit
  <2>4. CASE HandlerDrain
    <3>1. Take \/ UNCHANGED <<shutdown, sendPostChan, details, callPc, resp>>
      BY <2>4 DEF HandlerDrain, Take
    <3> QED BY <3>1, PlacesTake, PlacesStay
  <2>5. CASE HandlerAnswer
    <3>1. Answer
      BY <2>5 DEF HandlerAnswer, Answer, Outcomes
    <3> QED BY <3>1, PlacesAnswer
  <2> QED BY <1>2, <2>1, <2>2, <2>3, <2>4, <2>5 DEF Handler
<1>3. CASE Shutdown
  BY <1>3, PlacesStay DEF Shutdown
<1>4. CASE UNCHANGED postVars
  BY <1>4, PlacesStay DEF postVars
<1> QED BY <1>1, <1>2, <1>3, <1>4 DEF PostNext

LEMMA PostInvariant == PostSpec => []PostInv
<1>1. PostInv /\ [PostNext]_postVars => PostInv'
  BY PostTypeNext, HandlerInvNext, PlacesInvNext DEF PostInv
<1> QED BY <1>1, PostInvInit, PTL DEF PostSpec

(* Every variable of the POST client keeps its type; in particular the queue stays
   within its capacity. *)
THEOREM PostTypeCorrect == PostSpec => []PostTypeOK
<1>1. PostInv => PostTypeOK
  BY DEF PostInv
<1> QED BY <1>1, PostInvariant, PTL

(* However callers, sendPostHandler and a shutdown interleave, a future is answered
   once, or a second time after a refusal, and a caller waits without an answer only
   while its request is queued or with the handler. *)
THEOREM PostsAnsweredOnce == PostSpec => []AnsweredOnceUnlessRefused
<1>1. PostInv => AnsweredOnceUnlessRefused
  <2> SUFFICES ASSUME PostInv, NEW r \in Requests
      PROVE  /\ Len(resp[r]) <= 1 \/ (shutdown /\ Len(resp[r]) = 2
                                        /\ resp[r][1] = "ErrClientShutdown")
             /\ callPc[r] = "wait" =>
                  /\ resp[r] = <<>> => Pending(r)
                  /\ ~shutdown => (Owed(r) <=> resp[r] = <<>>)
    BY DEF AnsweredOnceUnlessRefused, Pending
  <2>1. CallInv(r) /\ callPc[r] \in CallPcs /\ (handlerPc = "done" => shutdown)
    BY DEF PostInv, PlacesInv, PostTypeOK, HandlerInv
  <2>2. resp[r] = <<>> => Len(resp[r]) = 0
    OBVIOUS
  <2>3. Refused(r) => Len(resp[r]) = 1
    BY DEF Refused
  <2>4. resp[r] = <<>> \/ Refused(r) \/ Answered(r)
    BY <2>1 DEF CallInv, CallPcs
  <2>5. /\ Pending(r) => resp[r] = <<>> \/ Refused(r)
        /\ callPc[r] = "wait" /\ ~Pending(r) => Len(resp[r]) # 0
    BY <2>1 DEF CallInv, Answered
  <2>6. ~shutdown => (Owed(r) <=> Pending(r)) /\ ~Refused(r)
    BY <2>1 DEF Owed, Pending, Refused
  <2>7. Len(resp[r]) <= 1 \/ (shutdown /\ Len(resp[r]) = 2
                               /\ resp[r][1] = "ErrClientShutdown")
    <3>1. \A n \in {0, 1} : n <= 1
      OBVIOUS
    <3>2. Answered(r) => Len(resp[r]) = 1 \/ (shutdown /\ Len(resp[r]) = 2
                                              /\ resp[r][1] = "ErrClientShutdown")
      BY DEF Answered
    <3> QED BY <2>2, <2>3, <2>4, <3>1, <3>2
  <2>8. resp[r] = <<>> => ~Refused(r)
    BY <2>2, <2>3
  <2> QED BY <2>2, <2>5, <2>6, <2>7, <2>8
<1> QED BY <1>1, PostInvariant, PTL
=============================================================================
