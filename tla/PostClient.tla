----------------------------- MODULE PostClient -----------------------------
(***************************************************************************)
(* rpclient.Client in HTTP POST mode (rpclient/infrastructure.go): callers *)
(* queue their requests on sendPostChan, and one goroutine, sendPostHandler, *)
(* posts them one after the other and answers each on its responseChan,    *)
(* which has room for one response and is read once.                       *)
(*                                                                         *)
(* The table of outstanding requests is not used in this mode and          *)
(* Disconnect has no effect, so Shutdown is one step: it closes c.shutdown *)
(* and finds no pending request to answer.                                 *)
(***************************************************************************)
EXTENDS Naturals, Sequences, FiniteSets

CONSTANTS
  Requests,    \* the commands callers issue
  SendPostCap  \* sendPostBufferSize

ASSUME PostConfigAssumption == SendPostCap \in Nat \ {0}

VARIABLES
  shutdown,     \* c.shutdown has been closed
  sendPostChan, \* c.sendPostChan
  handlerPc,    \* sendPostHandler
  details,      \* the request it has taken, if any
  callPc,       \* sendCmd in POST mode, followed by receiveFuture
  resp          \* everything ever sent on each responseChan

postVars == <<shutdown, sendPostChan, handlerPc, details, callPc, resp>>

HandlerPcs == {"loop", "post", "drain", "answer", "done"}
CallPcs    == {"idle", "check", "enqueue", "wait", "returned"}
Outcomes   == {"reply", "error", "ErrClientShutdown"}

PostTypeOK ==
  /\ shutdown \in BOOLEAN
  /\ sendPostChan \in Seq(Requests) /\ Len(sendPostChan) <= SendPostCap
  /\ handlerPc \in HandlerPcs
  /\ details \in SUBSET Requests
  /\ callPc \in [Requests -> CallPcs]
  /\ resp \in [Requests -> Seq(Outcomes)]
-----------------------------------------------------------------------------
(* responseChan <- &response{...} waits for room: what was sent and not yet
   received is at most one response. *)
Unread(r) == Len(resp[r]) - (IF callPc[r] = "returned" THEN 1 ELSE 0)
Respond(r, outcome) ==
  /\ Unread(r) < 1
  /\ resp' = [resp EXCEPT ![r] = Append(@, outcome)]

(* c.sendPostChan <- &sendPostDetails{...}, which waits for room.  The mutants
   do not wait, or drop the request when there is none. *)
QueueUnbounded(r) == sendPostChan' = Append(sendPostChan, r)
QueueIfRoom(r) ==
  sendPostChan' = IF Len(sendPostChan) < SendPostCap
                  THEN Append(sendPostChan, r) ELSE sendPostChan
Queue(r) ==
  /\ Len(sendPostChan) < SendPostCap
  /\ sendPostChan' = Append(sendPostChan, r)

-----------------------------------------------------------------------------
(* sendPost up to sendPostRequest: the HTTP request may fail to be built. *)
SendPost(r) ==
  /\ callPc[r] = "idle"
  /\ \/ /\ callPc' = [callPc EXCEPT ![r] = "check"]
        /\ UNCHANGED resp
     \/ /\ Respond(r, "error")
        /\ callPc' = [callPc EXCEPT ![r] = "wait"]
  /\ UNCHANGED <<shutdown, sendPostChan, handlerPc, details>>

(* sendPostRequest looks at c.shutdown and answers; it does not return then. *)
CheckShutdown(r) ==
  /\ callPc[r] = "check"
  /\ IF shutdown THEN Respond(r, "ErrClientShutdown") ELSE UNCHANGED resp
  /\ callPc' = [callPc EXCEPT ![r] = "enqueue"]
  /\ UNCHANGED <<shutdown, sendPostChan, handlerPc, details>>

EnqueuePost(r) ==
  /\ callPc[r] = "enqueue"
  /\ Queue(r)
  /\ callPc' = [callPc EXCEPT ![r] = "wait"]
  /\ UNCHANGED <<shutdown, handlerPc, details, resp>>

ReceiveFuture(r) ==
  /\ callPc[r] = "wait"
  /\ resp[r] # <<>>
  /\ callPc' = [callPc EXCEPT ![r] = "returned"]
  /\ UNCHANGED <<shutdown, sendPostChan, handlerPc, details, resp>>

-----------------------------------------------------------------------------
(* sendPostHandler *)

HandlerReceive ==
  /\ handlerPc = "loop"
  /\ sendPostChan # <<>>
  /\ details' = {Head(sendPostChan)}
  /\ sendPostChan' = Tail(sendPostChan)
  /\ handlerPc' = "post"
  /\ UNCHANGED <<shutdown, callPc, resp>>

(* handleSendPostMessage: the result, or the error of the POST, of reading its
   body or of unmarshalling it. *)
HandlePost ==
  /\ handlerPc = "post"
  /\ \E r \in details, outcome \in {"reply", "error"} : Respond(r, outcome)
  /\ details' = {}
  /\ handlerPc' = "loop"
  /\ UNCHANGED <<shutdown, sendPostChan, callPc>>

HandlerQuit ==
  /\ handlerPc = "loop"
  /\ shutdown
  /\ handlerPc' = "drain"
  /\ UNCHANGED <<shutdown, sendPostChan, details, callPc, resp>>

(* The cleanup loop takes a request and answers it, or finds none and ends.  The
   mutant lacks the default case. *)
DrainWaits ==
  /\ handlerPc = "drain"
  /\ sendPostChan # <<>>
  /\ details' = {Head(sendPostChan)}
  /\ sendPostChan' = Tail(sendPostChan)
  /\ handlerPc' = "answer"
  /\ UNCHANGED <<shutdown, callPc, resp>>
HandlerDrain ==
  /\ handlerPc = "drain"
  /\ \/ /\ sendPostChan # <<>>
        /\ details' = {Head(sendPostChan)}
        /\ sendPostChan' = Tail(sendPostChan)
        /\ handlerPc' = "answer"
     \/ /\ sendPostChan = <<>>
        /\ handlerPc' = "done"
        /\ UNCHANGED <<details, sendPostChan>>
  /\ UNCHANGED <<shutdown, callPc, resp>>

HandlerAnswer ==
  /\ handlerPc = "answer"
  /\ \E r \in details : Respond(r, "ErrClientShutdown")
  /\ details' = {}
  /\ handlerPc' = "drain"
  /\ UNCHANGED <<shutdown, sendPostChan, callPc>>

Shutdown ==
  /\ ~shutdown
  /\ shutdown' = TRUE
  /\ UNCHANGED <<sendPostChan, handlerPc, details, callPc, resp>>

-----------------------------------------------------------------------------
(* New, which starts sendPostHandler. *)
PostInit ==
  /\ shutdown = FALSE
  /\ sendPostChan = <<>>
  /\ handlerPc = "loop"
  /\ details = {}
  /\ callPc = [r \in Requests |-> "idle"]
  /\ resp = [r \in Requests |-> <<>>]

Call(r) == SendPost(r) \/ CheckShutdown(r) \/ EnqueuePost(r) \/ ReceiveFuture(r)
Handler == HandlerReceive \/ HandlePost \/ HandlerQuit \/ HandlerDrain \/ HandlerAnswer

PostNext == (\E r \in Requests : Call(r)) \/ Handler \/ Shutdown

PostSpec == PostInit /\ [][PostNext]_postVars

-----------------------------------------------------------------------------
(* Properties. *)

Queued(r) == \E i \in 1..Len(sendPostChan) : sendPostChan[i] = r
Owed(r) == r \in details \/ (Queued(r) /\ handlerPc # "done")

(* Until the client shuts down, every future is answered exactly once: a caller
   that waits is owed a response it has not been sent, or has been sent one it is
   no longer owed.  After that a caller without an answer still has its request
   in the queue or in the handler's hands, and only a request that was refused,
   which is queued all the same, is answered a second time. *)
AnsweredOnceUnlessRefused ==
  \A r \in Requests :
    /\ Len(resp[r]) <= 1 \/ (shutdown /\ Len(resp[r]) = 2
                               /\ resp[r][1] = "ErrClientShutdown")
    /\ callPc[r] = "wait" =>
         /\ resp[r] = <<>> => r \in details \/ Queued(r)
         /\ ~shutdown => (Owed(r) <=> resp[r] = <<>>)

(* "Any outstanding futures when a client shutdown occurs will return this error
   as will any new requests": no caller waits for an answer nobody will give. *)
NoOrphanedPost ==
  \A r \in Requests : callPc[r] = "wait" => Owed(r) \/ resp[r] # <<>>

(* Fairness: the goroutine runs and callers that issued a command wait for its
   future.  Nothing is assumed of the length of an HTTP exchange. *)
PostFairness ==
  /\ WF_postVars(HandlerReceive \/ HandlerQuit \/ HandlerDrain \/ HandlerAnswer)
  /\ \A r \in Requests : WF_postVars(Call(r) /\ callPc[r] # "idle")

PostFairSpec == PostSpec /\ PostFairness

(* Shutdown stops the goroutine, so that WaitForShutdown returns, unless an HTTP
   exchange never ends: neither a response it left unread on a channel nor a
   caller that keeps queueing holds the cleanup loop up for good. *)
ShutdownStopsHandler ==
  []<>(handlerPc # "post") => (shutdown ~> handlerPc = "done")
=============================================================================
