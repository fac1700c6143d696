---------------------------- MODULE QueueHandler ----------------------------
(***************************************************************************)
(* queueHandler of rpcwebsocket.go: a goroutine between two channels that  *)
(* takes from in whatever is offered and hands the oldest item it holds to *)
(* out.  A nil channel in a select is a case that is never chosen: the     *)
(* code switches dequeue and skipQueue between out and nil.                *)
(*                                                                         *)
(* Both channels are unbuffered here, so that an item is taken when a      *)
(* sender waits and handed over when the reader waits.  The item read from *)
(* in is held between the two selects, where the reader may arrive.        *)
(***************************************************************************)
EXTENDS Naturals, Sequences

CONSTANTS
  Items,    \* what is sent
  MaxItems  \* bound on the number of items sent

ASSUME QueueAssumption == MaxItems \in Nat

VARIABLES
  queuePc,    \* the goroutine: at the select, at the inner select, or gone
  q,          \* the slice
  dequeue,    \* dequeue is out (and not nil)
  skipQueue,  \* skipQueue is out (and not nil)
  next,       \* next, as a sequence of at most one item (nil at first)
  held,       \* n, the item just read from in
  offer,      \* the item of a sender blocked on in
  reading,    \* the reader is blocked on out
  inClosed,   \* in has been closed
  quit,       \* quit has been closed
  accepted,   \* everything read from in
  delivered   \* everything sent to out

sliceVars == <<q, dequeue, skipQueue, next>>
envVars   == <<offer, reading, inClosed, quit>>
queueVars == <<queuePc, sliceVars, held, envVars, accepted, delivered>>

Optional == {<<>>} \cup {<<item>> : item \in Items}

QueueTypeOK ==
  /\ queuePc \in {"select", "try", "closed"}
  /\ q \in Seq(Items)
  /\ dequeue \in BOOLEAN /\ skipQueue \in BOOLEAN
  /\ next \in Optional /\ held \in Optional /\ offer \in Optional
  /\ reading \in BOOLEAN /\ inClosed \in BOOLEAN /\ quit \in BOOLEAN
  /\ accepted \in Seq(Items) /\ delivered \in Seq(Items)
-----------------------------------------------------------------------------
(* The goroutine. *)

(* case n, ok := <-in, with a sender. *)
Receive ==
  /\ queuePc = "select"
  /\ offer # <<>>
  /\ held' = offer
  /\ offer' = <<>>
  /\ accepted' = accepted \o offer
  /\ queuePc' = "try"
  /\ UNCHANGED <<sliceVars, reading, inClosed, quit, delivered>>

(* case skipQueue <- n: nothing is queued and the reader is ready. *)
PassOn ==
  /\ skipQueue /\ reading
  /\ delivered' = delivered \o held
  /\ reading' = FALSE
  /\ UNCHANGED sliceVars

(* The default case.  The mutants forget skipQueue = nil, and dequeue = out. *)
EnqueueKept ==
  /\ q' = q \o held
  /\ skipQueue' = FALSE
  /\ next' = <<Head(q')>>
  /\ UNCHANGED <<dequeue, reading, delivered>>
EnqueueOnly ==
  /\ q' = q \o held
  /\ dequeue' = TRUE
  /\ next' = <<Head(q')>>
  /\ UNCHANGED <<skipQueue, reading, delivered>>
EnqueueItem ==
  /\ q' = q \o held
  /\ dequeue' = TRUE
  /\ skipQueue' = FALSE
  /\ next' = <<Head(q')>>
  /\ UNCHANGED <<reading, delivered>>

(* The inner select.  The mutant has no default case while nothing is queued. *)
TrySendWaits ==
  /\ queuePc = "try"
  /\ PassOn \/ (~skipQueue /\ EnqueueItem)
  /\ held' = <<>>
  /\ queuePc' = "select"
  /\ UNCHANGED <<offer, inClosed, quit, accepted>>
TrySend ==
  /\ queuePc = "try"
  /\ PassOn \/ (~(skipQueue /\ reading) /\ EnqueueItem)
  /\ held' = <<>>
  /\ queuePc' = "select"
  /\ UNCHANGED <<offer, inClosed, quit, accepted>>

(* case dequeue <- next. *)
Dequeue ==
  /\ queuePc = "select"
  /\ dequeue /\ reading
  /\ delivered' = delivered \o next
  /\ reading' = FALSE
  /\ q' = Tail(q)
  /\ dequeue' = (Len(q) > 1)
  /\ skipQueue' = (Len(q) = 1)
  /\ next' = IF Len(q) > 1 THEN <<Head(q')>> ELSE next
  /\ UNCHANGED <<queuePc, held, offer, inClosed, quit, accepted>>

(* in or quit has been closed: close(out) without sending the rest. *)
Leave ==
  /\ queuePc = "select"
  /\ (inClosed /\ offer = <<>>) \/ quit
  /\ queuePc' = "closed"
  /\ UNCHANGED <<sliceVars, held, envVars, accepted, delivered>>

-----------------------------------------------------------------------------
(* Its callers: senders, who close in when they are done, the reader, and the
   owner of quit. *)
Offer ==
  /\ offer = <<>> /\ ~inClosed
  /\ Len(accepted) < MaxItems
  /\ \E item \in Items : offer' = <<item>>
  /\ UNCHANGED <<queuePc, sliceVars, held, reading, inClosed, quit, accepted, delivered>>

Read ==
  /\ ~reading
  /\ reading' = TRUE
  /\ UNCHANGED <<queuePc, sliceVars, held, offer, inClosed, quit, accepted, delivered>>

CloseIn ==
  /\ offer = <<>> /\ ~inClosed
  /\ inClosed' = TRUE
  /\ UNCHANGED <<queuePc, sliceVars, held, offer, reading, quit, accepted, delivered>>

CloseQuit ==
  /\ ~quit
  /\ quit' = TRUE
  /\ UNCHANGED <<queuePc, sliceVars, held, offer, reading, inClosed, accepted, delivered>>

-----------------------------------------------------------------------------
QueueInit ==
  /\ queuePc = "select"
  /\ q = <<>>
  /\ dequeue = FALSE /\ skipQueue = TRUE
  /\ next = <<>> /\ held = <<>> /\ offer = <<>>
  /\ reading = FALSE /\ inClosed = FALSE /\ quit = FALSE
  /\ accepted = <<>> /\ delivered = <<>>

QueueStep == Receive \/ TrySend \/ Dequeue \/ Leave
QueueNext == QueueStep \/ Offer \/ Read \/ CloseIn \/ CloseQuit

QueueSpec == QueueInit /\ [][QueueNext]_queueVars

-----------------------------------------------------------------------------
(* Properties. *)

(* What was read from in and not yet sent to out is in the slice and in the
   goroutine's hand, in order, and what the select offers is its oldest item:
   the four variables that say so never contradict each other. *)
NothingOvertakes ==
  /\ accepted = delivered \o q \o held
  /\ dequeue <=> q # <<>>
  /\ skipQueue <=> q = <<>>
  /\ dequeue => next = <<Head(q)>>

(* "sending the oldest unsent to out", "without waiting to send any variables
   still remaining in the queue": a first-in first-out queue that may stop. *)
AbstractQueue == INSTANCE Fifo WITH stopped <- queuePc = "closed"
ImplementsFifo == AbstractQueue!FifoSpec

(* Fairness: the goroutine runs.  Nothing is assumed of its callers. *)
QueueFairness == WF_queueVars(QueueStep)

(* A sender is never held up by a reader that does not read ("to ensure sending
   notifications from other subsystems can't block"), as long as the goroutine
   has not been told to stop. *)
SendersNeverBlock == (offer # <<>>) ~> (offer = <<>> \/ quit)

(* A reader that waits gets what is queued. *)
ReaderIsServed == (reading /\ q # <<>>) ~> (~reading \/ quit \/ inClosed)
=============================================================================
