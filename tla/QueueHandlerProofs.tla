-------------------------- MODULE QueueHandlerProofs --------------------------
(***************************************************************************)
(* Proofs about QueueHandler for any items and any number of them: the     *)
(* four variables that say what is queued never contradict each other, so  *)
(* that nothing is lost, doubled or overtaken, and the goroutine is the    *)
(* first-in first-out queue of Fifo.                                       *)
(***************************************************************************)
EXTENDS QueueHandler, SequenceTheorems, TLAPS

(* What makes NothingOvertakes inductive: an item is in the goroutine's hand
   exactly between its two selects. *)
QueueInv ==
  /\ QueueTypeOK
  /\ NothingOvertakes
  /\ held # <<>> <=> queuePc = "try"

-----------------------------------------------------------------------------
(* Sequences of at most one item. *)
LEMMA OptionalIsSeq ==
  ASSUME NEW s \in Optional
  PROVE  /\ s \in Seq(Items)
         /\ s # <<>> => \E item \in Items : s = <<item>>
<1>1. CASE s = <<>>
  BY <1>1
<1>2. CASE s # <<>>
  <2>1. PICK item \in Items : s = <<item>>
    BY <1>2 DEF Optional
  <2> QED BY <2>1
<1> QED BY <1>1, <1>2

LEMMA OptionalMembers ==
  /\ <<>> \in Optional
  /\ \A item \in Items : <<item>> \in Optional
  BY Zenon DEF Optional

(* Handing over the head of a sequence leaves the concatenation as it was. *)
LEMMA HeadMoves ==
  ASSUME NEW s \in Seq(Items), NEW t \in Seq(Items), t # <<>>
  PROVE  (s \o <<Head(t)>>) \o Tail(t) = s \o t
<1>1. Head(t) \in Items /\ Tail(t) \in Seq(Items)
  OBVIOUS
<1>2. <<Head(t)>> \o Tail(t) = t
  OBVIOUS
<1>3. <<Head(t)>> \in Seq(Items)
  BY <1>1
<1> QED BY <1>1, <1>2, <1>3, ConcatAssociative

-----------------------------------------------------------------------------
LEMMA QueueInvInit == QueueInit => QueueInv
<1> SUFFICES ASSUME QueueInit PROVE QueueInv
  OBVIOUS
<1> USE DEF QueueInit
<1>1. QueueTypeOK
  <2>1. /\ q \in Seq(Items) /\ accepted \in Seq(Items) /\ delivered \in Seq(Items)
    OBVIOUS
  <2>2. dequeue \in BOOLEAN /\ skipQueue \in BOOLEAN
    BY Zenon
  <2> QED BY <2>1, <2>2, OptionalMembers DEF QueueTypeOK
<1>2. accepted = delivered \o q \o held
  OBVIOUS
<1>3. NothingOvertakes
  BY <1>2, Zenon DEF NothingOvertakes
<1> QED BY <1>1, <1>3 DEF QueueInv

LEMMA QueueReceive == ASSUME QueueInv, Receive PROVE QueueInv'
<1>1. /\ held = <<>> /\ offer \in Seq(Items) /\ q \in Seq(Items)
      /\ delivered \in Seq(Items) /\ accepted \in Seq(Items)
  BY OptionalIsSeq DEF Receive, QueueInv, QueueTypeOK
<1>2. /\ accepted' = accepted \o offer /\ held' = offer /\ offer' = <<>> /\ offer # <<>>
      /\ queuePc' = "try" /\ UNCHANGED <<sliceVars, reading, inClosed, quit, delivered>>
  BY DEF Receive
<1>3. accepted = delivered \o q
  BY <1>1 DEF QueueInv, NothingOvertakes
<1>4. NothingOvertakes'
  BY <1>1, <1>2, <1>3 DEF QueueInv, NothingOvertakes, sliceVars
<1>5. held' \in Optional /\ offer' \in Optional
  BY <1>2, OptionalMembers DEF QueueInv, QueueTypeOK
<1>6. accepted' \in Seq(Items)
  BY <1>1, <1>2
<1>7. QueueTypeOK'
  BY <1>2, <1>5, <1>6 DEF QueueInv, QueueTypeOK, sliceVars
<1> QED BY <1>2, <1>4, <1>7 DEF QueueInv

LEMMA QueuePassOn ==
  ASSUME QueueInv, queuePc = "try", PassOn, held' = <<>>, queuePc' = "select",
         UNCHANGED <<offer, inClosed, quit, accepted>>
  PROVE  QueueInv'
<1>1. /\ held \in Seq(Items) /\ q = <<>> /\ delivered \in Seq(Items)
  BY OptionalIsSeq DEF PassOn, QueueInv, QueueTypeOK, NothingOvertakes
<1>2. delivered' = delivered \o held /\ reading' = FALSE /\ UNCHANGED sliceVars
  BY DEF PassOn
<1>3. accepted = delivered \o held
  BY <1>1 DEF QueueInv, NothingOvertakes
<1>4. NothingOvertakes'
  BY <1>1, <1>2, <1>3 DEF QueueInv, NothingOvertakes, sliceVars
<1>5. delivered' \in Seq(Items)
  BY <1>1, <1>2
<1>6. QueueTypeOK'
  BY <1>2, <1>5, OptionalMembers DEF QueueInv, QueueTypeOK, sliceVars
<1> QED BY <1>4, <1>6 DEF QueueInv

LEMMA QueueEnqueue ==
  ASSUME QueueInv, queuePc = "try", EnqueueItem, held' = <<>>, queuePc' = "select",
         UNCHANGED <<offer, inClosed, quit, accepted>>
  PROVE  QueueInv'
<1>1. /\ q \in Seq(Items) /\ delivered \in Seq(Items)
      /\ \E item \in Items : held = <<item>>
  BY OptionalIsSeq DEF QueueInv, QueueTypeOK
<1>2. /\ q' = q \o held /\ dequeue' /\ ~skipQueue' /\ next' = <<Head(q')>>
      /\ UNCHANGED <<reading, delivered>>
  BY DEF EnqueueItem
<1>3. q' \in Seq(Items) /\ q' # <<>> /\ Head(q') \in Items
  BY <1>1, <1>2
<1>4. accepted = delivered \o q \o held
  BY DEF QueueInv, NothingOvertakes
<1>5. delivered \o q \o held = delivered \o q'
  BY <1>1, <1>2
<1>6. NothingOvertakes'
  BY <1>1, <1>2, <1>3, <1>4, <1>5 DEF NothingOvertakes
<1>7. QueueTypeOK'
  BY <1>2, <1>3, OptionalMembers DEF QueueInv, QueueTypeOK, EnqueueItem
<1> QED BY <1>6, <1>7 DEF QueueInv

LEMMA QueueDequeue == ASSUME QueueInv, Dequeue PROVE QueueInv'
<1>1. /\ q \in Seq(Items) /\ q # <<>> /\ delivered \in Seq(Items) /\ held = <<>>
      /\ next = <<Head(q)>> /\ accepted = delivered \o q
  BY DEF Dequeue, QueueInv, QueueTypeOK, NothingOvertakes
<1>2. /\ delivered' = delivered \o next /\ q' = Tail(q) /\ reading' = FALSE
      /\ dequeue' = (Len(q) > 1) /\ skipQueue' = (Len(q) = 1)
      /\ next' = IF Len(q) > 1 THEN <<Head(q')>> ELSE next
      /\ UNCHANGED <<queuePc, held, offer, inClosed, quit, accepted>>
  BY DEF Dequeue
<1>3. /\ Head(q) \in Items /\ q' \in Seq(Items) /\ Len(q) \in Nat /\ Len(q) >= 1
      /\ Len(q') = Len(q) - 1
  BY <1>1, <1>2
<1>4. accepted' = (delivered' \o q') \o held'
  <2>1. (delivered \o <<Head(q)>>) \o Tail(q) = delivered \o q
    BY <1>1, HeadMoves
  <2>2. delivered' \o q' \in Seq(Items)
    BY <1>1, <1>2, <1>3
  <2> QED BY <1>1, <1>2, <2>1, <2>2, ConcatEmptySeq
<1>7. dequeue' \in BOOLEAN /\ skipQueue' \in BOOLEAN
  <2>1. (Len(q) > 1) \in BOOLEAN /\ (Len(q) = 1) \in BOOLEAN
    BY <1>3
  <2> QED BY <1>2, <2>1, Zenon
<1>5. CASE Len(q) > 1
  <2>1. ~(Len(q) = 1) /\ q' # <<>> /\ Head(q') \in Items
    BY <1>3, <1>5
  <2>2. dequeue' /\ ~skipQueue' /\ next' = <<Head(q')>>
    BY <1>2, <1>5, <2>1, Zenon
  <2>3. NothingOvertakes'
    BY <1>4, <2>1, <2>2, Zenon DEF NothingOvertakes
  <2>4. delivered' \in Seq(Items) /\ next' \in Optional
    BY <1>1, <1>2, <1>3, <2>1, <2>2, OptionalMembers
  <2>5. QueueTypeOK'
    BY <1>2, <1>3, <1>7, <2>4 DEF QueueInv, QueueTypeOK
  <2> QED BY <1>1, <1>2, <2>3, <2>5 DEF QueueInv
<1>6. CASE Len(q) = 1
  <2>1. ~(Len(q) > 1) /\ q' = <<>>
    BY <1>3, <1>6
  <2>2. ~dequeue' /\ skipQueue' /\ next' = next
    BY <1>2, <1>6, <2>1, Zenon
  <2>3. NothingOvertakes'
    BY <1>4, <2>1, <2>2, Zenon DEF NothingOvertakes
  <2>4. delivered' \in Seq(Items) /\ next' \in Optional
    BY <1>1, <1>2, <1>3, <2>2 DEF QueueInv, QueueTypeOK
  <2>5. QueueTypeOK'
    BY <1>2, <1>3, <1>7, <2>4 DEF QueueInv, QueueTypeOK
  <2> QED BY <1>1, <1>2, <2>3, <2>5 DEF QueueInv
<1> QED BY <1>3, <1>5, <1>6

LEMMA QueueInvNext == QueueInv /\ [QueueNext]_queueVars => QueueInv'
<1> SUFFICES ASSUME QueueInv, [QueueNext]_queueVars PROVE QueueInv'
  OBVIOUS
<1> USE DEF QueueInv, QueueTypeOK, NothingOvertakes, sliceVars, envVars
<1>1. CASE Receive
  BY <1>1, QueueReceive
<1>2. CASE TrySend
  BY <1>2, QueuePassOn, QueueEnqueue DEF TrySend
<1>3. CASE Dequeue
  BY <1>3, QueueDequeue
<1>4. CASE Leave
  BY <1>4 DEF Leave
<1>5. CASE Offer
  BY <1>5, OptionalMembers DEF Offer
<1>6. CASE Read
  BY <1>6 DEF Read
<1>7. CASE CloseIn
  BY <1>7 DEF CloseIn
<1>8. CASE CloseQuit
  BY <1>8 DEF CloseQuit
<1>9. CASE UNCHANGED queueVars
  BY <1>9 DEF queueVars
<1> QED BY <1>1, <1>2, <1>3, <1>4, <1>5, <1>6, <1>7, <1>8, <1>9 DEF QueueNext, QueueStep

LEMMA QueueInvariant == QueueSpec => []QueueInv
  BY QueueInvInit, QueueInvNext, PTL DEF QueueSpec

(* The slice, the two switches and the item on offer agree with what was taken
   in and what was handed out, for any items and any length of the queue. *)
THEOREM NothingIsOvertaken == QueueSpec => []NothingOvertakes
<1>1. QueueInv => NothingOvertakes
  BY DEF QueueInv
<1> QED BY <1>1, QueueInvariant, PTL

-----------------------------------------------------------------------------
(* The refinement: what each step is to Fifo. *)

LEMMA RefinesReceive ==
  ASSUME QueueInv, Receive
  PROVE  AbstractQueue!Accept
<1>1. \E item \in Items : offer = <<item>>
  BY OptionalIsSeq DEF Receive, QueueInv, QueueTypeOK
<1>2. accepted \in Seq(Items)
  BY DEF QueueInv, QueueTypeOK
<1>3. \A item \in Items : accepted \o <<item>> = Append(accepted, item)
  BY <1>2
<1>4. /\ accepted' = accepted \o offer /\ UNCHANGED delivered
      /\ queuePc # "closed" /\ queuePc' # "closed"
  BY DEF Receive
<1> QED BY <1>1, <1>3, <1>4 DEF AbstractQueue!Accept

(* An item handed over is the next one of those accepted, wherever it was held. *)
LEMMA RefinesDelivery ==
  ASSUME QueueInv, NEW item \in Items, NEW rest \in Seq(Items),
         accepted = (delivered \o <<item>>) \o rest,
         delivered' = delivered \o <<item>>,
         queuePc # "closed", queuePc' # "closed", UNCHANGED accepted
  PROVE  AbstractQueue!Deliver
<1>1. delivered \in Seq(Items)
  BY DEF QueueInv, QueueTypeOK
<1>2. delivered' = Append(delivered, item)
  BY <1>1
<1>3. Len(delivered) < Len(accepted) /\ accepted[Len(delivered) + 1] = item
  BY <1>1
<1> QED BY <1>2, <1>3 DEF AbstractQueue!Deliver

LEMMA RefinesPassOn ==
  ASSUME QueueInv, TrySend, PassOn
  PROVE  AbstractQueue!Deliver
<1>1. /\ \E item \in Items : held = <<item>>
      /\ q = <<>> /\ delivered \in Seq(Items)
  BY OptionalIsSeq DEF TrySend, PassOn, QueueInv, QueueTypeOK, NothingOvertakes
<1>2. PICK item \in Items : held = <<item>>
  BY <1>1
<1>3. accepted = (delivered \o <<item>>) \o <<>>
  BY <1>1, <1>2 DEF QueueInv, NothingOvertakes
<1>4. /\ delivered' = delivered \o <<item>> /\ UNCHANGED accepted
      /\ queuePc # "closed" /\ queuePc' # "closed"
  BY <1>2 DEF TrySend, PassOn
<1>5. <<>> \in Seq(Items)
  OBVIOUS
<1> QED BY <1>3, <1>4, <1>5, RefinesDelivery

LEMMA RefinesDequeue ==
  ASSUME QueueInv, Dequeue
  PROVE  AbstractQueue!Deliver
<1>1. /\ q \in Seq(Items) /\ q # <<>> /\ delivered \in Seq(Items) /\ held = <<>>
      /\ next = <<Head(q)>> /\ accepted = delivered \o q
  BY DEF Dequeue, QueueInv, QueueTypeOK, NothingOvertakes
<1>2. Head(q) \in Items /\ Tail(q) \in Seq(Items)
  BY <1>1
<1>3. accepted = (delivered \o <<Head(q)>>) \o Tail(q)
  BY <1>1, HeadMoves
<1>4. /\ delivered' = delivered \o <<Head(q)>> /\ UNCHANGED accepted
      /\ queuePc # "closed" /\ queuePc' # "closed"
  BY <1>1 DEF Dequeue
<1> QED BY <1>2, <1>3, <1>4, RefinesDelivery

LEMMA RefinesFifoNext ==
  ASSUME QueueInv, [QueueNext]_queueVars
  PROVE  [AbstractQueue!FifoNext]_(AbstractQueue!fifoVars)
<1> USE DEF AbstractQueue!FifoNext, AbstractQueue!fifoVars
<1>1. CASE Receive
  BY <1>1, RefinesReceive
<1>2. CASE TrySend
  <2>1. CASE PassOn
    BY <1>2, <2>1, RefinesPassOn
  <2>2. CASE EnqueueItem
    BY <1>2, <2>2 DEF TrySend, EnqueueItem
  <2> QED BY <1>2, <2>1, <2>2 DEF TrySend
<1>3. CASE Dequeue
  BY <1>3, RefinesDequeue
<1>4. CASE Leave
  BY <1>4 DEF Leave, AbstractQueue!Stop
<1>5. CASE Offer \/ Read \/ CloseIn \/ CloseQuit
  BY <1>5 DEF Offer, Read, CloseIn, CloseQuit
<1>6. CASE UNCHANGED queueVars
  BY <1>6 DEF queueVars
<1> QED BY <1>1, <1>2, <1>3, <1>4, <1>5, <1>6 DEF QueueNext, QueueStep

(* The goroutine with its two selects is a first-in first-out queue that may
   stop, whatever its senders, its reader and the owner of quit do. *)
THEOREM QueueImplementsFifo == QueueSpec => ImplementsFifo
<1>1. QueueInit => AbstractQueue!FifoInit
  BY DEF QueueInit, AbstractQueue!FifoInit
<1>2. QueueInv /\ [QueueNext]_queueVars => [AbstractQueue!FifoNext]_(AbstractQueue!fifoVars)
  BY RefinesFifoNext
<1> QED BY <1>1, <1>2, QueueInvariant, PTL DEF QueueSpec, ImplementsFifo, AbstractQueue!FifoSpec
=============================================================================
