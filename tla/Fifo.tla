-------------------------------- MODULE Fifo --------------------------------
(***************************************************************************)
(* What queueHandler (rpcwebsocket.go) promises: whatever it has taken in  *)
(* comes out in the same order and once, until it stops; what it had not   *)
(* delivered by then it never delivers.                                    *)
(***************************************************************************)
EXTENDS Naturals, Sequences

CONSTANT Items

VARIABLES
  accepted,   \* everything taken in, in order
  delivered,  \* everything handed out, in order
  stopped

fifoVars == <<accepted, delivered, stopped>>

FifoInit ==
  /\ accepted = <<>>
  /\ delivered = <<>>
  /\ stopped = FALSE

Accept ==
  /\ ~stopped
  /\ \E item \in Items : accepted' = Append(accepted, item)
  /\ UNCHANGED <<delivered, stopped>>

Deliver ==
  /\ ~stopped
  /\ Len(delivered) < Len(accepted)
  /\ delivered' = Append(delivered, accepted[Len(delivered) + 1])
  /\ UNCHANGED <<accepted, stopped>>

Stop ==
  /\ ~stopped
  /\ stopped' = TRUE
  /\ UNCHANGED <<accepted, delivered>>

FifoNext == Accept \/ Deliver \/ Stop
FifoSpec == FifoInit /\ [][FifoNext]_fifoVars
=============================================================================
