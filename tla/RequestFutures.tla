--------------------------- MODULE RequestFutures ---------------------------
(***************************************************************************)
(* What a caller of rpcclient is promised: every command yields a future   *)
(* that resolves at most once and keeps its outcome; a future fails with   *)
(* ErrClientDisconnect or ErrClientShutdown only in the step that shuts    *)
(* the client down, which fails all outstanding futures at once except     *)
(* those whose reply is already being handed over; and no command is       *)
(* accepted after that.  Only long-running commands may be forgotten,      *)
(* while their replies have not come, and then for good.                   *)
(***************************************************************************)
CONSTANTS
  Requests,     \* commands
  LongRunning,  \* those that may be forgotten
  Outcomes      \* of a future

VARIABLES
  future,   \* per request "unsent", "outstanding", "forgotten" or its outcome
  arriving, \* requests whose reply has been matched but not yet delivered
  closed    \* the client accepts no more commands

fvars == <<future, arriving, closed>>

Outstanding == {r \in Requests : future[r] = "outstanding"}

FuturesTypeOK ==
  /\ future \in [Requests -> {"unsent", "outstanding", "forgotten"} \cup Outcomes]
  /\ arriving \subseteq Outstanding
  /\ closed \in BOOLEAN

FuturesInit ==
  /\ future = [r \in Requests |-> "unsent"]
  /\ arriving = {}
  /\ closed = FALSE

Issue(r) ==
  /\ ~closed
  /\ future[r] = "unsent"
  /\ future' = [future EXCEPT ![r] = "outstanding"]
  /\ UNCHANGED <<arriving, closed>>

Refuse(r, err) ==
  /\ future[r] = "unsent"
  /\ err = "ErrClientNotConnected" \/ (closed /\ err = "ErrClientShutdown")
  /\ future' = [future EXCEPT ![r] = err]
  /\ UNCHANGED <<arriving, closed>>

(* A reply from the server is matched with its request, then delivered. *)
Match(r) ==
  /\ ~closed
  /\ r \in Outstanding \ arriving
  /\ arriving' = arriving \cup {r}
  /\ UNCHANGED <<future, closed>>

Resolve(r) ==
  /\ r \in arriving
  /\ future' = [future EXCEPT ![r] = "reply"]
  /\ arriving' = arriving \ {r}
  /\ UNCHANGED closed

(* All long-running commands whose reply is not being handed over are forgotten. *)
Forget ==
  /\ future' = [r \in Requests |-> IF r \in (Outstanding \ arriving) \cap LongRunning
                                 THEN "forgotten" ELSE future[r]]
  /\ UNCHANGED <<arriving, closed>>

Close(err) ==
  /\ closed' = TRUE
  /\ future' = [r \in Requests |-> IF r \in Outstanding \ arriving THEN err ELSE future[r]]
  /\ UNCHANGED arriving

FuturesNext ==
  \/ \E r \in Requests : Issue(r) \/ Match(r) \/ Resolve(r)
  \/ \E r \in Requests, err \in Outcomes : Refuse(r, err)
  \/ \E err \in {"ErrClientDisconnect", "ErrClientShutdown"} : Close(err)
  \/ Forget

FuturesSpec == FuturesInit /\ [][FuturesNext]_fvars
=============================================================================
