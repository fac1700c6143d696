------------------------------ MODULE RpcServer ------------------------------
(***************************************************************************)
(* The server process: main (main.go), interruptListener (signal.go), and  *)
(* rpcServer with its listeners, its HTTP endpoint and the goroutine that  *)
(* passes a stop command on (rpcserver.go, rpchandlers.go).                *)
(*                                                                         *)
(* A POST is counted in numClients while it is handled; a websocket        *)
(* upgrade is not counted, and what happens on its connection is WsClient, *)
(* here only a source of stop commands.  handleStop offers its request to  *)
(* whoever receives from requestProcessShutdown at that moment; the two    *)
(* channels are unbuffered, so a send and its receive are one step.        *)
(***************************************************************************)
EXTENDS Integers, FiniteSets

CONSTANTS
  Posts,      \* HTTP POST requests to "/"
  Upgrades,   \* requests to "/ws"
  Listeners,  \* the configured listen addresses
  MaxClients  \* cfg.RPCMaxClients

ASSUME ServerConfigAssumption ==
  /\ Posts \cap Upgrades = {}
  /\ IsFiniteSet(Posts)
  /\ MaxClients \in Nat

VARIABLES
  mainPc,       \* main, and in it newRPCServer, Start and Stop
  interrupted,  \* the channel that interruptListener returned has been closed
  intPc,        \* the goroutine of interruptListener
  signalled,    \* interruptChannel, which has room for one signal, holds one
  relayPc,      \* the goroutine of Start that waits for a stop command
  listening,    \* cfg.Listeners that Stop has not tried to close
  serving,      \* listeners whose Serve has not returned: s.wg
  shutdown,     \* s.shutdown # 0
  numClients,   \* s.numClients
  reqPc,        \* the handler of each request
  isAdmin       \* requests with the administrator's credentials

processVars == <<mainPc, interrupted, intPc, signalled>>
serverVars  == <<relayPc, listening, serving, shutdown>>
requestVars == <<numClients, reqPc, isAdmin>>
srvVars     == <<processVars, serverVars, requestVars>>

Requests == Posts \cup Upgrades
MainPcs  == {"new", "start", "wait", "stop", "drain", "exit"}
IntPcs   == {"spawned", "first", "close", "again"}
RelayPcs == {"none", "spawned", "receive", "forward", "done"}
ReqPcs   == {"idle", "limit", "count", "auth", "read", "body", "run", "reply",
             "leave", "ws", "done"}

SrvTypeOK ==
  /\ mainPc \in MainPcs
  /\ interrupted \in BOOLEAN /\ signalled \in BOOLEAN /\ shutdown \in BOOLEAN
  /\ intPc \in IntPcs /\ relayPc \in RelayPcs
  /\ listening \subseteq Listeners /\ serving \subseteq Listeners
  /\ numClients \in Nat
  /\ reqPc \in [Requests -> ReqPcs]
  /\ isAdmin \subseteq Requests
-----------------------------------------------------------------------------
(* When main returns the process ends, and every goroutine with it. *)
Running == mainPc # "exit"

(* main *)

(* newRPCServer: the addresses that can be listened on, at least one. *)
NewServer ==
  /\ mainPc = "new"
  /\ \/ /\ \E L \in SUBSET Listeners : L # {} /\ listening' = L
        /\ mainPc' = "start"
     \/ /\ mainPc' = "exit"
        /\ UNCHANGED listening
  /\ UNCHANGED <<interrupted, intPc, signalled, relayPc, serving, shutdown, requestVars>>

Start ==
  /\ mainPc = "start"
  /\ serving' = listening
  /\ relayPc' = "spawned"
  /\ mainPc' = "wait"
  /\ UNCHANGED <<interrupted, intPc, signalled, listening, shutdown, requestVars>>

(* <-interrupt, and Stop up to its loop over the listeners. *)
MainInterrupted ==
  /\ mainPc = "wait"
  /\ interrupted
  /\ shutdown' = TRUE
  /\ mainPc' = "stop"
  /\ UNCHANGED <<interrupted, intPc, signalled, relayPc, listening, serving, requestVars>>

(* listener.Close() of Stop.  A listener whose Serve has returned is closed
   already; closing it again is an error, on which Stop returns. *)
StopClose(l) ==
  /\ mainPc = "stop"
  /\ l \in listening
  /\ listening' = listening \ {l}
  /\ mainPc' = IF l \in serving THEN "stop" ELSE "exit"
  /\ UNCHANGED <<interrupted, intPc, signalled, relayPc, serving, shutdown, requestVars>>

StopClosed ==
  /\ mainPc = "stop"
  /\ listening = {}
  /\ mainPc' = "drain"
  /\ UNCHANGED <<interrupted, intPc, signalled, serverVars, requestVars>>

(* s.wg.Wait(); main returns and the process ends. *)
StopWait ==
  /\ mainPc = "drain"
  /\ serving = {}
  /\ mainPc' = "exit"
  /\ UNCHANGED <<interrupted, intPc, signalled, serverVars, requestVars>>

-----------------------------------------------------------------------------
(* interruptListener: what has been received the first time closes the channel
   that main waits for, what comes later is only logged. *)
AfterReceive == IF intPc = "first" THEN "close" ELSE "again"

(* signal.Notify *)
IntNotify ==
  /\ Running
  /\ intPc = "spawned"
  /\ intPc' = "first"
  /\ UNCHANGED <<mainPc, interrupted, signalled, serverVars, requestVars>>

IntSignal ==
  /\ Running
  /\ intPc \in {"first", "again"}
  /\ signalled
  /\ signalled' = FALSE
  /\ intPc' = AfterReceive
  /\ UNCHANGED <<mainPc, interrupted, serverVars, requestVars>>

IntClose ==
  /\ Running
  /\ intPc = "close"
  /\ interrupted' = TRUE
  /\ intPc' = "again"
  /\ UNCHANGED <<mainPc, signalled, serverVars, requestVars>>

(* A signal from the operating system, which ends the process unless
   signal.Notify has been called. *)
Signal ==
  /\ Running
  /\ IF intPc = "spawned"
     THEN mainPc' = "exit" /\ UNCHANGED signalled
     ELSE signalled' = TRUE /\ UNCHANGED mainPc
  /\ UNCHANGED <<interrupted, intPc, serverVars, requestVars>>

-----------------------------------------------------------------------------
(* The goroutines of Start. *)

RelayReceive ==
  /\ Running
  /\ relayPc = "spawned"
  /\ relayPc' = "receive"
  /\ UNCHANGED <<processVars, listening, serving, shutdown, requestVars>>

(* shutdownRequestChannel <- struct{}{}, received by interruptListener.  The
   mutant has a listener that only logs the request. *)
RelayForwardLogged ==
  /\ Running
  /\ relayPc = "forward"
  /\ intPc \in {"first", "again"}
  /\ relayPc' = "done"
  /\ UNCHANGED <<processVars, listening, serving, shutdown, requestVars>>
RelayForward ==
  /\ Running
  /\ relayPc = "forward"
  /\ intPc \in {"first", "again"}
  /\ relayPc' = "done"
  /\ intPc' = AfterReceive
  /\ UNCHANGED <<mainPc, interrupted, signalled, listening, serving, shutdown, requestVars>>

(* httpServer.Serve returns because Stop closed the listener, or because it can
   accept no more connections. *)
ServeReturn(l) ==
  /\ Running
  /\ l \in serving
  /\ serving' = serving \ {l}
  /\ UNCHANGED <<processVars, relayPc, listening, shutdown, requestVars>>

-----------------------------------------------------------------------------
(* The handlers of "/" and "/ws". *)

Goto(r, pc) == Running /\ reqPc' = [reqPc EXCEPT ![r] = pc]

(* A connection is accepted and its request reaches the handler. *)
Accept(r) ==
  /\ reqPc[r] = "idle"
  /\ listening \cap serving # {}
  /\ Goto(r, IF r \in Posts THEN "limit" ELSE "auth")
  /\ UNCHANGED <<processVars, serverVars, numClients, isAdmin>>

(* limitConnections.  The mutant registers the deferred decrement too early. *)
LimitInside(r) ==
  /\ reqPc[r] = "limit"
  /\ Goto(r, IF numClients + 1 > MaxClients THEN "leave" ELSE "count")
  /\ UNCHANGED <<processVars, serverVars, numClients, isAdmin>>
LimitConnections(r) ==
  /\ reqPc[r] = "limit"
  /\ Goto(r, IF numClients + 1 > MaxClients THEN "done" ELSE "count")
  /\ UNCHANGED <<processVars, serverVars, numClients, isAdmin>>

IncrementClients(r) ==
  /\ reqPc[r] = "count"
  /\ numClients' = numClients + 1
  /\ Goto(r, "auth")
  /\ UNCHANGED <<processVars, serverVars, isAdmin>>

(* checkAuth.  "/ws" also lets in who has no credentials, and may still fail to
   upgrade the connection.  The mutant does not decrement on a failure. *)
AuthFailureLeaks(r) == Goto(r, "done")
AuthFailure(r) == Goto(r, IF r \in Posts THEN "leave" ELSE "done")
CheckAuth(r) ==
  /\ reqPc[r] = "auth"
  /\ \/ /\ AuthFailure(r)
        /\ UNCHANGED isAdmin
     \/ /\ Goto(r, IF r \in Posts THEN "read" ELSE "ws")
        /\ \E admin \in {{}, {r}} : isAdmin' = isAdmin \cup admin
  /\ UNCHANGED <<processVars, serverVars, numClients>>

(* The head of jsonRPCRead. *)
ReadShutdown(r) ==
  /\ reqPc[r] = "read"
  /\ Goto(r, IF shutdown THEN "leave" ELSE "body")
  /\ UNCHANGED <<processVars, serverVars, numClients, isAdmin>>

(* jsonRPCRead up to the command: it gives up on a body it cannot read and on a
   connection it cannot hijack; what else it does with a request Dispatch says. *)
Commands == INSTANCE Dispatch
ReadBody(r) ==
  /\ reqPc[r] = "body"
  /\ \/ Goto(r, "leave")
     \/ \E outcome \in Commands!PostOutcomes[IF r \in isAdmin THEN "admin" ELSE "limited"] :
          Goto(r, IF outcome.runs THEN "run"
                  ELSE IF outcome.reply = "none" THEN "leave" ELSE "reply")
  /\ UNCHANGED <<processVars, serverVars, numClients, isAdmin>>

(* handleStop: a send to requestProcessShutdown with a default case. *)
HandleStop == relayPc' = IF relayPc = "receive" THEN "forward" ELSE relayPc

(* standardCmdResult: stop, or a command that changes nothing.  A reply whose id
   cannot be marshalled is not written. *)
RunCommand(r) ==
  /\ reqPc[r] = "run"
  /\ \E method \in Commands!registeredMethods :
       IF method = "stop" THEN HandleStop ELSE UNCHANGED relayPc
  /\ \E pc \in {"reply", "leave"} : Goto(r, pc)
  /\ UNCHANGED <<processVars, listening, serving, shutdown, numClients, isAdmin>>

(* The response is written and the connection closed, or that fails. *)
WriteReply(r) ==
  /\ reqPc[r] = "reply"
  /\ Goto(r, "leave")
  /\ UNCHANGED <<processVars, serverVars, numClients, isAdmin>>

DecrementClients(r) ==
  /\ reqPc[r] = "leave"
  /\ numClients' = numClients - 1
  /\ Goto(r, "done")
  /\ UNCHANGED <<processVars, serverVars, isAdmin>>

(* A stop command arrives on a websocket connection. *)
WsStop(r) ==
  /\ Running
  /\ reqPc[r] = "ws"
  /\ r \in isAdmin
  /\ HandleStop
  /\ UNCHANGED <<processVars, listening, serving, shutdown, requestVars>>

(* WebsocketHandler returns. *)
WsEnd(r) ==
  /\ reqPc[r] = "ws"
  /\ Goto(r, "done")
  /\ UNCHANGED <<processVars, serverVars, numClients, isAdmin>>

-----------------------------------------------------------------------------
SrvInit ==
  /\ mainPc = "new"
  /\ interrupted = FALSE /\ signalled = FALSE /\ shutdown = FALSE
  /\ intPc = "spawned" /\ relayPc = "none"
  /\ listening = {} /\ serving = {}
  /\ numClients = 0
  /\ reqPc = [r \in Requests |-> "idle"]
  /\ isAdmin = {}

Main ==
  \/ NewServer \/ Start \/ MainInterrupted \/ StopClosed \/ StopWait
  \/ \E l \in Listeners : StopClose(l)
InterruptListener == IntNotify \/ IntSignal \/ IntClose
Relay == RelayReceive \/ RelayForward
HandlePost(r) ==
  \/ LimitConnections(r) \/ IncrementClients(r) \/ CheckAuth(r) \/ ReadShutdown(r)
  \/ ReadBody(r) \/ RunCommand(r) \/ WriteReply(r) \/ DecrementClients(r)
HandleRequest(r) == Accept(r) \/ HandlePost(r) \/ WsStop(r) \/ WsEnd(r)

SrvNext ==
  \/ Main \/ InterruptListener \/ Signal \/ Relay
  \/ \E l \in Listeners : ServeReturn(l)
  \/ \E r \in Requests : HandleRequest(r)

SrvSpec == SrvInit /\ [][SrvNext]_srvVars

-----------------------------------------------------------------------------
(* Properties. *)

Counted(r) == reqPc[r] \in {"auth", "read", "body", "run", "reply", "leave"}

(* numClients is the number of POSTs being handled, on whatever path they leave,
   so that the server never refuses a client for one that is gone. *)
ClientsAccounted == numClients = Cardinality({r \in Posts : Counted(r)})

(* Fairness: goroutines run, and the Serve of a closed listener returns.  Nothing
   is assumed of requests, of signals, or of listeners that are open. *)
SrvFairness ==
  /\ WF_srvVars(Main)
  /\ WF_srvVars(InterruptListener) /\ WF_srvVars(Relay)
  /\ WF_srvVars(\E l \in Listeners \ listening : ServeReturn(l))

SrvFairSpec == SrvSpec /\ SrvFairness

(* A signal, or a stop command that was passed on, ends the process: nothing on
   the way from handleStop over two channels to main, and in Stop, can wait for
   ever. *)
ShutdownCompletes == (signalled \/ relayPc = "forward") ~> (mainPc = "exit")
=============================================================================
