# TLA+ models of rpc-scaffold

rpc-scaffold is a JSON-RPC scaffold in Go: a server process with an HTTP and a
websocket endpoint (`package main`), a client library for both
(`rpclient/infrastructure.go`) and the registry and codec of commands they share
(`rpcjson/`). This directory models it in TLA+ (the concurrent parts as state
machines, the registry and codec as functions the state machines use), model-checks
the models with TLC on small instances, and proves all their safety properties with
TLAPS for every value of the constants. `PROJECT.json` lists the components, runs,
mutants, findings, hazards and theorems, and maps every definition to its lines.

## 1. The system

| component | where | state | operations | talks to |
|---|---|---|---|---|
| websocket client | `rpclient/infrastructure.go` | `requestMap/requestList` under `requestLock`; `wsConn`, `disconnected`, `disconnect`, `connEstablished` under `mtx`; `sendChan` (50), `shutdown`, `retryCount` | `New`, `Connect`, `sendCmd`, `receiveFuture`, `Disconnect`, `Shutdown`, `WaitForShutdown`; goroutines `wsInHandler`, `wsOutHandler` (per connection), `wsReconnectHandler`, `resendRequests` (per reconnect) | a websocket server; callers, through `responseChan` of capacity 1 |
| POST client | same file | `sendPostChan` (100), `shutdown` | `sendPost`, `sendPostRequest`, `sendPostHandler`, `Shutdown` | an HTTP server; callers |
| websocket connection, server side | `rpcwebsocket.go` | `disconnected`, `quit`, `conn` under the mutex; `serviceRequestSem` (50), `sendChan` (50) | `inHandler`, one goroutine per command, `outHandler`, `SendMessage`, `Disconnect`, `WaitForShutdown` | its peer; command dispatch |
| server process, HTTP endpoint | `rpcserver.go`, `rpchandlers.go`, `signal.go`, `main.go`, `comm.go` | listeners, `wg`, `shutdown`, `numClients`, `requestProcessShutdown`, `shutdownRequestChannel`, `interruptChannel` | `newRPCServer`, `Start`, `Stop`, `interruptListener`, `limitConnections`, `checkAuth`, `jsonRPCRead`, `handleStop` | signals, HTTP peers, websocket connections |
| dispatch | `rpcserver.go`, `rpchandlers.go`, `rpcjson/cmd.go` | tables `rpcHandlers`, `wsHandlers`, `rpcLimited`, registered commands | `parseCmd`, `standardCmdResult` | registry |
| status line cache | `rpcserver.go` 83-115 | `statusLines` | `httpStatusLine` | HTTP endpoint |
| notification queue | `rpcwebsocket.go` 90-132 | a slice | `queueHandler`; nothing calls it | |
| registry | `rpcjson/register.go`, `cmdinfo.go` | three maps under `registerLock` | `RegisterCmd`, `CmdMethod`, `MethodUsageFlags`, `MethodUsageText` | codec |
| codec | `rpcjson/cmdparse.go`, `rpcjson.go` | none | `MarshalCmd`, `UnmarshalCmd`, `NewCmd`, `assignField` | registry |
| listener setup, certificates | `comm.go`, `rpcserver.go` 534-555, 585-595 | two files that outlive the process | `setupRPCListeners`, `parseListeners`, `genCertPair` | server process |
| logging, error tables, result types, usage texts, wrappers | `log.go`, `rpcjson/error.go`, `jsonerr.go`, `result.go`, `rpclient/method.go` | none worth a model | | |

What makes each hard, and what makes it correct:

- **Websocket client.** Handlers are started per connection and nobody waits for
  the previous ones, yet they all refer to `c.wsConn`, `c.disconnectChan()` and
  `c.sendChan`, i.e. to whatever is current. Replies, disconnects, resends and a
  shutdown race for each request. Correct means: every future resolves at most
  once, no caller waits for a response nobody owes it, the disconnect channel is
  never closed twice, no connection is left open, a shutdown stops everything.
- **POST client.** Callers queue while the only reader of the queue decides to
  stop. Correct means: one answer per future, and the reader stops.
- **Websocket connection.** Request goroutines outlive the handlers they send to.
  Correct means: no semaphore token is lost, no reply is lost while the connection is
  up, no sender is left waiting and everything ends when the peer goes away. With 50
  places for 50 requests the last two hold but for one sender.
- **Server process.** A stop command crosses two unbuffered channels to `main`; a
  counter is checked and incremented in separate steps. Correct means: the counter
  is exact on every path, and a signal or an accepted stop command ends the process.
- **Dispatch.** Two endpoints written separately take the same decisions in a
  different order. Correct means: they agree, and only an administrator runs anything.
- **Registry, codec.** Maps under a lock that is released between a read and the write
  that depends on it; reflection over positions, pointers and integer widths.
  Correct means: an entry never changes, a command arrives as it was made, a number
  is converted to itself or refused.
- **Notification queue, status lines.** A goroutine that switches between two ways of
  sending; a cache filled by concurrent requests. Correct means: first in, first out,
  nobody held up; the right line for the request.
- **Listener setup.** Two files written one after the other by a process that may fail
  or crash in between. Correct means: an operator's files are never touched, and a
  key that was generated is never there without its certificate.
- **Client and server together.** Bounded buffers, a semaphore and two
  directions of a network in a ring. Correct means: nothing lost or doubled, the waits
  never close into a ring, every call returns.

## 2. Modules

| module | models | instance module |
|---|---|---|
| `RpcClient` | the websocket client | `MCRpcClient` |
| `RequestFutures` | abstract specification: futures that resolve once | (property of `RpcClient`) |
| `RpcClientProofs` | theorems about `RpcClient` | |
| `PostClient` | the POST client | `MCParts`, `MCPostClient` |
| `PostClientProofs` | theorems about `PostClient` | |
| `Dispatch` | tables and decisions of both endpoints, as functions | (used by the next three) |
| `WsClient` | the server's end of a websocket connection | `MCWsClient` |
| `WsClientProofs` | theorems about `WsClient` | |
| `RpcServer` | the process, its listeners, the HTTP endpoint, the stop relay | `MCRpcServer` |
| `Endpoints` | one request sent to both endpoints | `MCParts` |
| `RpcServerProofs` | theorems about `RpcServer`, `StatusLines` and `Endpoints` | |
| `ClientServer` | `RpcClient` and `WsClient` joined by a network | `MCClientServer` |
| `ClientServerProofs` | theorems about `ClientServer` | |
| `QueueHandler` | the notification queue | `MCParts` |
| `Fifo` | abstract specification: a first-in first-out queue that may stop | (property of `QueueHandler`) |
| `QueueHandlerProofs` | theorems about `QueueHandler` | |
| `StatusLines` | the status line cache and the head of a response | `MCParts` |
| `CmdParse` | types, parameters and the codec, as functions | (used by `CmdRegistry`) |
| `CmdRegistry` | the registry and a command's way through it | `MCParts` |
| `CmdRegistryProofs` | theorems about `CmdRegistry`, `CmdParse` and `Conversions` | |
| `Conversions` | `assignField`: what `NewCmd` does with an argument of another type | `MCParts`, itself |
| `ListenerSetup` | listener setup and the certificate files, over restarts | `MCParts` |
| `ListenerSetupProofs` | theorems about `ListenerSetup` | |

Definitions named as variants of another one just before it (`LookUpOnly` before
`RemoveRequest`) are plausible bugs. The specifications do not use them; each
property is known to fail when its definition is replaced by one of them
(`mutants` in `PROJECT.json`).

### RpcClient

One state variable per field of `Client`, one `...Pc` variable per goroutine or
caller, and per connection *generation* (one successful dial) the state of its
network connection and the requests that are with the server.

- A critical section of `mtx` or `requestLock` is one step, with two exceptions
  that are modelled: `Connect` holds `mtx` while it dials (`MtxFree`), and
  `Shutdown` holds `requestLock` while it waits for `mtx` (`RequestLockFree`).
- A `select` on `c.disconnectChan()` or a use of `c.wsConn` is evaluated in the step
  that acts on it. A goroutine that evaluated it earlier and has not been woken is
  at its position `loop`, where it can also act at once, so this loses nothing: a
  position `loop` of `wsOutHandler` includes "just returned from a write", from
  where the old channel is never looked at again after the reconnect handler has
  replaced it. The connection a `ReadMessage` is blocked on *is* captured (`inConn`).
- `wsInHandler` looks at `c.shutdown` (`InLoop`) and reads `c.wsConn` (`InEnter`) in two
  steps without a lock: in between, the reconnect handler may install another connection.
- A reply may be read from a connection that has been closed: it was buffered.
- `resendRequests` sends its copy in any order; the code sends it in list order.
- `retryCount` saturates at `MaxRetries`; only its reset matters.
- `resp[r]` keeps everything ever sent on a `responseChan`, so that a second answer is
  visible; `wg` is derived (`AllStopped`).
- Not modelled: commands that cannot be marshalled (`sendCmd` returns an error future
  before it touches the client), log output, TLS and proxy details of `dial`.
- `LongRunning` is the set of requests in `ignoreResends`. The only such method,
  `rescan`, is issued by no exported function, so the runs leave it empty and the
  step `Forget` does not occur in them; no theorem assumes that it is empty.

`RequestFutures` is what callers are promised. `RpcClient` implements it with a
future's state read off `resp`, `requestMap` and the replies in handlers' hands
(`FutureOf`): the step that fails outstanding futures is exactly the step that
closes the client, and replies already matched are still delivered. The copy that
`resendRequests` makes is the abstract step `Forget`: it drops the long-running requests
whose reply is not already in a handler's hands, and their futures are never answered.

### PostClient

Callers go through the check of `c.shutdown`, the (blocking) send on `sendPostChan` and
`receiveFuture`; `sendPostHandler` alternates between its queue and `c.shutdown` and then
cleans up. A refused caller queues its request all the same, as the code does
(`CheckShutdown` leads to `EnqueuePost`). `Shutdown` is one step: `Disconnect` has no
effect in this mode and the table of requests is not used. `Respond` waits while the
channel's one place is taken. The cleanup loop takes and answers in two steps because the
answer may have to wait.

### WsClient

`inHandler`, the goroutine of every request and `outHandler`. `SendMessage` is two
steps, `Disconnected()` and the send, because the lock is released in between.
A message that
had arrived before the connection went can still be read (`InRead`).
`peer` is what `newWebsocketClient` was told of the credentials. Where `inHandler`
goes with a message (`AfterRead`, `ReadPositions`) is read off `Dispatch!WsOutcomes`:
since `rpcLimited` lists only `help`, which is no registered command, only an
administrator's requests are ever serviced. `doneChan` is nil in every call of the
program.

### RpcServer

`main` through `newRPCServer`, `Start`, the wait and `Stop`; `interruptListener`;
the goroutine of `Start` that relays a stop command; and the handlers of `/` and
`/ws`. A rendezvous on an unbuffered channel is one step. Nothing happens after
`main` has returned (`Running`). A listener's `Serve` may return by itself; closing
such a listener again is an error, on which `Stop` returns early. What a websocket
connection does is `WsClient`; here it only is a source of stop commands. `ReadBody`
takes the outcomes of a POST from `Dispatch!PostOutcomes`.

### Dispatch and Endpoints

A request is what the decisions look at: whether it is JSON, its id (absent, one a
reply can carry, or of another type), whether it names a version, its method and
whether its parameters fit. `PostOutcome` and `WsOutcome` follow the order of the code:
`jsonRPCRead` authorizes and then parses, `inHandler` parses and then authorizes, and
ends the connection of a peer without credentials where another gets an error. A
reply whose id cannot be marshalled is not sent, though the command has run.
`Endpoints` puts one request to both.

### ClientServer

The two libraries, each as its own module has it, with `wire[1]` of the client as what
is with the server and `unread`/`written` of the server telling in which direction a
message travels. Each direction holds `NetCap` messages and a write to an open
connection waits for room; either end may find the connection broken, and an end
eventually finds that the other one closed it. The client has one connection and the
application only issues commands: reconnects, `Disconnect` and `Shutdown` are checked in
`RpcClient`, against a server that may do anything.

### QueueHandler and Fifo

`dequeue` and `skipQueue` are true when they are `out` and false when they are nil. The
inner `select` is a step of its own (`TrySend`), between which and the outer one the
reader may arrive. `accepted` and `delivered` are history. The stop without sending
what remains is part of the promise (`Fifo!Stop`). No code of the repository calls
`queueHandler`; its senders, reader and the owner of `quit` are any.

### StatusLines

`LookUpLine` is the read-locked look-up and `StoreLine` the write-locked store, with
other handlers in between; each write to the connection may fail. A text is
abstracted to the protocol and the code it is made of.

### CmdParse and CmdRegistry

A command type is a sequence of fields with what `RegisterCmd` looks at (pointers, kind,
default tag, embedded, exported), a command the sequence of its values: `nil`, zero, the
default, given, or a number JSON cannot express. `CmdParse` holds the checks of
`RegisterCmd`, `makeParams`, `checkNumParams`, `populateDefaults`, the decoding of
parameters and what `NewCmd` builds, as functions. `CmdRegistry` has the three maps, the
two critical sections of `MethodUsageText` as two steps (`usageJobs` are the copies
carried between them, of any number of concurrent calls), and one command on its way:
written down or made by `NewCmd`, marshalled, or sent by a peer, then looked up and
decoded. A failed registration changes nothing and is no step. Names of errors stay, their
texts do not. A decoded command is a value: that `populateDefaults` gives it the
registry's own pointer to a default is left out, as no code here writes through such a
pointer.

### Conversions

`assignField` with integers of small widths: `WordBits` stands for 64, `IntBits` for the
platform's `int`, and `ToUnsigned`, `ToSigned` wrap as Go's conversions do. A string is
what `strconv` and `encoding/json` make of it. `Convertible` is the reference, written
from the documentation of `NewCmd` alone (490-506): strings convert to integers of any
size and null is a JSON document. Where the code falls short of it has a name:
`BeyondInt`, the numerals of integers wider than `int` (strconv is told bit size 0), and
`NullDocument`. `ConversionsPreserveValue` allows these two and nothing else;
`ConversionsAsDocumented` allows neither and is the violated property of `new_cmd_null`.
Powers of two are the recursive function `TwoTo`, which the prover can reason about where
it knows nothing of `2^w`. Floats are integers in two ranges; rounding is left out. An
untyped nil argument (`reflect.TypeOf(nil)`) is not an input here.

### ListenerSetup

One action per file operation of a start, and `Crash` at any point, also in the middle of
a write. `os.Stat` may fail, which counts as existing (`FileExists`), a write may fail
before or after it has created its file, and so may the removal of the certificate
(`UnlinkCert`), whose error the code discards. A file holds nothing, a torn content, the
operator's, or that of a pair bearing the number of the start that generated it. Which
listeners result is checked only as far as `ListenDone`: a server without any does not
start.

## 3. Runs

Every run says `CHECK_DEADLOCK FALSE`: a client that has shut down, a connection that
has ended and a process that has exited really stop, and the bounds on dials and
requests stop the others.

| run | instance | what it shows |
|---|---|---|
| `client_reconnect` | 1 request, 2 generations, `sendChan` of 1, auto reconnect | the seven safety invariants and the refinement of `RequestFutures` across a reconnect, with old handlers alive beside new ones (2.1 million states) |
| `client_connect_later` | 2 requests, 1 generation, no auto reconnect, created unconnected, fair | refinement of `RequestFutures`; nothing pending after shutdown; a shutdown and a lost connection release every caller |
| `client_shutdown_stops` | no requests, 2 generations, auto reconnect, fair | a shutdown stops every goroutine, also one that catches the reconnect handler between dial and reset |
| `client_two_writers`, `client_lost_request` | as small as the case needs | counterexamples, section 5 |
| `post_orphan` | 2 callers | counterexample |
| `ws_connection` | 4 requests, semaphore 2, channel 2 (the server's ratio), any peer, fair | at most one sender left waiting, no reply lost, tokens accounted; everything winds down unless that one sender is left |
| `ws_buffer_full` | 4 requests, semaphore 1, channel 1 | counterexample |
| `server` | 2 POSTs, 1 websocket, 2 listeners, limit 1, fair | exact counter on every path; signals and stop commands end the process |
| `client_server` | every buffer of 1 place, semaphore 1, network of 1 message each way, fair; either 2 requests, any peer and any failures, or 9 requests of an administrator and a connection that lasts | an outstanding request is in exactly one place between the two libraries while the connection is up; no ring of waiting goroutines closes; every call returns |
| `parts` | one part moves in each behaviour, see below; fair for the POST client and the queue | the POST client gives one answer per future, a second one only after a refusal, and a shutdown stops its handler; `QueueHandler` implements `Fifo`, holds nobody up and serves its reader; status lines match their requests; the endpoints agree and others than the administrator run nothing; the registry is consistent, its entries are final, commands are decoded as sent; conversions preserve values; certificate files are kept and a generated key has its certificate |
| `new_cmd_null` | integers of 2, 3 and 4 bits, `int` of 4 | counterexample |

Why the bounds suffice. Two generations are the fewest in which a handler
outlives its connection; the handlers of a third could meet only the same shared
variables. A channel of one place already fills. One request meets every pair of
actors that could answer it; two are used where one might be in the table and
another in a handler's hands. Three posters with a queue of one give one in the
handler, one queued and one waiting for room. Four websocket requests with two
tokens give two goroutines, one request in `inHandler` and one reply in the
channel, and they are sent in one order, being alike. A limit of one client is reached by
two. `client_server` has two kinds of behaviours. With few requests everything may fail
at every point, and two requests fill any one buffer of one place. In the crowd nine
requests, one more than the eight places between a caller and `wsInHandler`, fill all
buffers at once: they are issued and answered in order, all serviced, and the connection
does not fail, so that only the waiting is in question. TLC finds the
state in which all are full when it is asked for it. Since there is one connection,
`InEnter` follows `InLoop` at once in this instance.

In `parts` the notification queue takes three items of two values, enough to have one in
hand, one at the head and one behind it; two responses race for the status lines of two
known codes and one unknown; all request forms are asked by all peers; programs have the
type without fields and one of: every one-field type, every pair of six field forms, and
two types of three fields, under two method names of which one is registered first; all
types `RegisterCmd` refuses are together in one more program; integers have 2, 3 or 4 bits
with an `int` of 3, so that each width meets a smaller, an equal and a larger one of
either sign; a process is started three times with up to two addresses: one start leaves
files, the next finds them, a third finds what that one left. The proofs of section 4
remove these bounds for every safety property.

No listed run has a long-running request, since the client cannot issue one. With one
(`Requests` and `LongRunning` both `{r1}` in the instance of `client_reconnect`) TLC finds
no violation of `ImplementsFutures` in 863910 states, `Forget` among the steps.

### Fairness

Weak fairness of each goroutine's own steps, taken as one action per goroutine
(the Go scheduler starves no runnable goroutine), and of a read or write on a
connection that is gone. Not assumed: that a server replies, that a write to an
open connection returns, that a dial or an HTTP exchange ends, that a peer sends
or leaves, that signals arrive, or that an application calls anything. In
`ClientServer`, where both ends are modelled, the goroutines of both run, a write returns
once the network has room, and an end notices that the other has closed the connection
(TCP tells it); that the network fails by itself is not assumed. `queueHandler` runs;
its callers need not. So
`ShutdownStopsGoroutines` excepts a reconnect handler inside a dial, and
`ShutdownStopsHandler` an HTTP exchange that never ends.

## 4. Proofs

Each `...Proofs` module proves theorems of the specifications as they are written, for
every value of the constants that the assumption of the module allows (capacities are
positive, a set of POSTs is finite, flags are numbers, and the like). No property is
inductive by itself; the invariants below are, and TLC has checked each of them on the
instance of its module before it was proved.

| module | theorem | statement |
|---|---|---|
| `RpcClientProofs` | `TypeCorrect` | `Spec => [](TypeOK /\ StructInv)` |
| | `AnsweredAtMostOnce` | `Spec => []AtMostOneResponse` |
| | `CallersAreOwed` | `Spec => []NoOrphanedCaller` |
| | `ShutdownIsFinal` | `Spec => []ShutdownLeavesNothingPending` |
| | `NoDoubleClose` | `Spec => []DisconnectChanClosedOnce` |
| | `UnlockedAssignIsSafe` | `Spec => []UnlockedAssignIsGuarded` |
| | `NoConnectionLeaks` | `Spec => []NoLeakedConnection`, if `ConnectOnNew` |
| | `WaitForShutdownIsRight` | `Spec => []StoppedMeansClosed`, if `ConnectOnNew` |
| | `ClientImplementsFutures` | `Spec => ImplementsFutures` |
| `PostClientProofs` | `PostTypeCorrect` | `PostSpec => []PostTypeOK` |
| | `PostsAnsweredOnce` | `PostSpec => []AnsweredOnceUnlessRefused` |
| `WsClientProofs` | `WsTypeCorrect` | `WsSpec => []WsTypeOK` |
| | `TokensBelong` | `WsSpec => []TokensAccounted` |
| | `RepliesKept` | `WsSpec => []NoReplyLost` |
| | `OneLeftAtMost` | `WsSpec => []AtMostOneLeftWaiting`, if `SendCap >= SemCap` |
| `ClientServerProofs` | `NothingFallsBetween` | `CSSpec => []OneCustodian` |
| | `NobodyWaitsInARing` | `CSSpec => []NoRingOfWaiting` |
| | `ClientIsRpcClient` | `CSSpec => Spec`, the specification of `RpcClient` |
| | `ServerIsWsClient` | `CSSpec => Server!WsSpec`, that of `WsClient` |
| | `FuturesOverTheNetwork` | `CSSpec => ImplementsFutures` |
| `RpcServerProofs` | `ServerTypeCorrect` | `SrvSpec => []SrvTypeOK` |
| | `ClientsCounted` | `SrvSpec => []ClientsAccounted` |
| | `StatusLinesRight` | `StatusSpec => []LineMatchesRequest` |
| | `EndpointsDoAgree` | `EndpointsSpec => []EndpointsAgree` |
| | `OnlyAdminRuns` | `EndpointsSpec => []OthersRunNothing` |
| `QueueHandlerProofs` | `NothingIsOvertaken` | `QueueSpec => []NothingOvertakes` |
| | `QueueImplementsFifo` | `QueueSpec => ImplementsFifo` |
| `CmdRegistryProofs` | `RegistryStaysConsistent` | `RegistrySpec => []RegistryConsistent` |
| | `EntriesStay` | `RegistrySpec => EntriesAreFinal` |
| | `CommandsArrive` | `RegistrySpec => []DecodedAsSent` |
| | `RegistryTypeCorrect` | `RegistrySpec => []RegistryTypeOK` |
| | `ConversionsRight` | `ConversionsSpec => []ConversionsPreserveValue` |
| `ListenerSetupProofs` | `SetupTypeCorrect` | `SetupSpec => []SetupTypeOK` |
| | `FilesStay` | `SetupSpec => FilesAreKept` |
| | `KeysHaveCertificates` | `SetupSpec => []PairComplete` |

### The websocket client

The argument is in four layers, each proved under the ones before it:

1. `StructInv` relates positions and data: a handler that delivers holds a reply,
   generations above the current one have no handlers, and so on.
2. `FutureInv`: a request is in at most one of the table, one handler's hands, and
   answered; a caller that has issued is in one of them. This is what makes a
   reply and a shutdown unable to answer the same request twice.
3. `LinkInv`: the channel is closed only while the client is disconnected, and the
   reconnect handler is past its wait (checking, dialing, assigning, resetting) only
   while it is.
4. `LeakInv`, for a client connected by `New`: an open connection is the current one
   or the one being installed, and somebody alive will close it.

`ConnectOnNew` is needed: without it, `Connect` after `Disconnect` or `Shutdown` leaves a
connection open (section 5).
`ClientImplementsFutures` goes action by action (`Refines...`): a step of the client is a
step of `RequestFutures` or changes nothing a caller can see. With long-running requests
the step to look at is the copy made by `resendRequests` (`RefinesResendCopy`): what it drops
is outstanding, and being neither in the table nor answered afterwards it can be
read off as forgotten, for good.

### The POST client

`PostInv` follows a request: with its caller only, then in one place of the queue or with
the handler, then answered. It needs that the queue holds nothing twice (`NoneTwice`), or
the answer to one copy would leave the other, and that the handler cleans up only after a
shutdown (`HandlerInv`). A request refused by `CheckShutdown` has one answer while it is
still with its caller, in the queue or with the handler (`Refused`), and two when that is
over; no other has more than one. The same invariant says which callers
the run `post_orphan` is about: one that waits in vain has its request in the queue the
handler left behind, and nowhere else.

### The server's end of a connection

`WsInv` is the type invariant with what `inHandler` has in hand (`InHand`: one request, of
which no goroutine knows yet), where `outHandler` may be (`OutPositions`) and the token
count, whose proof is about the cardinality of the set of requests being serviced.
`RepliesInv` adds that the replies written, in hand and queued are together without
repetition, and that those of the commands already answered are among them.

The waiting senders are at most the tokens plus `inHandler`, and once `outHandler` is gone
nothing leaves the channel: so, as soon as the channel has as many places as the semaphore
tokens, which is what the server has (50 and 50), at most one sender stays for good
(`OneLeftAtMost`). The run `ws_buffer_full` shows that one can, and `ConnectionWindsDown`
that a connection with none left (`OneLeftBehind` is the other case) winds down.

### Client and server together

`CSInv` puts the invariants of both ends (`TypeOK`, `StructInv`, `WsInv`, `RepliesInv`, which
are cited, not proved again: every step of the composition is a step of one end and
leaves the other end alone, lemma `EitherEnd`) beside `EndInv` (this client's one
connection is given up for good) and `CustodyInv`: a request that is not yet written is
unread at the server and with nobody else there; one that waits is on its way out or
with the server; one the server has read it works on or has answered. `OneCustodian`
counts places, so its proof turns each count into the statement that the request is
there (`TimesInDistinct`, `RepliesDivided`).

`NobodyWaitsInARing` follows the ring backwards. `RingInv` adds two parts to `CSInv`:
while the connection is up the client's handlers are at work (`LeavingInv`), and a
caller that waits has its request in the table, in a handler's hands or answered
(`OwedInv`). If nobody could move, `wsInHandler` would be reading from an empty network;
then the server's `outHandler` would have room and so nothing to write; then no goroutine
would wait to send, none would hold a token, and `inHandler` would be reading; then the
client's `wsOutHandler` would have room, and nothing to write either; and the request of
the waiting caller would be in no place, against `CustodyInv` (`SomebodyMoves`). That every
call returns is liveness and stays with the run.

Because every step of the composition is a step of one end's own specification or leaves
that end's variables as they are (`ClientSteps`, `ServerSteps`), the composition implements
both specifications (`ClientIsRpcClient`, `ServerIsWsClient`), and whatever is proved
of the ends against any peer holds of them together; `FuturesOverTheNetwork` is one such
conclusion.

### The server process and its endpoint

`SrvInv` needs beside `ClientsAccounted` only that a websocket upgrade is never at a
position where POSTs count. `StatusInv` has two halves that need each other: a handler
that misses the cache writes the line of its own code, and whatever a key finds in the
cache is what that key stands for, because a key tells code and protocol apart.
`EndpointsInv` says that what an endpoint answered is a function of the peer and the
request; the theorems then follow from `Dispatch`, form by form.

### The notification queue

`QueueInv`: `dequeue`, `skipQueue` and `next` are functions of the slice, and the item just
read is held exactly at the inner `select`. Under it each step of the goroutine is a
step of `Fifo` or leaves its queue as it is.

### The registry and its commands

`MapsInv` relates the three maps: every registered type passed `RegisterCmd`'s checks, its
entry is what they computed from it, and the map back from types leads to a method of
that type. `UsageInv` is what makes the unlocked gap of `MethodUsageText` harmless: the
copies that any number of calls store later still are the entry, because an entry never
changes.
`PipelineInv` follows one command: the type and entry `UnmarshalCmd` works with are
those of the command that was marshalled. What remains is about sequences of fields
(`OptionalFieldsLast`, `RequiredFirst`, `ParamsBeforeNil`, `ThereAndBack`): optional
fields come last, so the parameters `makeParams` writes before the first nil are enough
for `checkNumParams`, and decoding inverts encoding field by field.

### The conversions of NewCmd

`ConversionsInv` says only that the argument has its type's range and that the outcome is
`AssignResult` of it; the work is to show that this is what the documentation says, but
for `BeyondInt` and `NullDocument` (`Expected`), class by class (`FromIntRight`,
`FromUintRight`, `FromFloatRight`, `FromStringRight`, `IncompatibleRefused`). The wrap of
a signed number that is not negative is the number itself (`ToUnsignedKeeps`) and a
field's largest signed number is at most the widest one, because powers of two are
positive and grow with the width (`TwoToPositive`, `TwoToMonotone`). Those two are
inductions over the width, and that `TwoTo` satisfies its defining equation at all
(`TwoToDef`) is another; the induction rule of the library cannot be instantiated here, so
they go by the least counterexample (`LeastCounterexample`), which needs only that the
natural numbers are well-founded.

### The certificate files

`SetupTypeInv` is the type invariant with the fact that a start is counted from its first
step on.
`GenerationInv`: while a start generates, the files are its own: both missing before the
first write, its certificate there before the second, and when it removes its
certificate there is no key. `PairComplete` needs it: the certificate is written over or
removed only where there is no generated key.

### Only model-checked

- Liveness (`ShutdownStopsGoroutines`, `ShutdownReleasesCallers`,
  `LostConnectionReleasesCallers`, `ShutdownStopsHandler`, `ConnectionWindsDown`,
  `ShutdownCompletes`, `EveryCallReturns`, `SendersNeverBlock`, `ReaderIsServed`): fairness
  and ENABLED are beyond the prover.

Every safety property of the passing runs is stated by a theorem. The type invariants of
the parts without one of their own (`QueueTypeOK`, `StatusTypeOK`, `EndpointsTypeOK`) are
conjuncts of `QueueInv`, `StatusInv` and `EndpointsInv`.

## 5. Where code and comments disagree

Each is the counterexample of a run, quoted in `PROJECT.json`:

- `client_two_writers`: "uses a buffered channel to serialize output messages"
  (`infrastructure.go` 393-395). A `wsOutHandler` busy during a reconnect re-evaluates
  `c.wsConn` and `c.disconnectChan()`, never learns that its connection is gone, and
  writes to the new one beside the new handler.
- `client_lost_request`: "also resends any commands that had not completed" (489-491).
  The old handler's cleanup loop empties the `sendChan` of the new connection.
- `post_orphan`: "Any outstanding futures when a client shutdown occurs will return
  this error" (55-56). A request queued after the cleanup loop is never answered.
- `ws_buffer_full`: "so nothing is left waiting around to send" (`rpcwebsocket.go`
  382-383). 51 senders, 50 places.
- `new_cmd_null`: "treating the string as marshalled JSON and calling json.Unmarshal"
  (`rpcjson/cmdparse.go` 504-506). The string `null` makes `NewCmd` panic.

Read off the models, without a run of their own:

- `Connect` after `Disconnect` or `Shutdown` installs a connection whose handlers stop at
  once and which nobody closes (`ConnectEstablish`; `StoppedMeansClosed` fails with
  `ConnectOnNew = FALSE`), against "WaitForShutdown blocks until the client goroutines are
  stopped and the connection is closed" (`infrastructure.go` 928-929).
- `limitConnections` reads the counter and `incrementClients` adds to it in a later step,
  so that more POSTs than `RPCMaxClients` may be handled at once, against "Limit the
  number of connections to max allowed" (`rpcserver.go` 476). `main.go` sets no
  `RPCMaxClients`, so that every POST is refused.
- `ErrClientDisconnect` is said to be returned when `DisableAutoReconnect` is *not* set
  (`infrastructure.go` 47-50); `Disconnect` returns it when it is set (`AfterDisconnect`).
- `sendPostRequest` does not return after refusing a request (`CheckShutdown` leads to
  `EnqueuePost`), so a refused request may be posted and answered a second time
  (`AnsweredOnceUnlessRefused` says that no other can be).
- `Stop` leaves listeners open when one fails to close (`StopClose`), against
  `rpcserver.go` 559-562.
- `session` and `version` have handlers but no registered command: every such request is
  answered "method not found" (`registeredMethods`), although "these IDs may be queried by
  a client using the session RPC" (`rpcwebsocket.go` 181).
- A command with an id of a JSON type that a reply cannot carry is run and not answered
  (`Carried`). A request decoded with null for a required parameter gets its zero
  (`DecodeField`).
- `makeParams` drops what follows a nil optional field (`DecodedAsSent` says up to where a
  command arrives). A type registered for two methods is marshalled under the later one
  (`RegistryConsistent` says what still holds).
- `NewCmd` refuses a string for an integer beyond the platform's `int` (bit size 0,
  `cmdparse.go` 408), where the documentation promises "any size integer" (`BeyondInt`;
  `ConversionsAsDocumented` fails there too wherever `int` is narrower than the field).
- `NewCmd` panics on a nil pointer with more indirections than the field; a nil pointer of
  another type becomes a zero (`SetDirectly`, `AssignResult`).
- A crash between the two writes of `genCertPair`, a write that fails half-way, or a key
  that cannot be written and a certificate that cannot be removed, leaves a lone or torn
  file with which every later start fails (`Crash`, `WriteCert`, `WriteKey`, `UnlinkCert`).

## 6. Not modelled

Not modelled: logging, error codes and texts, the wording of usage texts, result types
and one-line wrappers (no state), `receiveFutureTimeOut` (it has no caller), commands that
cannot be marshalled by the client, TLS, proxies and HTTP themselves (external), rounding
of floats.

Hazards without a property are modelled but have no promise in the code to hold them
to: `Connect` after a shutdown, the lock `Connect` holds while it dials, the client limit that
is read before it is counted, the stop command that arrives before its relay, `NewCmd`'s
nil pointers, and a crash between the two certificate files. The pointers to defaults that
decoded commands share with the registry are not modelled (`hazards` in `PROJECT.json`).
