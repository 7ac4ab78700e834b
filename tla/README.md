# websocket_autotest in TLA+

This directory holds the specifications of the messaging system in `src/`: a
gateway that clients connect to over WebSocket (or TCP), a registry of who is
online, a dispatcher that pushes and broadcasts messages, and a client library.
The modules are checked by TLC on small instances and, where a theorem is
listed, proved by TLAPS for every value of the constants.

    tlc -config MCWsTables.cfg MCWsGateway      # a run
    tlapm WsGatewayProofs.tla                   # the proofs of a module

`PROJECT.json` lists the components, the runs with their properties, a mutation
of the specification that each property catches, the source lines behind every
definition, the findings, the hazards and the theorems.

## 1. The system

| Component | Source | State | Operations |
|---|---|---|---|
| ConnectionRegistry | `core/registry.py` | `_clients` (id -> session with groups, heartbeat, counts), `_groups` (group -> ids), one non-reentrant lock | register, unregister, heartbeat, join, leave, count a message or an ACK, queries |
| MessageDispatcher | `core/dispatcher.py` | `_writers` (id -> connection) | attach, detach, push to a client, broadcast to all or to a group |
| WebSocket gateway | `gateway/ws_server.py` | per connection: the local `client_id` of its handler | hello, heartbeat, ack, upstream (push, group, broadcast, query_online), clean-up when the connection ends |
| TCP gateway | `gateway/server.py` | the same, over streams; the listening server | hello, heartbeat, ack (a stream gives no orders), clean-up; start, close |
| WsClient | `client/ws_client.py` | connection, receive thread, `_messages`, `_opcodes` | hello, upstream, raw sends, receive_messages, automatic ACKs, close, batches of clients |
| ControlClient | `client/control_client.py` | none of its own | send_control_signal |
| HTTP control server | `cmd/control_server.py` (`cmd/gateway.py` is a copy) | a registry of its own | stats, accept a push |
| Message | `models/message.py` | none | to and from JSON |
| Demo, entry points | `scripts/`, `cmd/`, `Makefile` | processes | start a gateway, run clients, stop the gateway |
| Configuration | `internal/config.py` | constants | none |

How they interact. A gateway creates one registry and one dispatcher and hands
both to every connection handler. Handlers run on one asyncio event loop: they
change the two tables directly, and order messages by creating tasks. The TCP
gateway can share the registry and the dispatcher of the WebSocket gateway
(`run_gateway_for_demo` takes both as arguments), and then a task writes to
streams and WebSockets alike. A task
looks up its recipients when it runs, writes to their connections and counts the
message when its write has drained. Clients answer downstream messages with ACK
frames, which the handler counts. On the client's side two threads share the
connection and the queues. The control server shares nothing with a gateway.

What is hard, component by component, and what would make it correct:

- *Registry*: several threads, a lock that one method takes twice, two
  dictionaries that say the same thing. Correct when the two always agree, no
  online session is set back, no lock is kept, and it behaves like a set of
  online clients with a membership relation.
- *Dispatcher and gateway*: handlers, tasks and sends interleave at every await;
  connections close at any of them; clients come back under the same id. Correct
  when the registry and the dispatcher agree, an online client has a live
  handler, a live client is reachable, nobody who should get a message is
  forgotten or served twice, and counts claim nothing that did not happen.
- *Client*: a receive thread and an application thread share a socket without a
  lock; the gateway may ping, close or vanish; calls time out. Correct when
  messages come out once and in order, ACKs match what the application sees,
  close returns and the thread ends.
- *TCP gateway*: as the WebSocket gateway, but a handler survives exceptions,
  waits in its `finally`, a client can end its side and go on reading, and a
  silent client is never noticed. Correct when whoever has ended goes offline
  for good and the server can be closed.
- *Client and gateway together*: each waits for the other to read, and the ACK
  that one sends is counted apart from the send that the other made. Correct
  when the counts settle, nothing but what is written is acknowledged, and a
  closed client goes offline.
- *Control plane, messages, demo*: what one side can express and the other
  understands; what a failed step leaves behind.

The hazards, each with the line where it bites and the property that would
catch it, are in `PROJECT.json`.

## 2. The modules

| Module | What it is |
|---|---|
| `RegistryOps` | What each registry method does to the two dictionaries, as operators from old value to new. No state. |
| `OnlineDirectory` | The abstract registry: `online` and `member`, one step per operation. |
| `ConnectionRegistry` | The registry as threads call it. A call is `Invoke`, `Acquire`, body; a body ends in `Release`. `RegisterIntoGroup` is `register_client` with a group: it goes back to wait for the lock it holds. |
| `WsGateway` | WebSocket gateway, dispatcher and registry on one event loop. |
| `TcpGateway` | The TCP gateway next to it: `EXTENDS WsGateway`. |
| `WsClient` | The client library over one connection. |
| `Message`, `ControlClient` | A message as a JSON object, what clients write, how the gateway reads an upstream message. No state. |
| `EndToEnd` | A client and the gateway that serves it: `WsGateway`, `ControlClient` and an `INSTANCE` of `WsClient`. |
| `DemoRun` | The demo script and its two processes. |
| `MCConnectionRegistry`, `MCWsGateway`, `MCTcpGateway`, `MCWsClient`, `MCEndToEnd` | Constants for TLC. |
| `Subsequences` | The elements of a sequence that are in a set, in their order. No state. |
| `RegistryOpsProofs`, `ConnectionRegistryProofs`, `WsGatewayProofs`, `TcpGatewayProofs`, `SubsequencesProofs`, `WsClientProofs`, `EndToEndProofs` | The proofs (`Message` holds its own). |

**RegistryOps** is shared: `ConnectionRegistry` and `WsGateway` both take their
primed variables from it, so the registry is translated once. A dict is a
function on its keys. A session leaves out `client_id` (its key) and
`connected_at` (never read).

**WsGateway.** A step is what runs between two awaits.

| Variable | In the code |
|---|---|
| `socket`, `handler`, `clientId` | the connection as the library sees it; where `_handle_client` is (in `async for`, awaiting the reply of query_online, ended); its local `client_id` |
| `sessions`, `groups`, `writers` | `_clients`, `_groups`, `_writers` |
| `ready` | the loop's ready queue: tasks that `create_task` or `gather` made |
| `inflight` | sends that have written their frame and await the drain |
| `out` | what was written to each connection |
| `owed` | history: who was attached when an order was given and is still to get it |

`Hello`, `Ack`, `Push`, `GroupPush`, `Broadcast` and `QueryOnline` are the
branches of the frame handler. It ends with its `finally` block (`Ends`), because
its connection has closed (`Finish`) or because a frame raised (`FrameRaises`: an
id that is a list or an object is no key of a dict, `NoKey`); a hello with such an
id is `HelloRaises`, after which the `finally` block raises too and cleans up
nothing. `RunPush`, `RunAll`, `RunGroup` and `RunGather` run the task at the head
of the queue; `SendReturns` and `SendRaises` end a send, and the former counts the
message for whoever has the id by then. `broadcast` is two steps as in asyncio:
the task looks up the recipients and `gather` puts the sends behind what is
already queued. `JoinGroup` is a call of `add_client_to_group`, whole: it makes a
session for a client that has none. Nothing under `src/` calls it on a running
gateway, a program that embeds one would. In `Spec` that program joins clients
that are online (`OnlineJoins`).
Left out: frames that do not parse and those that only call `heartbeat` (the
first are dropped, the second write a time that the gateway never reads; both are
frames of `EndToEnd`), the lock (one thread, never contended), printing.

**TcpGateway.** A stream is a connection of `WsGateway` with a handler of its
own; tables, tasks and sends are the same. `eof` are the streams whose client
has ended its side (readline returns nothing, but the gateway can still write),
against those that are lost; `server` is the listening server. `Line` is a line.
What it raises is caught: after a hello with an id that is no key (`HelloFails`)
the handler goes on, with that id as its own. `ReadEnds` and `ReadOverruns` end the
loop (end of stream, a lost connection, a line over the reader's limit), and
`Leave` is the `finally` block up to its await; for an id that is no key its first
call raises, and the client and the stream are left as they are. The socket of a
stream that was closed with data in its buffer is "closing" until that is sent
(`HandlerEnds`, the end of `wait_closed`), and what a task writes to it meanwhile is
sent as well. A stream's `write` never fails and its `drain` waits only while the
transport's buffer is full; every stream send is in `inflight` all the same, which
allows any wait there can be. `WaitsForClients` is whether `Server.wait_closed`
waits for open streams, as it does from Python 3.12 on. `run_gateway_for_demo` is
the entry that hands the TCP gateway a registry and a dispatcher from outside,
which is how the two gateways come to share them.

**WsClient.** `thread` is the receive thread's place in `_recv_loop`, `caller`
the application's. The actions of the receive thread are the branches of the
loop and its `except` clauses, plus three exceptions that leave it uncaught (a
reset, in `RecvFails`; a pong that cannot be sent, in `RecvPing`; a text that is
no UTF-8, in `RecvGarbled`). `conn` is websocket-client's, modelled from how it
is used: `recv_frame` holds a lock of its own while it waits, so `close()` (send
CLOSE, read until CLOSE, shut down) competes with the receive thread for it
(`EnterRecv`, `EnterDrain`). Once it has sent CLOSE, `close()` gives the socket
a timeout of three seconds, which a `recv` entered after that runs into
(`thread` is "brief"). A PING is answered by the library and again by the loop.
Message contents are left out except whether a message is of type downstream
(`Downstream`) and has `need_ack` (`Asking`, which the properties look at and
the client does not); what the application sends is a member of `Texts`, which
`EndToEnd` fills with JSON objects. `AckFrame` carries the id, empty under
`ack_error`. A frame is written in one piece: larger frames that the two threads
could tear are not modelled, and are listed as a hazard.

**Message and ControlClient.** A JSON object is `[object |-> f]`, `f` a function on
its keys; what has no such field is a text that does not parse or no object.
`ToJson` drops the keys that are None. `Parses` says for which texts
`from_json_line` returns a message and does not raise, and `FromJson` which: it
ignores unknown keys, fills in defaults and applies `bool()` and `float()`, given
by the constants `Falsy` (the values that are false) and `Float` (a function on the
values that `float()` accepts). `ControlSignal` is what `send_control_signal`
builds; `HasOp`, `Op`, `TargetClient` and `TargetGroup` are what the gateway reads
in it, and `OpName` is its `str(op or "").lower()`.

**EndToEnd.** The variables are those of the gateway, those of the client, the
application's `script`, and the connection between the two: `up` (of which the
handler has taken the first `taken` frames) and `wire`. `ClientStep` is any step
of the client, and blocks while `UpCap` frames are not taken, as `conn.send`
does; `TakeFrame` is the handler's next frame, decoded and handled; `GatewayStep`
puts on `wire` what a step of the gateway wrote, and a drain waits while
there is no room (`HasRoom`). `HandshakeEnds` and `LinkBreaks` end both sides in
one step. When the connection has closed the handler may end before it has taken
every frame: `websockets` would deliver them first, so the model allows more.
A script is what the application sends, each element any text: `HandleText` is all
the handler does with one, for each type, with every `op`, known or not, with an
id that is no key, and when the text does not parse. ACKs are texts too, those of
`_send_ack_for_message` and those an application writes itself (`OwnAcks`).
`ScriptAssumption` says that the ids a script names are among those of the
instance, or none, or no keys. A hello without a client_id reads as `None`, which
is the gateway's `NoId`. When a frame has ended the handler, `GatewayFails` is the
library that closes the connection.

**DemoRun.** The script's lines, the gateway's process (it may fail to listen),
and the demo as phases of calls to its clients. A constructor raises when nobody
listens (`Refused`); a send on a lost connection may raise or not (`MayRaise`).

## 3. The runs

| Run | Instance | What it shows |
|---|---|---|
| `registry` | 2 threads, 2 clients, 2 groups, every method, with and without the group argument, fairness | the dictionaries agree, the lock protects them, no session is set back, `OnlineDirectory` is implemented, and only the nested call keeps the lock |
| `registry_group_arg` | the group argument, 1 client | **violation**: the call waits for its own lock |
| `gateway_tables` | a stream that says hello under two ids and one that is no key, a WebSocket that shares an id with it, 1 group, joins, ACKs, 1 order | the tables agree, hellos and ends of handlers alone decide who is online, group broadcasts forget nobody |
| `ws_delivery` | 2 WebSockets, an id taken over, a second hello without an id or with one that is no key, an empty group, 2 orders | nobody is forgotten, nothing is delivered twice, orders of a kind stay in order, counts are backed by frames |
| `gateways_live` | 2 streams of a client that reconnects after its old stream ended, another client's WebSocket, 1 order, fairness | a live client is reachable, an online one is served, who has ended goes offline for good, orders are carried out, the TCP server closes |
| `ws_shared_id` | a client that reconnects before its old connection ended | **violation**: the old handler's end takes the new connection offline |
| `client` | 3 configurations, 2 messages, 1 ping or garbled frame, 1 send, any number of calls, fairness | exactly-once and in-order reception, requested ACKs before visibility, close returns and leaves no live socket, the thread ends |
| `client_need_ack` | a message that asks for no ACK | **violation**: it is acknowledged |
| `client_timeout` | a client with a timeout | **violation**: it stops receiving while connected |
| `end_to_end` | 1 client, 6 scripts, a connection that holds one frame each way, 2 orders, 3 ACKs, fairness | the orders are received as the gateway wrote them, acknowledgements are backed by frames, the counts settle, only ACKs can stand still with a reply, a closed client goes offline |
| `control_group` | a control signal to a group | **violation**: the gateway drops it |
| `demo` | the script with 2 clients, fairness | **violation**: the gateway is left running |

*Why the bounds are enough.* The races of the registry need two callers; two
clients and two groups let one be touched while the other must not be, and the
proofs cover any number. In the gateways every conflict is between two
connections over one id, or between one order and one change of the tables; a
third connection is needed only to have an old one, a new one and a bystander.
Two orders are what order and duplication need. Two client messages let one be
in the queue or acknowledged while the other is on the wire or dropped by
`close`. In `EndToEnd` the connection holds as little as it can (`UpCap` 1,
`DownCap` 0, so a frame on `wire` makes the next drain wait), because a larger
one only needs more messages to fill; the scripts send more than it holds, and
the standstill of `StandStill` is reachable in this instance. Its six scripts
are a push to itself and a message to all, queries, a group and ops that are
empty or unknown, an ACK of the application's own (hence 3 ACKs for 2 orders)
with an op in capitals, a message with an id that is no key, and a text that is
no object before a hello with such an id. A client that says hello and then says
it again with an id that is no key is in no script: its handler would leave the
first id online, as a second hello always does, and `ClosedClientLeaves` is
about clients with one id. All bounds (`MaxTime`, `MaxCount`, `MaxIssued`,
`MaxAcks`, `MaxSent`, `MaxOdd`, `MaxTexts`) are guards of actions of the
environment or of counting, and none cuts off a step the code must take.

*Deadlock.* Runs say `CHECK_DEADLOCK FALSE` where the system may really stop:
the registry once a thread waits for its own lock, the gateways and the client
once every connection has been used and closed, and the script once it has ended.

*Fairness.* Registry: a thread inside the lock goes on, and a free lock does not
stay free for ever with a thread waiting (`threading.Lock` promises no more).
Gateways: the event loop runs every task in its queue (`RunTask`), resumes a
handler whose connection has closed or whose stream has ended (`Finish`,
`ReadEnds`) and a `close()` that has nothing left to wait for (`ServerClosed`).
Client: both threads run and the gateway's library answers a CLOSE and does not
wait for ever for the answer to its own (`websockets` does both). End to end:
the client's threads, the handshake, the handler that has a frame to take, the
library that closes what a handler left, the loop's tasks, and a drain that has
room (`EndFairness`). Demo: the processes run. Nobody is obliged to connect,
call, send, read, join or close, no connection is obliged to break, and no
client to take what it was sent. `CloseReturns` rests on the answer to CLOSE:
the receive thread holds the lock while it waits, so if the gateway's machine is
silent and the client has no timeout, `close()` waits for as long.

*What the properties do not say.* A push may overtake a broadcast that was
ordered before it (`SameKindInOrder` is per kind). Once `close()` is called,
messages still on the wire may be dropped, even one before another that is
received. `MessagesComeOut` excepts a client with a timeout and a pong that
fails because the gateway has gone: either ends the receive thread with messages
unread. `acks_received` may be ahead of `messages_sent` (`ack_rate` above 1),
since an ACK can be counted while the send it answers still awaits its drain;
`CountsSettle` says that the two meet, and excepts the standstill. In the
standstill the handler waits for the client to read its answer while the
client's receive thread waits for the handler to read its ACK; both buffers must
be full, and what ends it outside the model is a keepalive timeout of
`websockets`. `ServerStops` excepts clients that stay connected: from Python 3.12
on, `close()` waits for them for ever, since nothing tells their handlers to end.

## 4. Findings

1. `registry_group_arg`: `register_client(id, group)` deadlocks on the registry's
   own lock (`core/registry.py:59`).
2. `ws_shared_id`: a client comes back on a new connection before the handler of
   its old one has ended, and then that handler's `finally` block takes it offline
   (`gateway/ws_server.py:167`; `gateway/server.py:82` does the same).
3. `client_timeout`: a client's "connection timeout" ends its receive loop after
   that much silence (`client/ws_client.py:176`).
4. `client_need_ack`: a client acknowledges downstream messages that ask for no
   ACK (`client/ws_client.py:215`). The gateway's own callers always ask.
5. `control_group`: `send_control_signal` never sends the group it is given, so a
   signal to a group is dropped (`client/control_client.py:96`).
6. `demo`: the demo script leaves the gateway running when the demo fails
   (`scripts/run_ws_demo.sh:16`).

Each is the counterexample of the run it names; `PROJECT.json` quotes what the
repository says instead. Three things that the models have and no run of its own
shows. A connection that says hello under two ids leaves the first one attached
to it when it ends, and online (`gateway/ws_server.py:65`): `EndTakesItsOwn` is
false of that as well, and `OnlineHasHandler` is checked and proved for
connections that keep to one id. `add_client_to_group` makes a session for a client
that is not online (`core/registry.py:82`), which on a gateway would put it online
without a connection: `TablesAgree` holds because `Next` joins only clients that
are online. A stream whose last hello named an id that is no key is never closed
nor taken offline (`gateway/server.py:64`). And, with no state to show it in:
`cmd/gateway.py` is a copy of the HTTP control server, so the command that is to
start the TCP gateway starts that.

## 5. The proofs

`RegistryOpsProofs` states what each registry operator keeps or changes, once:
types, agreement of the two dictionaries (`RegisteredFacts`, `UnregisteredFacts`,
`TouchedFacts`, `JoinedFacts`, `LeftFacts`), that sessions only go forward, and
how each operator maps to a step of `OnlineDirectory`. The next two modules
cite these lemmas.

*Registry* (assumption: `RegistryAssumption`, that `NoThread` and `NoGroup` are
no thread and no group and the bounds are numbers). The inductive invariant is
`TypeOK /\ LockProtects /\ GroupIndexAgrees /\ HeartbeatsArePast`. Agreement is
inductive only with the types; that no heartbeat is set back needs
`HeartbeatsArePast`, since the time written must not be before the one stored.
Proved: types, mutual exclusion, agreement, `SessionNeverRegresses`, and that
the registry implements `OnlineDirectory`, for any number of threads.

*Gateway* (assumption: `GatewayAssumption`). `IInv` is the types, the agreement
of registry and dispatcher and of the two views of groups (`CoreOK`, `QueueOK`).
From it:

- `GatewayTypeCorrect`, `GatewayTablesAgree`, for any use of ids, when no client is
  joined that is offline. Section 4 says why the condition is needed.
- `OnlyHandlersDecide`: `HandlersDecideWhoIsOnline`, a step property: a hello
  brings a client online on its own connection and without memberships of an
  earlier session (this needs the two views of groups to agree), the end of a
  handler with its id takes it offline, and nothing else does either.
- `OnlineIsServed`: `OnlineHasHandler` when no connection changes its id
  (`OneIdEach`), even when ids are taken over. The strengthening is that a
  handler's `client_id` is one its connection says hello with. Section 4 says
  why the condition is needed.
- `LiveIsTracked`: `LiveConnectionTracked` when no two connections use an id at
  a time (`~Overlapping`). The strengthening is that two live handlers have
  disjoint ids. Finding 2 shows that the condition is needed.
- `NobodyIsForgotten`: `OwedIsPending`, without conditions. The strengthening is
  `OwedAttached`: whoever is owed a message is attached to the open connection
  it was attached to when the order was given. With it, a broadcast that looks
  its recipients up late still finds them.
- `NoDuplicates`, `OrderedByKind` and `CountedWasWritten`: `DeliveredOnce`,
  `SameKindInOrder` and `SentWasWritten`, without conditions. What is written
  says nothing of what will be, so the strengthening (`DeliveryInv`) is about
  the queue: of two tasks of a kind, the one whose frames come first was ordered
  first, at whichever of the two stages of a broadcast they are (`WellQueued`);
  and a task that waits is not for an order that was written to one of its
  targets, nor for an older one of that kind than was written (`Fits`). For the
  counts, `CountsBacked`: what `messages_sent` counts for an id, online or not,
  and its sends that wait for their drain are at most the frames written for it
  on all connections, as cardinalities of finite sets.

*Both gateways* (assumptions: `GatewayAssumption`, `StreamAssumption`, which only
says that streams are connections). Every step of `TcpNext` is a step of
`WsGateway`'s `Next`, the `Leave`, `HelloFails` or `HandlerEnds` of a stream's
handler, or leaves the gateway's variables alone, so that `BothTablesAgree`,
`BothDeliver` and `BothHandlersDecide` follow from the step lemmas of
`WsGatewayProofs` and those for the three, whatever ids a stream says hello under.
`Leave` can take off the tables a client to which the gateway could still write,
which `OwedIsPending` survives because nothing is owed any more to a stream that
is closed, or to the id taken off. `BothServeOnline` and `BothTrackLive` state
`OnlineHasHandler` and `LiveConnectionTracked`, under the same conditions as above.

*Subsequences* (no assumption). `Only(s, S)` takes the place of `SelectSeq`,
whose recursion the provers cannot open. Its lemmas (what `Only` makes of an
appended element, a concatenation, a tail; how many it keeps) go by induction on
the length of a sequence. The induction theorems of the library cannot be
instantiated here, so `NatSetInduction` and `SeqSetInduction` state induction for a
set instead of a predicate, which suffices when the predicate is a comprehension.

*Client* (assumption: `ClientAssumption`). Any number of messages, calls and
configurations.

- `TypeCorrect`: the types, of which `hand` and `want` depend on the places of
  the two threads; that `results` is empty between calls makes them inductive.
- `ClosedClientIsClosed`: `NoLiveSocketLeft`. Needed with it: a CLOSE on the wire
  means that the gateway has closed, an end of the stream that it has gone.
- `AcknowledgedBeforeSeen`: `AcksKeepPace`. Needed with it: the receive thread is
  about to send an ACK only for a downstream message that is to have one. A client
  that acknowledges everything downstream acknowledges what asks for it.
- `ReceivedInOrder`: `ReceivedExactly`. What the application has, what is in the
  receive thread's hand and what is on the wire are one sequence (`Stream`), which
  taking a frame, queueing it and returning it do not change. It changes only
  when the gateway appends to it, when `close` drops a part of its wire and when a
  reset does: it is always a subsequence of what was sent, in order, and all of it
  while nothing was dropped (`NoneMissing`).

*End to end* (assumptions: those of the gateway, of `Message` and
`ControlClient`, `EndAssumption`, `ScriptAssumption`). `EndToEndProofs` takes an
`INSTANCE` of `WsClientProofs` with the constants of the composition, so the
client's lemmas are cited and not repeated. What is on the wire is the part that
neither component has to itself.

- `EndImplementsGateway`: every step is a step of `WsGateway` or none of it
  (`EndSpec => Spec`). The inductive invariant is `EndTyped`, the types of both
  ends: a frame is decoded into what `HandlerStep` allows because of what
  scripts may say and what the ACK of a client names. `EndKeepsGateway` draws
  the conclusion for five of the gateway's invariants and
  `HandlersDecideWhoIsOnline`.
- `EndKeepsClient`: the client's `AcksKeepPace` and `NoLiveSocketLeft`. Steps in
  which the gateway writes nothing are steps of `WsClient`; the others only
  append a message to the wire.
- `ReceivedIsWritten`: `ReceivedAsWritten`. In the client's `Stream`, the
  orders are, while nothing was dropped, those of `out[Me]`.
- `AcksAreBacked`: `AcksBackedByFrames`, for any scripts that `ScriptAssumption`
  admits, apart from the ACKs that the application writes itself (`OwnAcks`).
  With `BackedInv`: an ACK that is counted was taken (`CountedOK`), and ACKs
  that are written or about to be, together with the orders still on the wire,
  are at most the frames the gateway wrote (`WrittenOK`). An order that is taken
  off the wire turns into the ACK to come.

*Messages* (assumption: `ConversionAssumption`, that `bool()` keeps True and False
and `float()` refuses None). `RoundTrip`: a message whose fields are what their
annotations say (`IsMessage`: a type, `need_ack` True or False, a timestamp that
`float()` gives back) parses after `to_json`, and `FromJson(ToJson(m), now) = m`, by
cases on the field. Its payload is one that JSON gives back as it is. The ACK of
the client is such a message, which `EndToEndProofs` uses.

*Only model-checked.* All liveness properties, since liveness under fairness and
ENABLED are out of the prover's reach: `LockComesFree`, `OrdersAreCarriedOut`,
`EndedConnectionLeaves`, `ServerStops`, `CloseReturns`, `ThreadEnds`,
`MessagesComeOut`, `CountsSettle`, `OnlyAcksStandStill`, `ClosedClientLeaves`.
The findings are counterexamples of TLC. Every invariant and every action
property of a passing run is proved.

## 6. What is not modelled, and the plan

Not modelled, and not planned:

- the HTTP control server: its handlers change nothing and answer from a
  registry of their own, which no gateway shares and which stays empty;
- `Configuration`: constants from the environment, two of them (heartbeat
  interval and client read timeout) used nowhere;
- argument parsing, the subcommand table, `connect_only_with_http` (one HTTP
  request, no state), printing;
- `create_batch_clients`: a loop with a `finally`, in one thread, with no step
  of another actor that would matter in between; what a `close()` of one client
  leaves open is `NoLiveSocketLeft`;
- frames torn between the client's two threads: what the other side makes of
  them depends on bytes that the model does not have.

The models are complete as planned, and the invariants and action properties of
the passing runs are theorems. Left are theorems that no run needs but that say
more, in this order:

1. the safety half of the liveness properties that TLC checks: that a client that
   has left stays off the tables (the box in `EndedConnectionLeaves` and in
   `ClosedClientLeaves`), once its connection has ended and no other uses its id;
2. that a task of an order that is owed is in the queue until it is carried out
   under `TcpSpec`, which is what `OrdersAreCarriedOut` needs besides fairness.
