------------------------------ MODULE WsGateway ------------------------------
(***************************************************************************)
(* The WebSocket gateway: the connection handlers of gateway/ws_server.py, *)
(* the MessageDispatcher of core/dispatcher.py and the ConnectionRegistry  *)
(* they share, on one asyncio event loop.                                  *)
(*                                                                         *)
(* A step is what runs between two awaits.  A handler (one per connection) *)
(* takes a frame and acts on it in one step, except that query_online      *)
(* awaits the reply it sends.  push, group and broadcast only create a     *)
(* task.  Tasks wait in the loop's ready queue, first in first out; the    *)
(* handlers' own turns come from the network, at any time.                 *)
(*                                                                         *)
(* heartbeat() writes last_heartbeat and nothing reads it here, so the     *)
(* clock stands still (Now) and frames that only call heartbeat are no     *)
(* steps.  The locks of the registry never block: there is one thread.     *)
(***************************************************************************)
EXTENDS RegistryOps, Sequences

CONSTANTS Conns,      \* the WebSocket connections there will ever be
          Ids,        \* the client ids
          Anonymous,  \* the id of a client that says hello without one
          NoId,       \* no client_id
          NoKey,      \* a client_id that no dict takes for a key (a list, an object)
          Groups,     \* the group ids
          HelloIds,   \* connection -> the client_ids its hello frames carry
          Overlapping,\* may an id be used by two connections at a time?
          JoinCalls,  \* the <<id, group>> pairs a program with the same registry joins
          MaxIssued,  \* bound: pushes and broadcasts ordered
          MaxAcks     \* bound: ACK frames counted per session

ASSUME GatewayAssumption ==
  /\ Anonymous \in Ids
  /\ NoId \notin Ids /\ NoKey \notin Ids \cup {NoId}
  /\ HelloIds \in [Conns -> SUBSET (Ids \cup {NoId, NoKey})]
  /\ Overlapping \in BOOLEAN
  /\ JoinCalls \subseteq Ids \X Groups
  /\ MaxIssued \in Nat
  /\ MaxAcks \in Nat

VARIABLES
  socket,    \* connection -> "none", "open" or "closed", as the library sees it
             \* (or "closing": see TcpGateway)
  handler,   \* connection -> its _handle_client: "none", "loop" (async for),
             \* "reply" (awaiting websocket.send) or "done"
  clientId,  \* connection -> the local client_id of its handler
  sessions,  \* registry._clients
  groups,    \* registry._groups
  writers,   \* dispatcher._writers
  ready,     \* the tasks created and not finished, in the order they run
  inflight,  \* the sends that wrote their frame and still await the drain
  out,       \* connection -> the downstream frames written to it, in order
  issued,    \* how many pushes and broadcasts were ordered
  owed       \* history: <<n, id, connection>> when order n was given while
             \* id was attached to the open connection it names, until it is
             \* written there or that connection closes or loses the id

netVars == <<socket, handler, clientId>>
coreVars == <<sessions, groups, writers>>
taskVars == <<ready, inflight, out, issued>>
vars == <<netVars, coreVars, taskVars, owed>>

Now == 0
Kinds == {"push", "fan"}

\* A downstream message: the order it carries out, who gave it, how it is
\* delivered, and the client_id it is addressed to.
Frame(n, from, kind, to) == [n |-> n, from |-> from, kind |-> kind, to |-> to]
Frames == [n : 1..MaxIssued, from : Conns, kind : Kinds, to : Ids]

\* A task: push_to_client, broadcast_to_all or broadcast_to_group before its
\* first step, or ("gather") the sends of a broadcast that are still to start.
\* The sends of one broadcast differ in their target only and no property tells
\* their order apart, so they are one element of the queue.
Task(step, n, from, targets) ==
  [step |-> step, n |-> n, from |-> from, targets |-> targets]
Tasks ==
  [step : {"push"}, n : 1..MaxIssued, from : Conns, targets : {{c} : c \in Ids}]
    \cup [step : {"all", "gather"}, n : 1..MaxIssued, from : Conns, targets : SUBSET Ids]
    \cup [step : {"group"}, n : 1..MaxIssued, from : Conns, targets : Groups]

Init == /\ socket = [w \in Conns |-> "none"]
        /\ handler = [w \in Conns |-> "none"]
        /\ clientId = [w \in Conns |-> NoId]
        /\ sessions = <<>> /\ groups = <<>> /\ writers = <<>>
        /\ ready = <<>> /\ inflight = {}
        /\ out = [w \in Conns |-> <<>>]
        /\ issued = 0
        /\ owed = {}

-----------------------------------------------------------------------------
(* Connections *)

Live(w) == handler[w] \in {"loop", "reply"}

\* msg.client_id or "anonymous"
IdOf(c) == IF c = NoId THEN Anonymous ELSE c
IdsOf(w) == {IdOf(c) : c \in HelloIds[w] \ {NoKey}}

\* A client connects and the library starts its handler.  Unless connections
\* may overlap, it waits until no handler is left that uses one of its ids.
Connect(w) ==
  /\ socket[w] = "none"
  /\ Overlapping \/ \A v \in Conns \ {w} : Live(v) => IdsOf(v) \cap IdsOf(w) = {}
  /\ socket' = [socket EXCEPT ![w] = "open"]
  /\ handler' = [handler EXCEPT ![w] = "loop"]
  /\ UNCHANGED <<clientId, coreVars, taskVars, owed>>

\* The connection closes or is lost.  Frames that arrived before are still
\* delivered to the handler.
ConnectionCloses(w) ==
  /\ socket[w] = "open"
  /\ socket' = [socket EXCEPT ![w] = "closed"]
  /\ owed' = {o \in owed : o[3] # w}
  /\ UNCHANGED <<handler, clientId, coreVars, taskVars>>

\* Mutant of CleanUp: the client is dropped from _clients first, and its groups
\* are then looked up there.
CleanUpForgetsGroups(c) ==
  /\ writers' = PopAll(writers, {c})
  /\ sessions' = Unregistered(sessions, c)
  /\ groups' = GroupsWithout(Unregistered(sessions, c), groups, c)

\* What the finally block does to client c: detach and unregister_client.
CleanUp(c) ==
  /\ writers' = PopAll(writers, {c})
  /\ sessions' = Unregistered(sessions, c)
  /\ groups' = GroupsWithout(sessions, groups, c)

\* The handler of w ends, with its finally block.
Ends(w) ==
  /\ handler' = [handler EXCEPT ![w] = "done"]
  /\ IF clientId[w] \in Ids
     THEN CleanUp(clientId[w]) /\ owed' = {o \in owed : o[2] # clientId[w]}
     ELSE UNCHANGED <<coreVars, owed>>
  /\ UNCHANGED <<socket, clientId, taskVars>>

\* async for raised or ended, or the reply could not be sent.
Finish(w) == Live(w) /\ socket[w] = "closed" /\ Ends(w)

-----------------------------------------------------------------------------
(* Frames *)

\* The handler of w is in its loop and takes a frame.
Takes(w) == handler[w] = "loop"

\* Mutant of Hello: attach gets the client_id of the message, not the local one.
HelloAttachesRaw(w, arg) ==
  LET c == IdOf(arg) IN
  /\ Takes(w)
  /\ clientId' = [clientId EXCEPT ![w] = c]
  /\ sessions' = Registered(sessions, c, Now)
  /\ writers' = Assign(writers, arg, w)
  /\ owed' = {o \in owed : o[2] = c => o[3] = w}
  /\ UNCHANGED <<socket, handler, groups, taskVars>>

Hello(w, arg) ==
  LET c == IdOf(arg) IN
  /\ Takes(w)
  /\ clientId' = [clientId EXCEPT ![w] = c]
  /\ sessions' = Registered(sessions, c, Now)
  /\ writers' = Assign(writers, c, w)
  /\ owed' = {o \in owed : o[2] = c => o[3] = w}
  /\ UNCHANGED <<socket, handler, groups, taskVars>>

\* hello with a client_id that is no key: register_client raises, and so does
\* detach in the finally block, so nobody is taken offline.
HelloRaises(w) ==
  /\ Takes(w)
  /\ NoKey \in HelloIds[w]
  /\ clientId' = [clientId EXCEPT ![w] = NoKey]
  /\ handler' = [handler EXCEPT ![w] = "done"]
  /\ UNCHANGED <<socket, coreVars, taskVars, owed>>

\* Any other frame with such a client_id: its registry call raises, and the handler
\* ends with its connection open.  (With a closed one this is Finish.)
FrameRaises(w) == Takes(w) /\ socket[w] = "open" /\ Ends(w)

\* Mutant of Ack: an ACK that is ahead of messages_sent is not counted.
AckClamped(w, c) ==
  /\ Takes(w)
  /\ sessions' = IF c \in DOMAIN sessions /\ sessions[c].acks_received < sessions[c].messages_sent
                 THEN CountedAck(sessions, c) ELSE sessions
  /\ UNCHANGED <<netVars, groups, writers, taskVars, owed>>

\* An ACK counts for the client it names, whichever connection it comes on.
Ack(w, c) ==
  /\ Takes(w)
  /\ c \in DOMAIN sessions => sessions[c].acks_received < MaxAcks
  /\ sessions' = CountedAck(sessions, c)
  /\ UNCHANGED <<netVars, groups, writers, taskVars, owed>>

\* The open connections that the clients in cs are attached to.
Attached(n, cs) ==
  {<<n, c, writers[c]>> : c \in {d \in cs \cap DOMAIN writers : socket[writers[d]] = "open"}}

\* asyncio.create_task: the task is appended to the ready queue.
CreateTask(w, step, targets, addressees) ==
  /\ Takes(w)
  /\ issued < MaxIssued
  /\ issued' = issued + 1
  /\ ready' = Append(ready, Task(step, issued', w, targets))
  /\ owed' = owed \cup Attached(issued', addressees)
  /\ UNCHANGED <<netVars, coreVars, inflight, out>>

\* upstream with op=push: the target named in the payload, else the sender.
Push(w, c) == CreateTask(w, "push", {c}, {c})

\* upstream with op=group and a group_id.
GroupPush(w, g) == CreateTask(w, "group", g, Members(groups, g))

\* upstream with op=broadcast, and upstream without an op.
Broadcast(w) == CreateTask(w, "all", {}, Ids)

\* upstream with op=query_online: the statistics are sent back to w, and the
\* handler takes no other frame until that send returns.
QueryOnline(w) ==
  /\ Takes(w)
  /\ handler' = [handler EXCEPT ![w] = "reply"]
  /\ UNCHANGED <<socket, clientId, coreVars, taskVars, owed>>

ReplySent(w) ==
  /\ handler[w] = "reply"
  /\ handler' = [handler EXCEPT ![w] = "loop"]
  /\ UNCHANGED <<socket, clientId, coreVars, taskVars, owed>>

-----------------------------------------------------------------------------
(* Tasks: one step of the task at the head of the ready queue *)

\* A send on w writes its frame, and does not raise.
Writable(w) == socket[w] \in {"open", "closing"}

\* Mutant of Transmit: a send that raises is counted as well.
TransmitSwallows(n, from, kind, to) ==
  IF to \in DOMAIN writers
  THEN LET w == writers[to] IN
       /\ out' = IF Writable(w)
                 THEN [out EXCEPT ![w] = Append(@, Frame(n, from, kind, to))]
                 ELSE out
       /\ inflight' = inflight \cup {<<n, to, w>>}
       /\ owed' = owed \ {<<n, to, w>>}
  ELSE UNCHANGED <<out, inflight, owed>>

\* _send_message up to its first await: nothing without a writer, an exception
\* that ends this send alone when the writer is closed, else the frame is
\* written and the send waits for the drain.
Transmit(n, from, kind, to) ==
  IF to \in DOMAIN writers /\ Writable(writers[to])
  THEN LET w == writers[to] IN
       /\ out' = [out EXCEPT ![w] = Append(@, Frame(n, from, kind, to))]
       /\ inflight' = inflight \cup {<<n, to, w>>}
       /\ owed' = owed \ {<<n, to, w>>}
  ELSE UNCHANGED <<out, inflight, owed>>

Running(step) == ready # <<>> /\ Head(ready).step = step

RunPush ==
  LET t == Head(ready) IN
  /\ Running("push")
  /\ \E c \in t.targets : Transmit(t.n, t.from, "push", c)
  /\ ready' = Tail(ready)
  /\ UNCHANGED <<netVars, coreVars, issued>>

\* broadcast: gather schedules one send for each client, behind the tasks that
\* are already in the queue.
Gather(t, clients) ==
  /\ ready' = Append(Tail(ready), Task("gather", t.n, t.from, clients))
  /\ UNCHANGED <<netVars, coreVars, inflight, out, issued, owed>>

\* Mutant of RunAll: nothing holds the task once the handler that created it has
\* ended, and it is collected.
RunAllCollected ==
  LET t == Head(ready) IN
  /\ Running("all")
  /\ Gather(t, IF Live(t.from) THEN DOMAIN sessions ELSE {})

\* broadcast_to_all: the clients that are online now.
RunAll == Running("all") /\ Gather(Head(ready), DOMAIN sessions)

\* Mutant of RunGroup: the sender is left out.
RunGroupOthers ==
  LET t == Head(ready) IN
  /\ Running("group")
  /\ Gather(t, Members(groups, t.targets) \ {clientId[t.from]})

\* broadcast_to_group: the clients that are members now.
RunGroup == Running("group") /\ Gather(Head(ready), Members(groups, Head(ready).targets))

\* Mutant of Continue: the first send that raises ends the broadcast.
ContinueUnlessRaised(t, c) ==
  ready' = IF c \in DOMAIN writers /\ socket[writers[c]] = "closed"
           THEN Tail(ready)
           ELSE <<Task("gather", t.n, t.from, t.targets \ {c})>> \o Tail(ready)

\* Mutant of Continue: the broadcast gives way to other tasks between sends.
ContinueLater(t, c) ==
  ready' = Append(Tail(ready), Task("gather", t.n, t.from, t.targets \ {c}))

\* With its send to c started or failed, the broadcast is left with the others.
Continue(t, c) ==
  ready' = <<Task("gather", t.n, t.from, t.targets \ {c})>> \o Tail(ready)

\* The next send of a broadcast, if there is one left.
RunGather ==
  LET t == Head(ready) IN
  /\ Running("gather")
  /\ \/ /\ t.targets = {}
        /\ ready' = Tail(ready)
        /\ UNCHANGED <<out, inflight, owed>>
     \/ \E c \in t.targets :
          /\ Transmit(t.n, t.from, "fan", c)
          /\ Continue(t, c)
  /\ UNCHANGED <<netVars, coreVars, issued>>

\* The drain is over: the message counts for whoever has the client_id now.
SendReturns(s) ==
  /\ s \in inflight
  /\ inflight' = inflight \ {s}
  /\ sessions' = CountedSent(sessions, s[2])
  /\ UNCHANGED <<netVars, groups, writers, ready, out, issued, owed>>

\* Mutant of SendRaises: the send is tried again.
SendRaisesRetries(s) ==
  /\ s \in inflight
  /\ socket[s[3]] = "closed"
  /\ inflight' = inflight \ {s}
  /\ ready' = Append(ready, Task("push", s[1], s[3], {s[2]}))
  /\ UNCHANGED <<netVars, coreVars, out, issued, owed>>

\* Mutant of SendRaises: the client whose send failed is disconnected.
SendRaisesDetaches(s) ==
  /\ s \in inflight
  /\ socket[s[3]] = "closed"
  /\ inflight' = inflight \ {s}
  /\ writers' = PopAll(writers, {s[2]})
  /\ sessions' = Unregistered(sessions, s[2])
  /\ groups' = GroupsWithout(sessions, groups, s[2])
  /\ UNCHANGED <<netVars, ready, out, issued, owed>>

\* The connection is lost before the drain is over: the send raises.
SendRaises(s) ==
  /\ s \in inflight
  /\ socket[s[3]] = "closed"
  /\ inflight' = inflight \ {s}
  /\ UNCHANGED <<netVars, coreVars, ready, out, issued, owed>>

\* add_client_to_group, called by a program that has the same registry.  Nothing
\* in the repository calls it on a gateway's.
JoinGroup(c, g) ==
  /\ sessions' = SessionsJoined(sessions, c, g, Now)
  /\ groups' = GroupsJoined(groups, c, g)
  /\ UNCHANGED <<netVars, writers, taskVars, owed>>

-----------------------------------------------------------------------------
HandlerStep(w) == \/ \E c \in HelloIds[w] \ {NoKey} : Hello(w, c)
                  \/ HelloRaises(w) \/ FrameRaises(w)
                  \/ \E c \in Ids : Ack(w, c) \/ Push(w, c)
                  \/ \E g \in Groups : GroupPush(w, g)
                  \/ Broadcast(w)
                  \/ QueryOnline(w)
                  \/ ReplySent(w)
                  \/ Finish(w)

RunTask == RunPush \/ RunAll \/ RunGroup \/ RunGather

Sends == (1..MaxIssued) \X Ids \X Conns

\* The program joins clients that are online: the others it would make sessions for,
\* which no connection has and no handler ends.
OnlineJoins == {j \in JoinCalls : j[1] \in DOMAIN sessions}

Next == \/ \E w \in Conns : Connect(w) \/ ConnectionCloses(w) \/ HandlerStep(w)
        \/ RunTask
        \/ \E s \in Sends : SendReturns(s) \/ SendRaises(s)
        \/ \E j \in OnlineJoins : JoinGroup(j[1], j[2])

Spec == Init /\ [][Next]_vars

\* The loop runs every task in its queue and resumes a handler whose connection
\* has closed.  Nothing makes a client connect, send, read or close.
Fairness == WF_vars(RunTask) /\ \A w \in Conns : WF_vars(Finish(w))
FairSpec == Spec /\ Fairness

-----------------------------------------------------------------------------
(* Properties *)

\* The state is made of the tables, tasks and frames of the code.
TypeOK ==
  /\ socket \in [Conns -> {"none", "open", "closing", "closed"}]
  /\ handler \in [Conns -> {"none", "loop", "reply", "done"}]
  /\ clientId \in [Conns -> Ids \cup {NoId, NoKey}]
  /\ IsSessionMap(sessions, Ids, Groups)
  /\ IsGroupMap(groups, Ids, Groups)
  /\ DOMAIN writers \subseteq Ids /\ writers \in [DOMAIN writers -> Conns]
  /\ ready \in Seq(Tasks)
  /\ inflight \subseteq Sends
  /\ out \in [Conns -> Seq(Frames)]
  /\ issued \in 0..MaxIssued
  /\ owed \subseteq Sends

\* The registry and the dispatcher agree on who is online, though they are two
\* tables that the handlers change by separate calls and that sends and ACKs for
\* clients long gone still refer to: a client that list_online_clients names has
\* a writer, and a client with a writer is counted.  (To join a client that is not
\* online would break it, since add_client_to_group makes a session for it.)
TablesAgree == DOMAIN writers = DOMAIN sessions

Joined(gs, c) == {g \in Groups : c \in Members(gs, g)}

\* Who is online changes in two ways only, whatever sends, ACKs, joins and closings
\* are under way: a client comes online when a running handler takes its id and
\* attaches its own connection, and has none of the memberships that the id may
\* have had before; it goes offline when a handler with its id ends; and in
\* between it loses no membership.
HandlersDecideWhoIsOnline ==
  [][/\ \A c \in DOMAIN sessions' \ DOMAIN sessions :
          /\ \E w \in Conns : Live(w) /\ clientId'[w] = c /\ writers'[c] = w
          /\ Joined(groups', c) = {}
     /\ \A c \in DOMAIN sessions \ DOMAIN sessions' :
          \E w \in Conns : Live(w) /\ handler'[w] = "done" /\ clientId[w] = c
     /\ \A c \in DOMAIN sessions \cap DOMAIN sessions' :
          Joined(groups, c) \subseteq Joined(groups', c)]_vars

\* The handler of w ends because its connection has closed.
EndsWithConnection(w) == socket[w] = "closed" /\ Live(w) /\ handler'[w] = "done"

\* The end of a connection detaches the clients that are attached to it, and nobody
\* else: not a client that has come back on another connection since.
EndTakesItsOwn ==
  [][\A w \in Conns : EndsWithConnection(w) =>
       DOMAIN writers' = {c \in DOMAIN writers : writers[c] # w}]_vars

\* An online client is the one a running handler serves.  Nobody stays online
\* once the handler that registered it has run its finally block.
OnlineHasHandler ==
  \A c \in DOMAIN sessions :
    c \in DOMAIN writers /\ Live(writers[c]) /\ clientId[writers[c]] = c

\* A client that said hello stays reachable on its connection until that
\* connection ends: it is online, and what is sent to it goes there.
LiveConnectionTracked ==
  \A w \in Conns : Live(w) /\ clientId[w] \in Ids =>
    /\ clientId[w] \in DOMAIN sessions
    /\ clientId[w] \in DOMAIN writers
    /\ writers[clientId[w]] = w

\* Whom a task is going to send to, if the registry is in state ss, gs by then.
StillReaches(t, ss, gs) ==
  CASE t.step = "all"   -> DOMAIN ss
    [] t.step = "group" -> Members(gs, t.targets)
    [] OTHER            -> t.targets

\* One of the tasks in q is to send order o[1] to o[2].
Pending(o, q, ss, gs) ==
  \E i \in 1..Len(q) : q[i].n = o[1] /\ o[2] \in StillReaches(q[i], ss, gs)

\* Nobody is forgotten.  The recipients of a broadcast are looked up when its
\* task runs, after other handlers have registered and unregistered clients;
\* yet a client that was attached when the order was given, and has been ever
\* since, has its frame or is among those that a waiting task will reach.
OwedIsPending == \A o \in owed : Pending(o, ready, sessions, groups)

\* No client gets the frame of one order twice, on one connection or on the two
\* that it had before and after it reconnected.
DeliveredOnce ==
  \A v, w \in Conns : \A i \in 1..Len(out[v]), j \in 1..Len(out[w]) :
    (out[v][i].n = out[w][j].n /\ out[v][i].to = out[w][j].to) => v = w /\ i = j

\* What one client orders for another arrives in the order given, pushes among
\* pushes and broadcasts among broadcasts.  (A push does overtake a broadcast
\* that was ordered before it: the broadcast takes one more turn of the loop.)
SameKindInOrder ==
  \A w \in Conns : \A i, j \in 1..Len(out[w]) :
    ( /\ i < j
      /\ out[w][i].from = out[w][j].from
      /\ out[w][i].kind = out[w][j].kind
      /\ out[w][i].to = out[w][j].to ) => out[w][i].n < out[w][j].n

\* messages_sent of a client never claims a frame that was not written to it,
\* though it is counted after the drain, under whatever session the client has
\* by then: the frames counted and those that are about to be are at most those
\* written for that client.
SentWasWritten ==
  \A c \in DOMAIN sessions :
    sessions[c].messages_sent + Cardinality({s \in inflight : s[2] = c})
      <= Cardinality({p \in Conns \X (1..MaxIssued) :
                        \E i \in 1..Len(out[p[1]]) :
                          out[p[1]][i].n = p[2] /\ out[p[1]][i].to = c})

\* Every order is carried out: its frame is written for each client that was
\* attached when it was given, unless that client goes away first.
OrdersAreCarriedOut ==
  \A s \in Sends : (s \in owed) ~> (s \notin owed)
=============================================================================
