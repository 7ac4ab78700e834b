--------------------------- MODULE WsGatewayProofs ---------------------------
(***************************************************************************)
(* What the WebSocket gateway guarantees for any number of connections,    *)
(* ids, groups and orders.  IInv is inductive without any assumption on    *)
(* who says hello as whom.  The theorems further down add to it what they  *)
(* need: one id per connection, exclusive ids, the owed frames, or what    *)
(* is written next to what waits.                                          *)
(***************************************************************************)
EXTENDS WsGateway, RegistryOpsProofs, FiniteSetTheorems

\* The tables that the registry and the dispatcher keep.
CoreOK ==
  /\ clientId \in [Conns -> Ids \cup {NoId, NoKey}]
  /\ IsSessionMap(sessions, Ids, Groups)
  /\ IsGroupMap(groups, Ids, Groups)
  /\ DOMAIN writers \subseteq Ids /\ writers \in [DOMAIN writers -> Conns]
  /\ TablesAgree
  /\ IndexAgrees(sessions, groups, Ids, Groups)

\* The rest of the type invariant: the connections and the tasks.
QueueOK ==
  /\ socket \in [Conns -> {"none", "open", "closing", "closed"}]
  /\ handler \in [Conns -> {"none", "loop", "reply", "done"}]
  /\ ready \in Seq(Tasks)
  /\ inflight \subseteq Sends
  /\ out \in [Conns -> Seq(Frames)]
  /\ issued \in 0..MaxIssued
  /\ owed \subseteq Sends

IInv == CoreOK /\ QueueOK

\* A handler of a WebSocket ends.  (HelloRaises has no part in it: the finally block
\* fails at once.)
Ended(w) == Finish(w) \/ FrameRaises(w)

LEMMA EndedEnds ==
  ASSUME NEW w \in Conns, Ended(w)
  PROVE  Live(w) /\ Ends(w)
  BY DEF Ended, Finish, FrameRaises, Takes, Live

LEMMA HelloIdsFacts ==
  ASSUME NEW w \in Conns, NEW c \in HelloIds[w] \ {NoKey}
  PROVE  IdOf(c) \in Ids /\ IdOf(c) \in IdsOf(w) /\ IdOf(c) # NoId
  BY GatewayAssumption DEF IdOf, IdsOf

-----------------------------------------------------------------------------
(* The tables *)

LEMMA HelloKeepsCore ==
  ASSUME CoreOK, NEW w \in Conns, NEW c \in HelloIds[w] \ {NoKey}, Hello(w, c)
  PROVE  CoreOK'
<1> DEFINE d == IdOf(c)
<1>1. d \in Ids
  BY HelloIdsFacts
<1> HIDE DEF d
<1>2. /\ clientId' = [clientId EXCEPT ![w] = d]
      /\ sessions' = Registered(sessions, d, Now)
      /\ writers' = [x \in DOMAIN writers \cup {d} |-> IF x = d THEN w ELSE writers[x]]
      /\ groups' = groups
  BY DEF Hello, Assign, d
<1>3. Now \in Nat
  BY DEF Now
<1>4. /\ IsSessionMap(Registered(sessions, d, Now), Ids, Groups)
      /\ IndexAgrees(Registered(sessions, d, Now), groups, Ids, Groups)
  BY <1>1, <1>3, RegisteredFacts DEF CoreOK
<1>5. DOMAIN Registered(sessions, d, Now) = DOMAIN sessions \cup {d}
  BY DEF Registered, Assign
<1>6. /\ clientId' \in [Conns -> Ids \cup {NoId, NoKey}]
      /\ DOMAIN writers' = DOMAIN writers \cup {d}
      /\ DOMAIN writers' \subseteq Ids /\ writers' \in [DOMAIN writers' -> Conns]
  BY <1>1, <1>2 DEF CoreOK
<1>7. QED
  BY <1>2, <1>4, <1>5, <1>6 DEF CoreOK, TablesAgree

LEMMA CleanUpKeepsCore ==
  ASSUME CoreOK, NEW c \in Ids, CleanUp(c), clientId' = clientId
  PROVE  CoreOK'
<1>1. /\ IsSessionMap(Unregistered(sessions, c), Ids, Groups)
      /\ IsGroupMap(GroupsWithout(sessions, groups, c), Ids, Groups)
      /\ IndexAgrees(Unregistered(sessions, c), GroupsWithout(sessions, groups, c), Ids, Groups)
  BY UnregisteredFacts DEF CoreOK
<1>2. /\ writers' = [x \in DOMAIN writers \ {c} |-> writers[x]]
      /\ DOMAIN sessions' = DOMAIN sessions \ {c}
  BY DEF CleanUp, PopAll, Unregistered
<1>3. QED
  BY <1>1, <1>2 DEF CleanUp, CoreOK, TablesAgree

\* Counting a message or an ACK touches one session and no other table.
LEMMA CountingKeepsCore ==
  ASSUME CoreOK, NEW c \in Ids, UNCHANGED <<clientId, groups, writers>>,
         sessions' \in {CountedSent(sessions, c), CountedAck(sessions, c)}
  PROVE  CoreOK' /\ DOMAIN sessions' = DOMAIN sessions
<1>1. /\ IsSessionMap(sessions', Ids, Groups)
      /\ DOMAIN sessions' = DOMAIN sessions
      /\ IndexAgrees(sessions', groups, Ids, Groups)
  <2>1. ASSUME NEW next \in {HeardOf(sessions, c, 0), CountedSent(sessions, c),
                            CountedAck(sessions, c)}
        PROVE  /\ IsSessionMap(next, Ids, Groups)
               /\ IndexAgrees(next, groups, Ids, Groups)
    <3>1. IsSessionMap(sessions, Ids, Groups) /\ IndexAgrees(sessions, groups, Ids, Groups)
      BY DEF CoreOK
    <3>2. 0 \in Nat
      OBVIOUS
    <3>3. QED
      BY <3>1, <3>2, TouchedFacts
  <2>2. DOMAIN sessions' = DOMAIN sessions
    BY DEF CountedSent, CountedAck
  <2>3. QED
    BY <2>1, <2>2
<1>2. QED
  BY <1>1 DEF CoreOK, TablesAgree

LEMMA JoinKeepsCore ==
  ASSUME CoreOK, NEW j \in OnlineJoins, JoinGroup(j[1], j[2])
  PROVE  CoreOK' /\ DOMAIN sessions' = DOMAIN sessions
<1> DEFINE c == j[1]
           g == j[2]
<1>1. c \in Ids /\ g \in Groups /\ c \in DOMAIN sessions /\ Now \in Nat
  BY GatewayAssumption DEF OnlineJoins, Now
<1>2. /\ sessions' = SessionsJoined(sessions, c, g, Now)
      /\ groups' = GroupsJoined(groups, c, g)
      /\ UNCHANGED <<clientId, writers>>
  BY DEF JoinGroup, netVars
<1> HIDE DEF c, g
<1>3. /\ IsSessionMap(SessionsJoined(sessions, c, g, Now), Ids, Groups)
      /\ IsGroupMap(GroupsJoined(groups, c, g), Ids, Groups)
      /\ IndexAgrees(SessionsJoined(sessions, c, g, Now), GroupsJoined(groups, c, g), Ids, Groups)
  BY <1>1, JoinedFacts DEF CoreOK
<1>4. DOMAIN sessions' = DOMAIN sessions
  BY <1>1, <1>2 DEF SessionsJoined, Assign
<1>5. QED
  BY <1>2, <1>3, <1>4 DEF CoreOK, TablesAgree

\* The actions that leave the tables alone.
LEMMA OthersKeepCore ==
  ASSUME Next,
         ~ \E w \in Conns : \/ \E c \in HelloIds[w] \ {NoKey} : Hello(w, c)
                            \/ \E c \in Ids : Ack(w, c)
                            \/ HelloRaises(w) \/ Ended(w),
         ~ \E s \in Sends : SendReturns(s),
         ~ \E j \in OnlineJoins : JoinGroup(j[1], j[2])
  PROVE  UNCHANGED <<clientId, coreVars>>
<1>1. ASSUME NEW w \in Conns, Connect(w) \/ ConnectionCloses(w) \/ HandlerStep(w)
      PROVE  UNCHANGED <<clientId, coreVars>>
  BY <1>1 DEF Connect, ConnectionCloses, HandlerStep, Ended, Push, GroupPush, Broadcast, CreateTask,
     QueryOnline, ReplySent, netVars
<1>2. ASSUME RunTask \/ \E s \in Sends : SendRaises(s)
      PROVE  UNCHANGED <<clientId, coreVars>>
  BY <1>2 DEF RunTask, RunPush, RunAll, RunGroup, RunGather, Gather, SendRaises, netVars
<1>3. QED
  BY <1>1, <1>2 DEF Next

LEMMA StepKeepsCore ==
  ASSUME CoreOK, [Next]_vars
  PROVE  CoreOK'
<1>1. ASSUME NEW w \in Conns, NEW c \in HelloIds[w] \ {NoKey}, Hello(w, c)
      PROVE  CoreOK'
  BY <1>1, HelloKeepsCore
<1>2. ASSUME NEW w \in Conns, NEW c \in Ids, Ack(w, c)
      PROVE  CoreOK'
  BY <1>2, CountingKeepsCore DEF Ack, netVars
<1>3. ASSUME NEW w \in Conns, Ends(w)
      PROVE  CoreOK'
  <2>1. CASE clientId[w] \notin Ids
    BY <1>3, <2>1 DEF Ends, CoreOK, coreVars, TablesAgree
  <2>2. CASE clientId[w] \in Ids
    BY <1>3, <2>2, CleanUpKeepsCore DEF Ends
  <2>3. QED
    BY <2>1, <2>2
<1>4. ASSUME NEW s \in Sends, SendReturns(s)
      PROVE  CoreOK'
  <2>1. s[2] \in Ids
    BY DEF Sends
  <2>2. QED
    BY <1>4, <2>1, CountingKeepsCore DEF SendReturns, netVars
<1>5. ASSUME NEW j \in OnlineJoins, JoinGroup(j[1], j[2])
      PROVE  CoreOK'
  BY <1>5, JoinKeepsCore
<1>6. ASSUME UNCHANGED <<clientId, coreVars>>
      PROVE  CoreOK'
  BY <1>6 DEF CoreOK, coreVars, TablesAgree
<1>7. ASSUME NEW w \in Conns, HelloRaises(w)
      PROVE  CoreOK'
  BY <1>7 DEF HelloRaises, CoreOK, coreVars, TablesAgree
<1>8. QED
  BY <1>1, <1>2, <1>3, <1>4, <1>5, <1>6, <1>7, EndedEnds, OthersKeepCore DEF vars, netVars

-----------------------------------------------------------------------------
(* The connections and the tasks *)

\* What a broadcast puts in the queue, and what is left of it after one send.
LEMMA GatherTasks ==
  ASSUME QueueOK, ready # <<>>, NEW cs \in SUBSET Ids
  PROVE  /\ Head(ready) \in Tasks /\ Tail(ready) \in Seq(Tasks)
         /\ Task("gather", Head(ready).n, Head(ready).from, cs) \in Tasks
  BY DEF QueueOK, Tasks, Task

\* A send starts with a frame for its addressee or has no effect.
LEMMA TransmitKeepsQueue ==
  ASSUME CoreOK, QueueOK, NEW n \in 1..MaxIssued, NEW from \in Conns, NEW kind \in Kinds,
         NEW to \in Ids, Transmit(n, from, kind, to)
  PROVE  inflight' \subseteq Sends /\ out' \in [Conns -> Seq(Frames)] /\ owed' \subseteq Sends
<1>1. CASE to \in DOMAIN writers /\ Writable(writers[to])
  <2>1. writers[to] \in Conns
    BY <1>1 DEF CoreOK
  <2>2. Frame(n, from, kind, to) \in Frames
    BY DEF Frame, Frames
  <2>3. <<n, to, writers[to]>> \in Sends
    BY <2>1 DEF Sends
  <2>4. out' = [out EXCEPT ![writers[to]] = Append(@, Frame(n, from, kind, to))]
        /\ inflight' = inflight \cup {<<n, to, writers[to]>>}
        /\ owed' = owed \ {<<n, to, writers[to]>>}
    BY <1>1 DEF Transmit
  <2>5. out' \in [Conns -> Seq(Frames)]
    BY <2>1, <2>2, <2>4 DEF QueueOK
  <2>6. QED
    BY <2>3, <2>4, <2>5 DEF QueueOK
<1>2. CASE ~(to \in DOMAIN writers /\ Writable(writers[to]))
  BY <1>2 DEF Transmit, QueueOK
<1>3. QED
  BY <1>1, <1>2

LEMMA CreateTaskKeepsQueue ==
  ASSUME CoreOK, QueueOK, NEW w \in Conns, NEW step, NEW targets, NEW addressees \in SUBSET Ids,
         \/ step = "push" /\ targets \in {{c} : c \in Ids}
         \/ step = "all" /\ targets \in SUBSET Ids
         \/ step = "group" /\ targets \in Groups,
         CreateTask(w, step, targets, addressees)
  PROVE  QueueOK'
<1>1. issued + 1 \in 1..MaxIssued /\ issued' = issued + 1
  BY GatewayAssumption DEF CreateTask, QueueOK
<1>2. Task(step, issued', w, targets) \in Tasks
  BY <1>1 DEF Task, Tasks
<1>3. ready' \in Seq(Tasks)
  BY <1>2 DEF CreateTask, QueueOK
<1>4. owed' \subseteq Sends
  BY <1>1 DEF CreateTask, QueueOK, Attached, Sends, CoreOK
<1>5. QED
  BY <1>1, <1>3, <1>4 DEF CreateTask, QueueOK, netVars

LEMMA HandlerKeepsQueue ==
  ASSUME CoreOK, QueueOK, NEW w \in Conns,
         Connect(w) \/ ConnectionCloses(w) \/ HandlerStep(w)
  PROVE  QueueOK'
<1>1. CASE Connect(w) \/ ConnectionCloses(w) \/ QueryOnline(w) \/ ReplySent(w)
  BY <1>1 DEF Connect, ConnectionCloses, QueryOnline, ReplySent, QueueOK, taskVars
<1>2. CASE HelloRaises(w) \/ Ended(w)
  <2>1. CASE HelloRaises(w)
    BY <2>1 DEF HelloRaises, QueueOK, taskVars
  <2>2. CASE Ends(w)
    BY <2>2 DEF Ends, QueueOK, taskVars
  <2>3. QED
    BY <1>2, <2>1, <2>2, EndedEnds
<1>3. ASSUME NEW c \in HelloIds[w] \ {NoKey}, Hello(w, c)
      PROVE  QueueOK'
  BY <1>3 DEF Hello, QueueOK, taskVars
<1>4. ASSUME NEW c \in Ids, Ack(w, c)
      PROVE  QueueOK'
  BY <1>4 DEF Ack, QueueOK, netVars, taskVars
<1>5. ASSUME NEW c \in Ids, Push(w, c)
      PROVE  QueueOK'
  BY <1>5, CreateTaskKeepsQueue DEF Push
<1>6. ASSUME NEW g \in Groups, GroupPush(w, g)
      PROVE  QueueOK'
  <2>1. Members(groups, g) \in SUBSET Ids
    BY DEF CoreOK, IsGroupMap, Members, GetOr
  <2>2. QED
    BY <1>6, <2>1, CreateTaskKeepsQueue DEF GroupPush
<1>7. CASE Broadcast(w)
  BY <1>7, CreateTaskKeepsQueue DEF Broadcast
<1>8. QED
  BY <1>1, <1>2, <1>3, <1>4, <1>5, <1>6, <1>7 DEF HandlerStep, Ended

LEMMA TaskKeepsQueue ==
  ASSUME CoreOK, QueueOK, RunTask
  PROVE  QueueOK'
<1> DEFINE t == Head(ready)
<1>1. ready # <<>>
  BY DEF RunTask, RunPush, RunAll, RunGroup, RunGather, Running
<1>2. /\ t \in Tasks /\ Tail(ready) \in Seq(Tasks)
      /\ \A cs \in SUBSET Ids : Task("gather", t.n, t.from, cs) \in Tasks
  BY <1>1, GatherTasks
<1>3. t.n \in 1..MaxIssued /\ t.from \in Conns
  BY <1>2 DEF Tasks
<1>4. t.step \in {"push", "gather"} => t.targets \in SUBSET Ids
  BY <1>2 DEF Tasks
<1>5. ASSUME NEW cs \in SUBSET Ids, Gather(t, cs)
      PROVE  QueueOK'
  BY <1>2, <1>5 DEF Gather, QueueOK, netVars
<1>6. CASE RunAll
  <2>1. DOMAIN sessions \in SUBSET Ids
    BY DEF CoreOK, IsSessionMap
  <2>2. QED
    BY <1>5, <1>6, <2>1 DEF RunAll
<1>7. CASE RunGroup
  <2>1. Members(groups, t.targets) \in SUBSET Ids
    BY DEF CoreOK, IsGroupMap, Members, GetOr
  <2>2. QED
    BY <1>5, <1>7, <2>1 DEF RunGroup
<1>8. CASE RunPush
  <2>1. PICK c \in t.targets : Transmit(t.n, t.from, "push", c)
    BY <1>8 DEF RunPush
  <2>2. c \in Ids /\ "push" \in Kinds
    BY <1>4, <1>8, <2>1 DEF RunPush, Running, Kinds
  <2>3. inflight' \subseteq Sends /\ out' \in [Conns -> Seq(Frames)] /\ owed' \subseteq Sends
    BY <1>3, <2>1, <2>2, TransmitKeepsQueue
  <2>4. QED
    BY <1>2, <1>8, <2>3 DEF RunPush, QueueOK, netVars
<1>9. CASE RunGather
  <2>1. CASE t.targets = {} /\ ready' = Tail(ready) /\ UNCHANGED <<out, inflight, owed>>
    BY <1>2, <1>9, <2>1 DEF RunGather, QueueOK, netVars
  <2>2. ASSUME NEW c \in t.targets, Transmit(t.n, t.from, "fan", c), Continue(t, c)
        PROVE  QueueOK'
    <3>1. c \in Ids /\ t.targets \ {c} \in SUBSET Ids /\ "fan" \in Kinds
      BY <1>4, <1>9, <2>2 DEF RunGather, Running, Kinds
    <3>2. inflight' \subseteq Sends /\ out' \in [Conns -> Seq(Frames)] /\ owed' \subseteq Sends
      BY <1>3, <2>2, <3>1, TransmitKeepsQueue
    <3>3. ready' \in Seq(Tasks)
      BY <1>2, <2>2, <3>1 DEF Continue
    <3>4. QED
      BY <1>9, <3>2, <3>3 DEF RunGather, QueueOK, netVars
  <2>3. QED
    BY <1>9, <2>1, <2>2 DEF RunGather
<1>10. QED
  BY <1>6, <1>7, <1>8, <1>9 DEF RunTask

LEMMA StepKeepsQueue ==
  ASSUME CoreOK, QueueOK, [Next]_vars
  PROVE  QueueOK'
<1>1. ASSUME NEW s \in Sends, SendReturns(s) \/ SendRaises(s)
      PROVE  QueueOK'
  BY <1>1 DEF SendReturns, SendRaises, QueueOK, netVars
<1>2. ASSUME NEW j \in OnlineJoins, JoinGroup(j[1], j[2])
      PROVE  QueueOK'
  BY <1>2 DEF JoinGroup, QueueOK, netVars, taskVars
<1>3. CASE UNCHANGED vars
  BY <1>3 DEF vars, netVars, taskVars, QueueOK
<1>4. QED
  BY <1>1, <1>2, <1>3, HandlerKeepsQueue, TaskKeepsQueue DEF Next

-----------------------------------------------------------------------------
LEMMA InitIInv == Init => IInv
  BY GatewayAssumption DEF Init, IInv, CoreOK, QueueOK, TablesAgree,
     IsSessionMap, IsGroupMap, IndexAgrees, Members, GetOr

LEMMA StepIInv == IInv /\ [Next]_vars => IInv'
  BY StepKeepsCore, StepKeepsQueue DEF IInv

\* The gateway's tables, tasks and frames keep their form.
THEOREM GatewayTypeCorrect == Spec => []TypeOK
<1>1. IInv => TypeOK
  BY DEF IInv, CoreOK, QueueOK, TypeOK
<1>2. QED
  BY <1>1, InitIInv, StepIInv, PTL DEF Spec

\* The registry and the dispatcher name the same clients between any two steps
\* of the loop, whoever says hello as whom.
THEOREM GatewayTablesAgree == Spec => []TablesAgree
<1>1. IInv => TablesAgree
  BY DEF IInv, CoreOK
<1>2. QED
  BY <1>1, InitIInv, StepIInv, PTL DEF Spec

-----------------------------------------------------------------------------
(* Who decides who is online *)

\* One step of HandlersDecideWhoIsOnline.
Decided ==
  /\ \A c \in DOMAIN sessions' \ DOMAIN sessions :
       /\ \E w \in Conns : Live(w) /\ clientId'[w] = c /\ writers'[c] = w
       /\ Joined(groups', c) = {}
  /\ \A c \in DOMAIN sessions \ DOMAIN sessions' :
       \E w \in Conns : Live(w) /\ handler'[w] = "done" /\ clientId[w] = c
  /\ \A c \in DOMAIN sessions \cap DOMAIN sessions' :
       Joined(groups, c) \subseteq Joined(groups', c)

LEMMA HelloDecides ==
  ASSUME CoreOK, NEW w \in Conns, NEW c \in HelloIds[w] \ {NoKey}, Hello(w, c)
  PROVE  Decided
<1> DEFINE d == IdOf(c)
<1>1. /\ d \in Ids /\ Live(w) /\ groups' = groups
      /\ clientId'[w] = d /\ writers'[d] = w
      /\ DOMAIN sessions' = DOMAIN sessions \cup {d}
  BY HelloIdsFacts DEF Hello, Takes, Live, CoreOK, Registered, Assign
<1> HIDE DEF d
<1>2. d \notin DOMAIN sessions => Joined(groups, d) = {}
  BY <1>1 DEF CoreOK, IndexAgrees, Joined
<1>3. QED
  BY <1>1, <1>2 DEF Decided, Joined

LEMMA EndDecides ==
  ASSUME CoreOK, NEW w \in Conns, Live(w), handler'[w] = "done", clientId[w] \in Ids,
         CleanUp(clientId[w])
  PROVE  Decided
<1> DEFINE c == clientId[w]
<1>1. /\ DOMAIN sessions' = DOMAIN sessions \ {c}
      /\ groups' = GroupsWithout(sessions, groups, c)
  BY DEF CleanUp, Unregistered, PopAll
<1> HIDE DEF c
<1>2. \A d, g : d # c /\ d \in Members(groups, g) => d \in Members(groups', g)
  BY <1>1 DEF GroupsWithout, Members, GetOr
<1>3. QED
  BY <1>1, <1>2 DEF Decided, Joined, c

LEMMA JoinDecides ==
  ASSUME CoreOK, NEW j \in OnlineJoins, JoinGroup(j[1], j[2])
  PROVE  Decided
<1>1. DOMAIN sessions' = DOMAIN sessions
  BY JoinKeepsCore
<1>2. \A d, g : d \in Members(groups, g) => d \in Members(groups', g)
  BY DEF JoinGroup, GroupsJoined, Assign, Members, GetOr
<1>3. QED
  BY <1>1, <1>2 DEF Decided, Joined

LEMMA NobodyMoves ==
  ASSUME DOMAIN sessions' = DOMAIN sessions, groups' = groups
  PROVE  Decided
  BY DEF Decided, Joined

LEMMA StepDecides ==
  ASSUME IInv, [Next]_vars
  PROVE  Decided
<1>1. CoreOK
  BY DEF IInv
<1>2. ASSUME NEW w \in Conns, Ended(w)
      PROVE  Decided
  <2>1. Live(w) /\ Ends(w) /\ handler'[w] = "done"
    BY <1>2, EndedEnds DEF Ends, IInv, QueueOK
  <2>2. CASE clientId[w] \in Ids
    BY <1>1, <2>1, <2>2, EndDecides DEF Ends
  <2>3. CASE clientId[w] \notin Ids
    BY <2>1, <2>3, NobodyMoves DEF Ends, coreVars
  <2>4. QED
    BY <2>2, <2>3
<1>3. ASSUME NEW w \in Conns, (\E c \in Ids : Ack(w, c)) \/ HelloRaises(w)
      PROVE  Decided
  BY <1>3, NobodyMoves DEF Ack, CountedAck, HelloRaises, coreVars
<1>4. ASSUME NEW s \in Sends, SendReturns(s)
      PROVE  Decided
  BY <1>4, NobodyMoves DEF SendReturns, CountedSent
<1>5. ASSUME UNCHANGED coreVars
      PROVE  Decided
  BY <1>5, NobodyMoves DEF coreVars
<1>6. QED
  BY <1>1, <1>2, <1>3, <1>4, <1>5, HelloDecides, JoinDecides, OthersKeepCore DEF vars

\* Only a hello brings a client online, on the connection it came on and without
\* memberships of an earlier session, and only the end of a handler with its id
\* takes it offline: no send, count, join or closing that the loop runs in between
\* registers, unregisters or removes anybody.
THEOREM OnlyHandlersDecide == Spec => HandlersDecideWhoIsOnline
<1>1. IInv /\ [Next]_vars => [Decided]_vars
  BY StepDecides
<1>2. QED
  BY <1>1, InitIInv, StepIInv, PTL DEF Spec, HandlersDecideWhoIsOnline, Decided

-----------------------------------------------------------------------------
(* Who serves an online client *)

\* No connection says hello under more than one client_id.
OneIdEach == \A w \in Conns : \A c, d \in HelloIds[w] : IdOf(c) = IdOf(d)

\* A connection that was never opened has no handler and no id, and the id of
\* one that was is among those its hello frames carry.
OwnIdOnly ==
  \A w \in Conns : /\ socket[w] = "none" => ~Live(w) /\ clientId[w] = NoId
                   /\ clientId[w] \in Ids => clientId[w] \in IdsOf(w)

\* What a step can do to the handlers and to the tables that name them.
ServiceStep ==
  \/ \E w \in Conns : \E c \in HelloIds[w] \ {NoKey} : Hello(w, c)
  \/ \E w \in Conns : HelloRaises(w) \/ Ended(w) \/ Connect(w)
  \/ /\ UNCHANGED <<clientId, writers>> /\ DOMAIN sessions' = DOMAIN sessions
     /\ \A w \in Conns : /\ Live(w)' <=> Live(w)
                         /\ socket'[w] = "none" => socket[w] = "none"

LEMMA StepIsServiceStep ==
  ASSUME IInv, [Next]_vars
  PROVE  ServiceStep
<1>1. ASSUME NEW w \in Conns,
             ConnectionCloses(w) \/ QueryOnline(w) \/ ReplySent(w) \/ Broadcast(w)
               \/ (\E c \in Ids : Push(w, c)) \/ (\E g \in Groups : GroupPush(w, g))
      PROVE  ServiceStep
  BY <1>1 DEF IInv, QueueOK, ConnectionCloses, QueryOnline, ReplySent, Takes, Broadcast, Push,
     GroupPush, CreateTask, netVars, coreVars, Live, ServiceStep
<1>2. ASSUME UNCHANGED <<netVars, coreVars>>
      PROVE  ServiceStep
  BY <1>2 DEF netVars, coreVars, Live, ServiceStep
<1>3. ASSUME RunTask \/ (\E s \in Sends : SendRaises(s)) \/ UNCHANGED vars
      PROVE  ServiceStep
  <2>1. UNCHANGED <<netVars, coreVars>>
    BY <1>3 DEF RunTask, RunPush, RunAll, RunGroup, RunGather, Gather, SendRaises, vars, netVars
  <2>2. QED
    BY <1>2, <2>1
<1>4. ASSUME NEW w \in Conns, NEW c \in Ids, Ack(w, c)
      PROVE  ServiceStep
  BY <1>4, CountingKeepsCore DEF IInv, Ack, netVars, Live, ServiceStep
<1>5. ASSUME NEW s \in Sends, SendReturns(s)
      PROVE  ServiceStep
  <2>1. s[2] \in Ids
    BY DEF Sends
  <2>2. QED
    BY <1>5, <2>1, CountingKeepsCore DEF IInv, SendReturns, netVars, Live, ServiceStep
<1>6. ASSUME NEW j \in OnlineJoins, JoinGroup(j[1], j[2])
      PROVE  ServiceStep
  <2>1. DOMAIN sessions' = DOMAIN sessions
    BY <1>6, JoinKeepsCore DEF IInv
  <2>2. QED
    BY <1>6, <2>1 DEF JoinGroup, netVars, Live, ServiceStep
<1>7. ASSUME NEW w \in Conns,
             \/ Connect(w) \/ HelloRaises(w) \/ Ended(w)
             \/ \E c \in HelloIds[w] \ {NoKey} : Hello(w, c)
      PROVE  ServiceStep
  BY <1>7 DEF ServiceStep
<1>8. QED
  BY <1>1, <1>3, <1>4, <1>5, <1>6, <1>7 DEF Next, HandlerStep, Ended

\* The effect of hello, of the end of a handler and of a new connection on who
\* is served by whom, connection by connection and client by client.
LEMMA HelloEffect ==
  ASSUME IInv, NEW w \in Conns, NEW c \in HelloIds[w] \ {NoKey}, Hello(w, c)
  PROVE  /\ Live(w) /\ socket' = socket
         /\ \A v \in Conns : Live(v)' <=> Live(v)
         /\ clientId'[w] = IdOf(c)
         /\ \A v \in Conns \ {w} : clientId'[v] = clientId[v]
         /\ DOMAIN writers' = DOMAIN writers \cup {IdOf(c)}
         /\ DOMAIN sessions' = DOMAIN sessions \cup {IdOf(c)}
         /\ writers'[IdOf(c)] = w
         /\ \A d \in DOMAIN writers \ {IdOf(c)} : writers'[d] = writers[d]
<1>1. /\ clientId' = [clientId EXCEPT ![w] = IdOf(c)]
      /\ sessions' = Registered(sessions, IdOf(c), Now)
      /\ writers' = Assign(writers, IdOf(c), w)
      /\ handler' = handler /\ socket' = socket
      /\ handler[w] = "loop"
  BY DEF Hello, Takes
<1>2. clientId'[w] = IdOf(c) /\ \A v \in Conns \ {w} : clientId'[v] = clientId[v]
  BY <1>1 DEF IInv, CoreOK
<1>3. DOMAIN sessions' = DOMAIN sessions \cup {IdOf(c)}
  BY <1>1 DEF Registered, Assign
<1>4. /\ DOMAIN writers' = DOMAIN writers \cup {IdOf(c)}
      /\ writers'[IdOf(c)] = w
      /\ \A d \in DOMAIN writers \ {IdOf(c)} : writers'[d] = writers[d]
  BY <1>1 DEF Assign
<1>5. QED
  BY <1>1, <1>2, <1>3, <1>4 DEF Live

LEMMA EndsEffect ==
  ASSUME IInv, NEW w \in Conns, Ends(w)
  PROVE  /\ UNCHANGED <<socket, clientId>>
         /\ \A v \in Conns : Live(v)' <=> Live(v) /\ v # w
         /\ DOMAIN writers' = DOMAIN writers \ {clientId[w]}
         /\ DOMAIN sessions' = DOMAIN sessions \ {clientId[w]}
         /\ \A d \in DOMAIN writers \ {clientId[w]} : writers'[d] = writers[d]
<1>1. /\ DOMAIN writers' = DOMAIN writers \ {clientId[w]}
      /\ DOMAIN sessions' = DOMAIN sessions \ {clientId[w]}
      /\ \A d \in DOMAIN writers \ {clientId[w]} : writers'[d] = writers[d]
  <2>1. CASE clientId[w] \notin Ids
    <3>1. DOMAIN writers \subseteq Ids /\ DOMAIN sessions \subseteq Ids
      BY DEF IInv, CoreOK, IsSessionMap
    <3>2. UNCHANGED <<writers, sessions>>
      BY <2>1 DEF Ends, coreVars
    <3>3. QED
      BY <2>1, <3>1, <3>2
  <2>2. CASE clientId[w] \in Ids
    BY <2>2 DEF Ends, CleanUp, PopAll, Unregistered
  <2>3. QED
    BY <2>1, <2>2
<1>2. handler' = [handler EXCEPT ![w] = "done"] /\ UNCHANGED <<socket, clientId>>
  BY DEF Ends
<1>3. \A v \in Conns : Live(v)' <=> Live(v) /\ v # w
  BY <1>2 DEF IInv, QueueOK, Live
<1>4. QED
  BY <1>1, <1>2, <1>3

LEMMA HelloRaisesEffect ==
  ASSUME IInv, NEW w \in Conns, HelloRaises(w)
  PROVE  /\ Live(w) /\ UNCHANGED <<socket, sessions, writers>>
         /\ NoKey \in HelloIds[w] /\ clientId'[w] = NoKey
         /\ \A v \in Conns \ {w} : clientId'[v] = clientId[v]
         /\ \A v \in Conns : Live(v)' <=> Live(v) /\ v # w
  BY DEF HelloRaises, Takes, IInv, CoreOK, QueueOK, coreVars, Live

LEMMA ConnectEffect ==
  ASSUME IInv, NEW w \in Conns, Connect(w)
  PROVE  /\ socket[w] = "none" /\ socket'[w] = "open"
         /\ \A v \in Conns \ {w} : socket'[v] = socket[v]
         /\ \A v \in Conns : Live(v)' <=> Live(v) \/ v = w
         /\ UNCHANGED <<clientId, writers, sessions>>
  BY DEF Connect, IInv, QueueOK, coreVars, Live

LEMMA OwnIdStep == IInv /\ OwnIdOnly /\ [Next]_vars => OwnIdOnly'
<1> SUFFICES ASSUME IInv, OwnIdOnly, [Next]_vars
             PROVE  OwnIdOnly'
  OBVIOUS
<1> USE DEF OwnIdOnly, IdsOf
<1>1. ASSUME NEW w \in Conns, NEW c \in HelloIds[w] \ {NoKey}, Hello(w, c)
      PROVE  OwnIdOnly'
  <2>1. /\ Live(w) /\ socket' = socket
        /\ \A v \in Conns : Live(v)' <=> Live(v)
        /\ clientId'[w] = IdOf(c)
        /\ \A v \in Conns \ {w} : clientId'[v] = clientId[v]
    BY <1>1, HelloEffect
  <2>2. clientId'[w] \in IdsOf(w) /\ socket[w] # "none"
    BY <2>1
  <2>3. QED
    BY <2>1, <2>2
<1>2. ASSUME NEW w \in Conns, Ended(w)
      PROVE  OwnIdOnly'
  BY <1>2, EndedEnds, EndsEffect
<1>3. ASSUME NEW w \in Conns, Connect(w)
      PROVE  OwnIdOnly'
  BY <1>3, ConnectEffect
<1>4. ASSUME NEW w \in Conns, HelloRaises(w)
      PROVE  OwnIdOnly'
  BY <1>4, HelloRaisesEffect, GatewayAssumption
<1>5. QED
  BY <1>1, <1>2, <1>3, <1>4, StepIsServiceStep DEF ServiceStep

\* OnlineHasHandler is inductive when no connection changes its id.
ServedInv == OneIdEach /\ IInv /\ OwnIdOnly /\ OnlineHasHandler

LEMMA StepServedInv == ServedInv /\ [Next]_vars => ServedInv'
<1> SUFFICES ASSUME ServedInv, [Next]_vars
             PROVE  OnlineHasHandler'
  BY StepIInv, OwnIdStep DEF ServedInv, OneIdEach, IdsOf
<1> USE DEF ServedInv
<1>1. ASSUME NEW w \in Conns, NEW c \in HelloIds[w] \ {NoKey}, Hello(w, c)
      PROVE  OnlineHasHandler'
  <2>1. IdOf(c) \in IdsOf(w) /\ IdOf(c) # NoId
    BY HelloIdsFacts
  <2>2. clientId[w] \notin Ids \/ clientId[w] = IdOf(c)
    BY <2>1 DEF OwnIdOnly, OneIdEach, IdsOf
  <2>3. \A d \in DOMAIN sessions : writers[d] = w => d = IdOf(c)
    BY <2>2 DEF OnlineHasHandler, IInv, CoreOK, IsSessionMap
  <2>4. /\ Live(w) /\ \A v \in Conns : Live(v)' <=> Live(v)
        /\ clientId'[w] = IdOf(c)
        /\ \A v \in Conns \ {w} : clientId'[v] = clientId[v]
        /\ DOMAIN writers' = DOMAIN writers \cup {IdOf(c)}
        /\ DOMAIN sessions' = DOMAIN sessions \cup {IdOf(c)}
        /\ writers'[IdOf(c)] = w
        /\ \A d \in DOMAIN writers \ {IdOf(c)} : writers'[d] = writers[d]
    BY <1>1, HelloEffect
  <2>5. ASSUME NEW d \in DOMAIN sessions'
        PROVE  /\ d \in DOMAIN writers' /\ clientId'[writers'[d]] = d
               /\ handler'[writers'[d]] \in {"loop", "reply"}
    <3>1. CASE d = IdOf(c)
      BY <2>4, <3>1 DEF Live
    <3>2. CASE d # IdOf(c)
      BY <2>3, <2>4, <3>2 DEF OnlineHasHandler, IInv, CoreOK, Live
    <3>3. QED
      BY <3>1, <3>2
  <2>6. QED
    BY <2>5 DEF OnlineHasHandler, Live
<1>2. ASSUME NEW w \in Conns, Ended(w)
      PROVE  OnlineHasHandler'
  <2>1. /\ \A v \in Conns : Live(v)' <=> Live(v) /\ v # w
        /\ clientId' = clientId
        /\ DOMAIN writers' = DOMAIN writers \ {clientId[w]}
        /\ DOMAIN sessions' = DOMAIN sessions \ {clientId[w]}
        /\ \A d \in DOMAIN writers \ {clientId[w]} : writers'[d] = writers[d]
    BY <1>2, EndedEnds, EndsEffect
  <2>2. ASSUME NEW d \in DOMAIN sessions'
        PROVE  /\ d \in DOMAIN writers' /\ clientId'[writers'[d]] = d
               /\ handler'[writers'[d]] \in {"loop", "reply"}
    BY <2>1 DEF OnlineHasHandler, IInv, CoreOK, Live
  <2>3. QED
    BY <2>2 DEF OnlineHasHandler, Live
<1>3. ASSUME NEW w \in Conns, Connect(w)
      PROVE  OnlineHasHandler'
  BY <1>3, ConnectEffect DEF OnlineHasHandler, IInv, CoreOK, TablesAgree
<1>4. ASSUME NEW w \in Conns, HelloRaises(w)
      PROVE  OnlineHasHandler'
  <2>1. /\ UNCHANGED <<sessions, writers>> /\ NoKey \in HelloIds[w]
        /\ \A v \in Conns \ {w} : clientId'[v] = clientId[v] /\ (Live(v)' <=> Live(v))
    BY <1>4, HelloRaisesEffect
  <2>2. IdsOf(w) = {}
    BY <2>1, GatewayAssumption DEF OneIdEach, IdsOf, IdOf
  <2>3. \A c \in DOMAIN sessions : writers[c] # w
    BY <2>2 DEF OwnIdOnly, OnlineHasHandler, IInv, CoreOK, IsSessionMap
  <2>4. QED
    BY <2>1, <2>3 DEF OnlineHasHandler, IInv, CoreOK, TablesAgree
<1>5. QED
  BY <1>1, <1>2, <1>3, <1>4, StepIsServiceStep
     DEF ServiceStep, OnlineHasHandler, IInv, CoreOK, TablesAgree

\* As long as no connection says hello under a second client_id, every online client is
\* served by a running handler, even when clients take each other's id over.
THEOREM OnlineIsServed == OneIdEach /\ Spec => []OnlineHasHandler
<1>1. OneIdEach /\ Init => ServedInv
  BY InitIInv, GatewayAssumption DEF ServedInv, Init, OwnIdOnly, Live, OnlineHasHandler
<1>2. ServedInv => OnlineHasHandler
  BY DEF ServedInv
<1>3. QED
  BY <1>1, <1>2, StepServedInv, PTL DEF Spec

\* LiveConnectionTracked is inductive when no two live connections share an id.
Exclusive ==
  \A v, w \in Conns : v # w /\ Live(v) /\ Live(w) => IdsOf(v) \cap IdsOf(w) = {}

TrackedInv == ~Overlapping /\ IInv /\ OwnIdOnly /\ Exclusive /\ LiveConnectionTracked

LEMMA StepTrackedInv == TrackedInv /\ [Next]_vars => TrackedInv'
<1> SUFFICES ASSUME TrackedInv, [Next]_vars
             PROVE  Exclusive' /\ LiveConnectionTracked'
  BY StepIInv, OwnIdStep DEF TrackedInv
<1> USE DEF TrackedInv
<1>1. ASSUME NEW w \in Conns, NEW c \in HelloIds[w] \ {NoKey}, Hello(w, c)
      PROVE  Exclusive' /\ LiveConnectionTracked'
  <2>1. IdOf(c) \in IdsOf(w) /\ Live(w)
    BY <1>1, HelloIdsFacts, HelloEffect
  <2>2. \A v \in Conns \ {w} : Live(v) /\ clientId[v] \in Ids => clientId[v] # IdOf(c)
    BY <2>1 DEF OwnIdOnly, Exclusive
  <2>3. LiveConnectionTracked'
    <3>1. /\ \A v \in Conns : Live(v)' <=> Live(v)
          /\ clientId'[w] = IdOf(c)
          /\ \A v \in Conns \ {w} : clientId'[v] = clientId[v]
          /\ DOMAIN writers' = DOMAIN writers \cup {IdOf(c)}
          /\ DOMAIN sessions' = DOMAIN sessions \cup {IdOf(c)}
          /\ writers'[IdOf(c)] = w
          /\ \A d \in DOMAIN writers \ {IdOf(c)} : writers'[d] = writers[d]
      BY <1>1, HelloEffect
    <3>2. QED
      BY <2>2, <3>1 DEF LiveConnectionTracked
  <2>4. QED
    BY <1>1, <2>3, HelloEffect DEF Exclusive, IdsOf
<1>2. ASSUME NEW w \in Conns, Ended(w)
      PROVE  Exclusive' /\ LiveConnectionTracked'
  <2>1. Live(w) /\ \A v \in Conns : Live(v)' <=> Live(v) /\ v # w
    BY <1>2, EndedEnds, EndsEffect
  <2>2. ASSUME NEW v \in Conns \ {w}, Live(v), clientId[v] \in Ids
        PROVE  clientId[v] # clientId[w]
    BY <2>1, <2>2 DEF OwnIdOnly, Exclusive
  <2>3. ASSUME NEW v \in Conns, Live(v)', clientId'[v] \in Ids
        PROVE  /\ clientId'[v] \in DOMAIN sessions' /\ clientId'[v] \in DOMAIN writers'
               /\ writers'[clientId'[v]] = v
    <3>1. v # w /\ Live(v) /\ clientId' = clientId
      BY <1>2, <2>1, <2>3, EndedEnds, EndsEffect
    <3>2. /\ clientId[v] \in DOMAIN sessions /\ clientId[v] \in DOMAIN writers
          /\ writers[clientId[v]] = v /\ clientId[v] # clientId[w]
      BY <2>2, <2>3, <3>1 DEF LiveConnectionTracked
    <3>3. /\ DOMAIN writers' = DOMAIN writers \ {clientId[w]}
          /\ DOMAIN sessions' = DOMAIN sessions \ {clientId[w]}
          /\ \A d \in DOMAIN writers \ {clientId[w]} : writers'[d] = writers[d]
      BY <1>2, EndedEnds, EndsEffect
    <3>4. QED
      BY <3>1, <3>2, <3>3
  <2>4. QED
    BY <2>1, <2>3 DEF Exclusive, IdsOf, LiveConnectionTracked
<1>3. ASSUME NEW w \in Conns, Connect(w)
      PROVE  Exclusive' /\ LiveConnectionTracked'
  <2>1. clientId[w] \notin Ids
    BY <1>3, ConnectEffect, GatewayAssumption DEF OwnIdOnly
  <2>2. LiveConnectionTracked'
    BY <1>3, <2>1, ConnectEffect DEF LiveConnectionTracked
  <2>3. \A v \in Conns \ {w} : Live(v) => IdsOf(v) \cap IdsOf(w) = {}
    BY <1>3 DEF Connect
  <2>4. Exclusive'
    BY <1>3, <2>3, ConnectEffect DEF Exclusive, IdsOf
  <2>5. QED
    BY <2>2, <2>4
<1>4. ASSUME NEW w \in Conns, HelloRaises(w)
      PROVE  Exclusive' /\ LiveConnectionTracked'
  BY <1>4, HelloRaisesEffect DEF Exclusive, IdsOf, LiveConnectionTracked
<1>5. QED
  BY <1>1, <1>2, <1>3, <1>4, StepIsServiceStep
     DEF ServiceStep, Exclusive, LiveConnectionTracked, IdsOf

\* When no id is used by two connections at a time, a client that said hello is
\* online, and reachable on the connection it said it on, until that ends.
THEOREM LiveIsTracked == ~Overlapping /\ Spec => []LiveConnectionTracked
<1>1. ~Overlapping /\ Init => TrackedInv
  BY InitIInv, GatewayAssumption
     DEF TrackedInv, Init, OwnIdOnly, Exclusive, Live, LiveConnectionTracked
<1>2. TrackedInv => LiveConnectionTracked
  BY DEF TrackedInv
<1>3. QED
  BY <1>1, <1>2, StepTrackedInv, PTL DEF Spec

-----------------------------------------------------------------------------
(* Nobody is forgotten *)

\* What is owed is owed to the open connection the client is attached to.
OwedAttached ==
  \A o \in owed : o[2] \in DOMAIN writers /\ writers[o[2]] = o[3] /\ socket[o[3]] = "open"

OwedInv == IInv /\ OwedAttached /\ OwedIsPending

\* A task that is about to reach a client still is when the client stays online
\* and in its groups.
LEMMA PendingStays ==
  ASSUME NEW o, NEW q, NEW ss, NEW gs, NEW ss2, NEW gs2,
         Pending(o, q, ss, gs),
         o[2] \in DOMAIN ss => o[2] \in DOMAIN ss2,
         \A g : o[2] \in Members(gs, g) => o[2] \in Members(gs2, g)
  PROVE  Pending(o, q, ss2, gs2)
<1>1. PICK i \in 1..Len(q) : q[i].n = o[1] /\ o[2] \in StillReaches(q[i], ss, gs)
  BY DEF Pending
<1>2. o[2] \in StillReaches(q[i], ss2, gs2)
  BY <1>1 DEF StillReaches
<1>3. QED
  BY <1>1, <1>2 DEF Pending

\* A task can join the queue at its end, the head can leave it, and the head can
\* be replaced.
LEMMA PendingAppended ==
  ASSUME NEW o, NEW q \in Seq(Tasks), NEW t \in Tasks, NEW ss, NEW gs,
         \/ Pending(o, q, ss, gs)
         \/ t.n = o[1] /\ o[2] \in StillReaches(t, ss, gs)
  PROVE  Pending(o, Append(q, t), ss, gs)
<1> DEFINE r == Append(q, t)
<1>1. /\ Len(r) = Len(q) + 1 /\ Len(q) \in Nat
      /\ r[Len(q) + 1] = t
      /\ \A i \in 1..Len(q) : r[i] = q[i]
  OBVIOUS
<1> HIDE DEF r
<1>2. QED
  BY <1>1 DEF Pending, r

LEMMA PendingBehindHead ==
  ASSUME NEW o, NEW q \in Seq(Tasks), q # <<>>, NEW ss, NEW gs,
         Pending(o, q, ss, gs),
         ~(Head(q).n = o[1] /\ o[2] \in StillReaches(Head(q), ss, gs))
  PROVE  Pending(o, Tail(q), ss, gs)
<1> DEFINE r == Tail(q)
<1>1. /\ Len(r) = Len(q) - 1 /\ Len(q) \in Nat
      /\ Head(q) = q[1]
      /\ \A i \in 1..Len(r) : r[i] = q[i + 1]
  OBVIOUS
<1> HIDE DEF r
<1>2. PICK i \in 1..Len(q) : q[i].n = o[1] /\ o[2] \in StillReaches(q[i], ss, gs)
  BY DEF Pending
<1>3. i # 1
  BY <1>1, <1>2
<1>4. i - 1 \in 1..Len(r) /\ r[i - 1] = q[i]
  BY <1>1, <1>3
<1>5. QED
  BY <1>2, <1>4 DEF Pending, r

LEMMA PendingPushed ==
  ASSUME NEW o, NEW q \in Seq(Tasks), NEW t \in Tasks, NEW ss, NEW gs,
         \/ Pending(o, q, ss, gs)
         \/ t.n = o[1] /\ o[2] \in StillReaches(t, ss, gs)
  PROVE  Pending(o, <<t>> \o q, ss, gs)
<1> DEFINE r == <<t>> \o q
<1>1. /\ Len(r) = Len(q) + 1 /\ Len(q) \in Nat
      /\ r[1] = t
      /\ \A i \in 1..Len(q) : r[i + 1] = q[i]
  OBVIOUS
<1> HIDE DEF r
<1>2. \A i \in 1..Len(q) : i + 1 \in 1..Len(r)
  BY <1>1
<1>3. 1 \in 1..Len(r)
  BY <1>1
<1>4. CASE Pending(o, q, ss, gs)
  <2>1. PICK i \in 1..Len(q) : q[i].n = o[1] /\ o[2] \in StillReaches(q[i], ss, gs)
    BY <1>4 DEF Pending
  <2>2. QED
    BY <1>1, <1>2, <2>1 DEF Pending, r
<1>5. CASE t.n = o[1] /\ o[2] \in StillReaches(t, ss, gs)
  BY <1>1, <1>3, <1>5 DEF Pending, r
<1>6. QED
  BY <1>4, <1>5

\* What an action does to the owed frames when it creates and runs no task: it
\* may drop some, and the clients of the others stay where they are.
LEMMA QueueUntouched ==
  ASSUME OwedInv, ready' = ready, owed' \subseteq owed,
         \A o \in owed' : /\ o[2] \in DOMAIN writers' /\ writers'[o[2]] = o[3]
                          /\ socket'[o[3]] = "open"
                          /\ o[2] \in DOMAIN sessions'
                          /\ \A g : o[2] \in Members(groups, g) => o[2] \in Members(groups', g)
  PROVE  OwedAttached' /\ OwedIsPending'
<1>1. ASSUME NEW o \in owed'
      PROVE  Pending(o, ready, sessions', groups')
  <2>1. Pending(o, ready, sessions, groups)
    BY DEF OwedInv, OwedIsPending
  <2>2. QED
    BY <2>1, PendingStays
<1>2. QED
  BY <1>1 DEF OwedAttached, OwedIsPending

\* A send removes from the owed frames the one it is about.
LEMMA TransmitPays ==
  ASSUME OwedInv, NEW n, NEW from, NEW kind, NEW to, Transmit(n, from, kind, to)
  PROVE  /\ owed' \subseteq owed
         /\ \A o \in owed' : ~(o[1] = n /\ o[2] = to)
<1>1. \A o \in owed : o = <<o[1], o[2], o[3]>>
  BY DEF OwedInv, IInv, QueueOK, Sends
<1>2. QED
  BY <1>1 DEF OwedInv, OwedAttached, Transmit, Writable

\* What a task does: its own frames are paid or handed on, the others wait.
LEMMA TaskPays ==
  ASSUME OwedInv, RunTask
  PROVE  OwedAttached' /\ OwedIsPending'
<1> DEFINE t == Head(ready)
           rest == Tail(ready)
           Mine(o) == t.n = o[1] /\ o[2] \in StillReaches(t, sessions, groups)
<1>1. ready # <<>> /\ UNCHANGED <<socket, writers, sessions, groups>>
  BY DEF RunTask, RunPush, RunAll, RunGroup, RunGather, Running, Gather, netVars, coreVars
<1>2. /\ ready \in Seq(Tasks) /\ t \in Tasks /\ rest \in Seq(Tasks)
      /\ \A cs \in SUBSET Ids : Task("gather", t.n, t.from, cs) \in Tasks
  BY <1>1, GatherTasks DEF OwedInv, IInv, QueueOK
<1>3. \A o \in owed : Mine(o) \/ Pending(o, rest, sessions, groups)
  BY <1>1, <1>2, PendingBehindHead DEF OwedInv, OwedIsPending
<1>4. SUFFICES ASSUME TRUE
               PROVE  /\ owed' \subseteq owed
                      /\ \A o \in owed' : Pending(o, ready', sessions, groups)
  BY <1>1 DEF OwedInv, OwedAttached, OwedIsPending
<1>5. ASSUME NEW cs \in SUBSET Ids, Gather(t, cs),
             \A o \in owed : Mine(o) => o[2] \in cs
      PROVE  /\ owed' \subseteq owed
             /\ \A o \in owed' : Pending(o, ready', sessions, groups)
  <2> DEFINE next == Task("gather", t.n, t.from, cs)
  <2>1. next \in Tasks /\ next.n = t.n /\ StillReaches(next, sessions, groups) = cs
    BY <1>2 DEF Task, StillReaches
  <2>2. ready' = Append(rest, next) /\ owed' = owed
    BY <1>5 DEF Gather
  <2> HIDE DEF next, rest
  <2>3. ASSUME NEW o \in owed
        PROVE  Pending(o, Append(rest, next), sessions, groups)
    <3>1. CASE Mine(o)
      <4>1. next.n = o[1] /\ o[2] \in StillReaches(next, sessions, groups)
        BY <1>5, <2>1, <3>1
      <4>2. QED
        BY <1>2, <2>1, <4>1, PendingAppended
    <3>2. CASE Pending(o, rest, sessions, groups)
      BY <1>2, <2>1, <3>2, PendingAppended
    <3>3. QED
      BY <1>3, <3>1, <3>2
  <2>4. QED
    BY <2>2, <2>3
<1>6. CASE RunAll
  <2>1. DOMAIN sessions \in SUBSET Ids /\ Gather(t, DOMAIN sessions)
    BY <1>6 DEF RunAll, OwedInv, IInv, CoreOK, IsSessionMap
  <2>2. \A o \in owed : Mine(o) => o[2] \in DOMAIN sessions
    BY DEF OwedInv, OwedAttached, IInv, CoreOK, TablesAgree
  <2>3. QED
    BY <1>5, <2>1, <2>2
<1>7. CASE RunGroup
  <2>1. Members(groups, t.targets) \in SUBSET Ids /\ Gather(t, Members(groups, t.targets))
    BY <1>7 DEF RunGroup, OwedInv, IInv, CoreOK, IsGroupMap, Members, GetOr
  <2>2. \A o : Mine(o) => o[2] \in Members(groups, t.targets)
    BY <1>7 DEF RunGroup, Running, StillReaches
  <2>3. QED
    BY <1>5, <2>1, <2>2
<1>8. CASE RunPush
  <2>1. PICK c \in t.targets : Transmit(t.n, t.from, "push", c)
    BY <1>8 DEF RunPush
  <2>2. t.step = "push" /\ ready' = rest
    BY <1>8 DEF RunPush, Running
  <2>3. t.targets = {c} /\ StillReaches(t, sessions, groups) = {c}
    BY <1>2, <2>1, <2>2 DEF Tasks, StillReaches
  <2>4. QED
    BY <1>3, <2>1, <2>2, <2>3, TransmitPays
<1>9. CASE RunGather
  <2>1. StillReaches(t, sessions, groups) = t.targets /\ t.targets \in SUBSET Ids
    BY <1>2, <1>9 DEF RunGather, Running, Tasks, StillReaches
  <2>2. CASE t.targets = {} /\ ready' = rest /\ owed' = owed
    BY <1>3, <2>1, <2>2
  <2>3. ASSUME NEW c \in t.targets, Transmit(t.n, t.from, "fan", c), Continue(t, c)
        PROVE  /\ owed' \subseteq owed
               /\ \A o \in owed' : Pending(o, ready', sessions, groups)
    <3> DEFINE next == Task("gather", t.n, t.from, t.targets \ {c})
    <3>1. next \in Tasks /\ next.n = t.n
          /\ StillReaches(next, sessions, groups) = t.targets \ {c}
      BY <1>2, <2>1 DEF Task, StillReaches
    <3>2. ready' = <<next>> \o rest
      BY <2>3 DEF Continue
    <3>3. owed' \subseteq owed /\ \A o \in owed' : ~(o[1] = t.n /\ o[2] = c)
      BY <2>3, TransmitPays
    <3> HIDE DEF next, rest
    <3>4. ASSUME NEW o \in owed'
          PROVE  Pending(o, <<next>> \o rest, sessions, groups)
      <4>1. \/ Pending(o, rest, sessions, groups)
            \/ next.n = o[1] /\ o[2] \in StillReaches(next, sessions, groups)
        BY <1>3, <2>1, <3>1, <3>3
      <4>2. QED
        BY <1>2, <3>1, <4>1, PendingPushed
    <3>5. QED
      BY <3>2, <3>3, <3>4
  <2>4. QED
    BY <1>9, <2>2, <2>3 DEF RunGather
<1>10. QED
  BY <1>6, <1>7, <1>8, <1>9 DEF RunTask

\* What an order that is given owes, its own task will reach.
LEMMA OrderIsPending ==
  ASSUME OwedInv, NEW w \in Conns, NEW step, NEW targets, NEW addressees \in SUBSET Ids,
         \/ step = "push" /\ targets \in {{c} : c \in Ids} /\ addressees = targets
         \/ step = "all" /\ targets = {}
         \/ step = "group" /\ targets \in Groups /\ addressees = Members(groups, targets),
         CreateTask(w, step, targets, addressees)
  PROVE  OwedAttached' /\ OwedIsPending'
<1> DEFINE t == Task(step, issued', w, targets)
<1>1. t \in Tasks /\ t.n = issued' /\ t.step = step /\ t.targets = targets
  <2>1. issued' \in 1..MaxIssued
    BY GatewayAssumption DEF CreateTask, OwedInv, IInv, QueueOK
  <2>2. QED
    BY <2>1 DEF Task, Tasks
<1>2. /\ ready' = Append(ready, t) /\ ready \in Seq(Tasks)
      /\ owed' = owed \cup Attached(issued', addressees)
      /\ UNCHANGED <<socket, writers, sessions, groups>>
  BY DEF CreateTask, netVars, coreVars, OwedInv, IInv, QueueOK
<1> HIDE DEF t
<1>3. \A o \in Attached(issued', addressees) :
         /\ o[1] = issued' /\ o[2] \in addressees /\ o[2] \in DOMAIN writers
         /\ writers[o[2]] = o[3] /\ socket[o[3]] = "open"
  BY DEF Attached
<1>4. \A o \in Attached(issued', addressees) :
         t.n = o[1] /\ o[2] \in StillReaches(t, sessions, groups)
  BY <1>1, <1>3 DEF StillReaches, OwedInv, IInv, CoreOK, TablesAgree
<1>5. ASSUME NEW o \in owed'
      PROVE  Pending(o, Append(ready, t), sessions, groups)
  <2>1. \/ Pending(o, ready, sessions, groups)
        \/ t.n = o[1] /\ o[2] \in StillReaches(t, sessions, groups)
    BY <1>2, <1>4 DEF OwedInv, OwedIsPending
  <2>2. QED
    BY <1>1, <1>2, <2>1, PendingAppended
<1>6. QED
  BY <1>2, <1>3, <1>5 DEF OwedAttached, OwedIsPending, OwedInv

LEMMA StepOwedInv == OwedInv /\ [Next]_vars => OwedInv'
<1> SUFFICES ASSUME OwedInv, [Next]_vars
             PROVE  OwedAttached' /\ OwedIsPending'
  BY StepIInv DEF OwedInv
<1>0. \A o \in owed : o \in Sends /\ o[2] \in DOMAIN sessions /\ o[3] \in Conns
  BY DEF OwedInv, OwedAttached, IInv, CoreOK, QueueOK, TablesAgree, Sends
<1>1. ASSUME NEW w \in Conns, Connect(w) \/ ConnectionCloses(w) \/ QueryOnline(w) \/ ReplySent(w)
      PROVE  OwedAttached' /\ OwedIsPending'
  BY <1>0, <1>1, QueueUntouched
     DEF Connect, ConnectionCloses, QueryOnline, ReplySent, coreVars, taskVars, OwedInv,
         OwedAttached, IInv, QueueOK
<1>2. ASSUME NEW w \in Conns, Ends(w)
      PROVE  OwedAttached' /\ OwedIsPending'
  <2>1. CASE clientId[w] \notin Ids
    BY <1>0, <1>2, <2>1, QueueUntouched DEF Ends, coreVars, taskVars, OwedInv, OwedAttached
  <2>2. CASE clientId[w] \in Ids
    <3> DEFINE c == clientId[w]
    <3>1. /\ writers' = PopAll(writers, {c}) /\ sessions' = Unregistered(sessions, c)
          /\ groups' = GroupsWithout(sessions, groups, c)
          /\ owed' = {o \in owed : o[2] # c}
          /\ ready' = ready /\ socket' = socket
      BY <1>2, <2>2 DEF Ends, CleanUp, taskVars
    <3> HIDE DEF c
    <3>2. \A d, g : d # c /\ d \in Members(groups, g) => d \in Members(groups', g)
      BY <3>1 DEF GroupsWithout, Members, GetOr
    <3>3. \A o \in owed' : /\ o[2] \in DOMAIN writers' /\ writers'[o[2]] = o[3]
                           /\ socket'[o[3]] = "open" /\ o[2] \in DOMAIN sessions'
      BY <1>0, <3>1 DEF PopAll, Unregistered, OwedInv, OwedAttached
    <3>4. QED
      BY <3>1, <3>2, <3>3, QueueUntouched
  <2>3. QED
    BY <2>1, <2>2
<1>3. ASSUME NEW w \in Conns, NEW c \in HelloIds[w] \ {NoKey}, Hello(w, c)
      PROVE  OwedAttached' /\ OwedIsPending'
  <2>1. /\ ready' = ready /\ groups' = groups /\ socket' = socket
        /\ owed' = {o \in owed : o[2] = IdOf(c) => o[3] = w}
    BY <1>3 DEF Hello, taskVars
  <2>2. /\ DOMAIN writers' = DOMAIN writers \cup {IdOf(c)}
        /\ DOMAIN sessions' = DOMAIN sessions \cup {IdOf(c)}
        /\ writers'[IdOf(c)] = w
        /\ \A d \in DOMAIN writers \ {IdOf(c)} : writers'[d] = writers[d]
    BY <1>3, HelloEffect DEF OwedInv
  <2>3. QED
    BY <1>0, <2>1, <2>2, QueueUntouched DEF OwedInv, OwedAttached
<1>4. ASSUME NEW w \in Conns, NEW c \in Ids, Ack(w, c)
      PROVE  OwedAttached' /\ OwedIsPending'
  BY <1>0, <1>4, QueueUntouched DEF Ack, CountedAck, netVars, taskVars, OwedInv, OwedAttached
<1>5. ASSUME NEW w \in Conns, NEW c \in Ids, Push(w, c)
      PROVE  OwedAttached' /\ OwedIsPending'
  BY <1>5, OrderIsPending DEF Push
<1>6. ASSUME NEW w \in Conns, NEW g \in Groups, GroupPush(w, g)
      PROVE  OwedAttached' /\ OwedIsPending'
  <2>1. Members(groups, g) \in SUBSET Ids
    BY DEF OwedInv, IInv, CoreOK, IsGroupMap, Members, GetOr
  <2>2. QED
    BY <1>6, <2>1, OrderIsPending DEF GroupPush
<1>7. ASSUME NEW w \in Conns, Broadcast(w)
      PROVE  OwedAttached' /\ OwedIsPending'
  BY <1>7, OrderIsPending DEF Broadcast
<1>8. ASSUME NEW s \in Sends, SendReturns(s) \/ SendRaises(s)
      PROVE  OwedAttached' /\ OwedIsPending'
  BY <1>0, <1>8, QueueUntouched
     DEF SendReturns, SendRaises, CountedSent, netVars, coreVars, OwedInv, OwedAttached
<1>9. ASSUME NEW j \in OnlineJoins, JoinGroup(j[1], j[2])
      PROVE  OwedAttached' /\ OwedIsPending'
  <2>1. \A d, g : d \in Members(groups, g) => d \in Members(groups', g)
    BY <1>9 DEF JoinGroup, GroupsJoined, Assign, Members, GetOr
  <2>2. DOMAIN sessions' = DOMAIN sessions
    BY <1>9, JoinKeepsCore DEF OwedInv, IInv
  <2>3. QED
    BY <1>0, <1>9, <2>1, <2>2, QueueUntouched
       DEF JoinGroup, netVars, taskVars, OwedInv, OwedAttached
<1>10. CASE UNCHANGED vars
  BY <1>10 DEF vars, netVars, coreVars, taskVars, OwedInv, OwedAttached, OwedIsPending
<1>11. ASSUME NEW w \in Conns, HelloRaises(w)
       PROVE  OwedAttached' /\ OwedIsPending'
  BY <1>0, <1>11, QueueUntouched DEF HelloRaises, coreVars, taskVars, OwedInv, OwedAttached
<1>12. QED
  BY <1>1, <1>2, <1>3, <1>4, <1>5, <1>6, <1>7, <1>8, <1>9, <1>10, <1>11, TaskPays, EndedEnds
     DEF Next, HandlerStep, Ended

\* A client that was attached when a push or a broadcast was ordered, and has
\* been ever since, has the frame or is still among those a task will send to:
\* no task that runs in between, and no handler that registers or unregisters
\* clients, makes the loop forget it.
THEOREM NobodyIsForgotten == Spec => []OwedIsPending
<1>1. Init => OwedInv
  BY InitIInv DEF OwedInv, Init, OwedAttached, OwedIsPending
<1>2. OwedInv => OwedIsPending
  BY DEF OwedInv
<1>3. QED
  BY <1>1, <1>2, StepOwedInv, PTL DEF Spec

-----------------------------------------------------------------------------
(* What is delivered: once, and in order *)

KindOf(t) == IF t.step = "push" THEN "push" ELSE "fan"

\* Of two tasks of a kind in the queue, whose frames come first: a broadcast
\* whose sends are scheduled is ahead of one that still has to look them up.
Sooner(q, i, j) ==
  /\ KindOf(q[i]) = KindOf(q[j])
  /\ \/ q[i].step = "gather" /\ q[j].step # "gather"
     \/ i < j /\ (q[i].step = "gather" <=> q[j].step = "gather")

\* Each order has one task, and those that come first were given first.
WellQueued(q) ==
  \A i, j \in 1..Len(q) : /\ i # j => q[i].n # q[j].n
                          /\ Sooner(q, i, j) => q[i].n < q[j].n

\* A frame f that was written, next to a task that waits: either it is of another
\* order, which was given earlier if it is of that kind, or it is of a broadcast
\* that has its addressee behind it.
Fits(f, t) ==
  /\ f.n = t.n => t.step = "gather" /\ f.to \notin t.targets
  /\ f.kind = KindOf(t) => f.n <= t.n

AllFit(q) ==
  \A w \in Conns : \A k \in 1..Len(out[w]) : \A i \in 1..Len(q) : Fits(out[w][k], q[i])

\* No order has a number that is still to be given.
OrdersNumbered ==
  /\ \A i \in 1..Len(ready) : ready[i].n <= issued
  /\ \A w \in Conns : \A k \in 1..Len(out[w]) : out[w][k].n <= issued

OutputOK == DeliveredOnce /\ SameKindInOrder

DeliveryInv == /\ IInv
               /\ WellQueued(ready) /\ OrdersNumbered /\ AllFit(ready)
               /\ OutputOK

LEMMA TasksNumbered ==
  /\ \A t \in Tasks : t.n \in 1..MaxIssued /\ t.n \in Nat
  /\ \A q \in Seq(Tasks) : \A i \in 1..Len(q) : q[i].n \in Nat
<1>1. \A t \in Tasks : t.n \in 1..MaxIssued /\ t.n \in Nat
  BY GatewayAssumption DEF Tasks
<1>2. QED
  BY <1>1

LEMMA FramesNumbered ==
  ASSUME IInv, NEW w \in Conns, NEW k \in 1..Len(out[w])
  PROVE  out[w][k].n \in Nat /\ out[w][k].n \in 1..MaxIssued
<1>1. out[w] \in Seq(Frames)
  BY DEF IInv, QueueOK
<1>2. out[w][k] \in Frames
  BY <1>1
<1>3. QED
  BY <1>2, GatewayAssumption DEF Frames

\* What is put behind the queue when an order is given, and when a broadcast has
\* looked its clients up; and what is left when the task at the head has run, or
\* has made one of its sends.
LEMMA OrderQueued ==
  ASSUME NEW q \in Seq(Tasks), WellQueued(q), NEW t \in Tasks, t.step # "gather",
         \A i \in 1..Len(q) : q[i].n < t.n
  PROVE  WellQueued(Append(q, t))
<1> DEFINE r == Append(q, t)
<1>1. /\ Len(r) = Len(q) + 1 /\ Len(q) \in Nat
      /\ r[Len(q) + 1] = t
      /\ \A i \in 1..Len(q) : r[i] = q[i]
  OBVIOUS
<1>2. t.n \in Nat /\ \A i \in 1..Len(q) : q[i].n \in Nat
  BY TasksNumbered
<1> HIDE DEF r
<1>3. ASSUME NEW i \in 1..Len(q), NEW j \in 1..Len(q)
      PROVE  /\ i # j => r[i].n # r[j].n
             /\ Sooner(r, i, j) => r[i].n < r[j].n
  BY <1>1, <1>3 DEF WellQueued, Sooner
<1>4. ASSUME NEW i \in 1..Len(q)
      PROVE  r[i].n < r[Len(q) + 1].n /\ ~Sooner(r, Len(q) + 1, i)
  BY <1>1, <1>4 DEF Sooner
<1>5. ~Sooner(r, Len(q) + 1, Len(q) + 1)
  BY <1>1 DEF Sooner
<1>6. QED
  BY <1>1, <1>2, <1>3, <1>4, <1>5 DEF WellQueued, r

LEMMA HeadMoved ==
  ASSUME NEW q \in Seq(Tasks), q # <<>>, WellQueued(q), Head(q).step \in {"all", "group"},
         NEW t \in Tasks, t.step = "gather", t.n = Head(q).n
  PROVE  WellQueued(Append(Tail(q), t))
<1> DEFINE r == Append(Tail(q), t)
           m == Len(q)
<1>1. /\ Len(r) = m /\ m \in Nat /\ m >= 1
      /\ r[m] = t
      /\ \A i \in 1..(m - 1) : r[i] = q[i + 1]
      /\ Head(q) = q[1]
  OBVIOUS
<1> HIDE DEF r, m
<1>2. ASSUME NEW i \in 1..(m - 1), NEW j \in 1..(m - 1)
      PROVE  /\ i # j => r[i].n # r[j].n
             /\ Sooner(r, i, j) => r[i].n < r[j].n
  <2>1. i + 1 \in 1..Len(q) /\ j + 1 \in 1..Len(q)
    BY <1>1 DEF m
  <2>2. r[i] = q[i + 1] /\ r[j] = q[j + 1]
    BY <1>1
  <2>3. Sooner(r, i, j) => Sooner(q, i + 1, j + 1)
    BY <2>2 DEF Sooner
  <2>4. QED
    BY <2>1, <2>2, <2>3 DEF WellQueued
<1>3. ASSUME NEW i \in 1..(m - 1)
      PROVE  /\ r[i].n # r[m].n
             /\ Sooner(r, i, m) => r[i].n < r[m].n
             /\ Sooner(r, m, i) => r[m].n < r[i].n
  <2>1. i + 1 \in 1..Len(q) /\ 1 \in 1..Len(q) /\ i + 1 # 1
    BY <1>1 DEF m
  <2>2. r[i] = q[i + 1] /\ r[m] = t
    BY <1>1
  <2>3. Sooner(r, i, m) => Sooner(q, i + 1, 1)
    BY <1>1, <2>2 DEF Sooner, KindOf
  <2>4. Sooner(r, m, i) => Sooner(q, 1, i + 1)
    BY <1>1, <2>2 DEF Sooner, KindOf
  <2>5. QED
    BY <1>1, <2>1, <2>2, <2>3, <2>4 DEF WellQueued
<1>4. ~Sooner(r, m, m)
  BY <1>1 DEF Sooner
<1>5. QED
  BY <1>1, <1>2, <1>3, <1>4 DEF WellQueued, r

LEMMA HeadRan ==
  ASSUME NEW q \in Seq(Tasks), q # <<>>, WellQueued(q)
  PROVE  WellQueued(Tail(q))
<1> DEFINE r == Tail(q)
<1>1. /\ Len(r) = Len(q) - 1 /\ Len(q) \in Nat
      /\ \A i \in 1..Len(r) : r[i] = q[i + 1]
  OBVIOUS
<1> HIDE DEF r
<1>2. ASSUME NEW i \in 1..Len(r), NEW j \in 1..Len(r)
      PROVE  /\ i # j => r[i].n # r[j].n
             /\ Sooner(r, i, j) => r[i].n < r[j].n
  <2>1. i + 1 \in 1..Len(q) /\ j + 1 \in 1..Len(q)
    BY <1>1
  <2>2. r[i] = q[i + 1] /\ r[j] = q[j + 1]
    BY <1>1
  <2>3. Sooner(r, i, j) => Sooner(q, i + 1, j + 1)
    BY <2>2 DEF Sooner
  <2>4. QED
    BY <2>1, <2>2, <2>3 DEF WellQueued
<1>3. QED
  BY <1>2 DEF WellQueued, r

LEMMA HeadKept ==
  ASSUME NEW q \in Seq(Tasks), q # <<>>, WellQueued(q), Head(q).step = "gather",
         NEW t \in Tasks, t.step = "gather", t.n = Head(q).n
  PROVE  WellQueued(<<t>> \o Tail(q))
<1> DEFINE r == <<t>> \o Tail(q)
<1>1. /\ Len(r) = Len(q) /\ Len(q) \in Nat
      /\ r[1] = t /\ Head(q) = q[1]
      /\ \A i \in 2..Len(q) : r[i] = q[i]
  OBVIOUS
<1> HIDE DEF r
<1>2. \A i \in 1..Len(q) : r[i].n = q[i].n /\ r[i].step = q[i].step
  BY <1>1
<1>3. ASSUME NEW i \in 1..Len(q), NEW j \in 1..Len(q)
      PROVE  Sooner(r, i, j) => Sooner(q, i, j)
  BY <1>2 DEF Sooner, KindOf
<1>4. QED
  BY <1>1, <1>2, <1>3 DEF WellQueued, r

\* The tasks of a queue that has changed at its ends are those it had, but for the
\* one that was put there.
LEMMA QueueElements ==
  ASSUME NEW q \in Seq(Tasks), NEW t \in Tasks
  PROVE  /\ \A i \in 1..Len(Append(q, t)) :
              \/ Append(q, t)[i] = t
              \/ i \in 1..Len(q) /\ Append(q, t)[i] = q[i]
         /\ q # <<>> =>
              /\ \A i \in 1..Len(Tail(q)) : i + 1 \in 2..Len(q) /\ Tail(q)[i] = q[i + 1]
              /\ \A i \in 1..Len(Append(Tail(q), t)) :
                   \/ Append(Tail(q), t)[i] = t
                   \/ i + 1 \in 2..Len(q) /\ Append(Tail(q), t)[i] = q[i + 1]
              /\ \A i \in 1..Len(<<t>> \o Tail(q)) :
                   \/ (<<t>> \o Tail(q))[i] = t
                   \/ i \in 2..Len(q) /\ (<<t>> \o Tail(q))[i] = q[i]
<1>1. \A i \in 1..Len(Append(q, t)) :
        \/ Append(q, t)[i] = t
        \/ i \in 1..Len(q) /\ Append(q, t)[i] = q[i]
  OBVIOUS
<1>2. ASSUME q # <<>>
      PROVE  \A i \in 1..Len(Tail(q)) : i + 1 \in 2..Len(q) /\ Tail(q)[i] = q[i + 1]
  BY <1>2
<1>3. ASSUME q # <<>>
      PROVE  \A i \in 1..Len(Append(Tail(q), t)) :
               \/ Append(Tail(q), t)[i] = t
               \/ i + 1 \in 2..Len(q) /\ Append(Tail(q), t)[i] = q[i + 1]
  BY <1>3
<1>4. ASSUME q # <<>>
      PROVE  \A i \in 1..Len(<<t>> \o Tail(q)) :
               \/ (<<t>> \o Tail(q))[i] = t
               \/ i \in 2..Len(q) /\ (<<t>> \o Tail(q))[i] = q[i]
  BY <1>4
<1>5. QED
  BY <1>1, <1>2, <1>3, <1>4

\* An order that is given comes after everything.
LEMMA OrderKeepsDelivery ==
  ASSUME DeliveryInv, NEW w \in Conns, NEW step \in {"push", "all", "group"}, NEW targets,
         NEW addressees, CreateTask(w, step, targets, addressees), IInv'
  PROVE  DeliveryInv'
<1> DEFINE t == Task(step, issued', w, targets)
<1>1. /\ issued \in Nat /\ issued' = issued + 1 /\ out' = out
      /\ ready' = Append(ready, t)
      /\ t.n = issued + 1 /\ t.step # "gather"
  BY GatewayAssumption DEF CreateTask, Task, DeliveryInv, IInv, QueueOK
<1>2. ready \in Seq(Tasks) /\ t \in Tasks
  <2>1. ready \in Seq(Tasks) /\ ready' \in Seq(Tasks)
    BY DEF DeliveryInv, IInv, QueueOK
  <2>2. t = ready'[Len(ready')] /\ Len(ready') \in 1..Len(ready')
    BY <1>1, <2>1
  <2>3. QED
    BY <2>1, <2>2
<1> HIDE DEF t
<1>3. \A i \in 1..Len(ready) : ready[i].n \in Nat /\ ready[i].n < t.n
  BY <1>1, <1>2, TasksNumbered DEF DeliveryInv, OrdersNumbered
<1>4. WellQueued(ready')
  BY <1>1, <1>2, <1>3, OrderQueued DEF DeliveryInv
<1>5. \A w1 \in Conns : \A k \in 1..Len(out[w1]) :
         out[w1][k].n \in Nat /\ out[w1][k].n <= issued /\ Fits(out[w1][k], t)
  <2>1. \A w1 \in Conns : \A k \in 1..Len(out[w1]) : out[w1][k].n \in Nat
    BY FramesNumbered DEF DeliveryInv
  <2>2. QED
    BY <1>1, <2>1 DEF DeliveryInv, OrdersNumbered, Fits
<1>6. AllFit(ready)'
  <2>1. ASSUME NEW v \in Conns, NEW k \in 1..Len(out[v]), NEW i \in 1..Len(ready')
        PROVE  Fits(out[v][k], ready'[i])
    <3>1. ready'[i] = t \/ (i \in 1..Len(ready) /\ ready'[i] = ready[i])
      BY <1>1, <1>2, QueueElements
    <3>2. QED
      BY <1>5, <3>1 DEF DeliveryInv, AllFit
  <2>2. QED
    BY <1>1, <2>1 DEF AllFit
<1>7. OrdersNumbered'
  <2>1. ASSUME NEW i \in 1..Len(ready')
        PROVE  ready'[i].n <= issued + 1
    <3>1. ready'[i] = t \/ (i \in 1..Len(ready) /\ ready'[i] = ready[i])
      BY <1>1, <1>2, QueueElements
    <3>2. QED
      BY <1>1, <1>3, <3>1
  <2>2. QED
    BY <1>1, <1>5, <2>1 DEF OrdersNumbered
<1>8. QED
  BY <1>1, <1>4, <1>6, <1>7 DEF DeliveryInv, OutputOK, DeliveredOnce, SameKindInOrder

\* A broadcast that has looked its clients up, and a task that is done.
LEMMA LookUpKeepsDelivery ==
  ASSUME DeliveryInv, ready # <<>>, Head(ready).step \in {"all", "group"}, NEW cs \in SUBSET Ids,
         Gather(Head(ready), cs), IInv'
  PROVE  DeliveryInv'
<1> DEFINE t == Head(ready)
           next == Task("gather", t.n, t.from, cs)
<1>1. /\ ready \in Seq(Tasks) /\ t \in Tasks /\ next \in Tasks
      /\ next.n = t.n /\ next.step = "gather"
  BY GatherTasks DEF DeliveryInv, IInv, Task
<1>2. ready' = Append(Tail(ready), next) /\ out' = out /\ issued' = issued
  BY DEF Gather
<1>3. t = ready[1] /\ 1 \in 1..Len(ready)
  BY <1>1
<1> HIDE DEF next, t
<1>4. WellQueued(ready')
  BY <1>1, <1>2, HeadMoved DEF DeliveryInv, t
<1>5. \A i \in 1..Len(ready') :
         ready'[i] = next \/ (i + 1 \in 1..Len(ready) /\ ready'[i] = ready[i + 1])
  BY <1>1, <1>2, QueueElements
<1>6. \A f : Fits(f, t) => Fits(f, next)
  BY <1>1 DEF Fits, KindOf, t
<1>7. AllFit(ready)'
  <2>1. ASSUME NEW v \in Conns, NEW k \in 1..Len(out[v]), NEW i \in 1..Len(ready')
        PROVE  Fits(out[v][k], ready'[i])
    BY <1>3, <1>5, <1>6 DEF DeliveryInv, AllFit
  <2>2. QED
    BY <1>2, <2>1 DEF AllFit
<1>8. OrdersNumbered'
  <2>1. ASSUME NEW i \in 1..Len(ready')
        PROVE  ready'[i].n <= issued
    BY <1>1, <1>3, <1>5 DEF DeliveryInv, OrdersNumbered
  <2>2. QED
    BY <1>2, <2>1 DEF DeliveryInv, OrdersNumbered
<1>9. QED
  BY <1>2, <1>4, <1>7, <1>8 DEF DeliveryInv, OutputOK, DeliveredOnce, SameKindInOrder

LEMMA TaskDoneKeepsDelivery ==
  ASSUME DeliveryInv, ready # <<>>, ready' = Tail(ready), out' = out, issued' = issued, IInv'
  PROVE  DeliveryInv'
<1>1. ready \in Seq(Tasks) /\ ready # <<>>
  BY DEF DeliveryInv, IInv, QueueOK
<1>2. \A i \in 1..Len(ready') : i + 1 \in 1..Len(ready) /\ ready'[i] = ready[i + 1]
  BY <1>1
<1>3. WellQueued(ready')
  BY <1>1, HeadRan DEF DeliveryInv
<1>4. OrdersNumbered' /\ AllFit(ready)'
  BY <1>2 DEF DeliveryInv, OrdersNumbered, AllFit
<1>5. QED
  BY <1>3, <1>4 DEF DeliveryInv, OutputOK, DeliveredOnce, SameKindInOrder

\* A send writes its frame behind those on one open connection, or nothing.
LEMMA TransmitWrites ==
  ASSUME IInv, NEW n, NEW from, NEW kind, NEW to, Transmit(n, from, kind, to),
         Frame(n, from, kind, to) \in Frames
  PROVE  \/ UNCHANGED <<out, inflight>>
         \/ \E w \in Conns :
              /\ inflight' = inflight \cup {<<n, to, w>>}
              /\ Len(out'[w]) = Len(out[w]) + 1 /\ Len(out[w]) \in Nat
              /\ out'[w][Len(out[w]) + 1] = Frame(n, from, kind, to)
              /\ \A k \in 1..Len(out[w]) : out'[w][k] = out[w][k]
              /\ \A v \in Conns \ {w} : out'[v] = out[v]
<1>1. CASE to \in DOMAIN writers /\ Writable(writers[to])
  <2> DEFINE w == writers[to]
             f == Frame(n, from, kind, to)
  <2>1. w \in Conns /\ out[w] \in Seq(Frames) /\ out \in [Conns -> Seq(Frames)]
    BY <1>1 DEF IInv, CoreOK, QueueOK
  <2>2. inflight' = inflight \cup {<<n, to, w>>} /\ out' = [out EXCEPT ![w] = Append(@, f)]
    BY <1>1 DEF Transmit
  <2> HIDE DEF w, f
  <2>3. out'[w] = Append(out[w], f) /\ \A v \in Conns \ {w} : out'[v] = out[v]
    BY <2>1, <2>2
  <2>4. /\ Len(Append(out[w], f)) = Len(out[w]) + 1 /\ Len(out[w]) \in Nat
        /\ Append(out[w], f)[Len(out[w]) + 1] = f
        /\ \A k \in 1..Len(out[w]) : Append(out[w], f)[k] = out[w][k]
    BY <2>1 DEF f
  <2>5. QED
    BY <2>1, <2>2, <2>3, <2>4 DEF f
<1>2. CASE ~(to \in DOMAIN writers /\ Writable(writers[to]))
  BY <1>2 DEF Transmit
<1>3. QED
  BY <1>1, <1>2

\* The frame f that the task t at the head of the queue writes.  No client has
\* f's order yet as f would bring it, no order of that kind was given later than
\* those already written, and f fits the tasks behind t.
LEMMA FrameIsNew ==
  ASSUME DeliveryInv, ready # <<>>, Head(ready).step \in {"push", "gather"},
         NEW c \in Head(ready).targets,
         NEW f, f = Frame(Head(ready).n, Head(ready).from, KindOf(Head(ready)), c)
  PROVE  /\ f \in Frames
         /\ \A w \in Conns : \A k \in 1..Len(out[w]) :
              /\ ~(out[w][k].n = f.n /\ out[w][k].to = f.to)
              /\ out[w][k].kind = f.kind => out[w][k].n <= f.n
         /\ \A i \in 2..Len(ready) : Fits(f, ready[i])
<1> DEFINE t == Head(ready)
<1>1. /\ ready \in Seq(Tasks) /\ t \in Tasks
      /\ t = ready[1] /\ 1 \in 1..Len(ready) /\ Len(ready) \in Nat
  BY DEF DeliveryInv, IInv, QueueOK
<1>2. t.step \in {"push", "gather"} /\ c \in t.targets
  OBVIOUS
<1>3. f = Frame(t.n, t.from, KindOf(t), c)
  OBVIOUS
<1>4. \A i \in 1..Len(ready) : ready[i].n \in Nat
  BY <1>1, TasksNumbered
<1> HIDE DEF t
<1>5. f.n = t.n /\ f.to = c /\ f.kind = KindOf(t)
  BY <1>3 DEF Frame
<1>6. f \in Frames
  <2>1. t.n \in 1..MaxIssued /\ t.from \in Conns /\ c \in Ids
    BY <1>1, <1>2 DEF Tasks
  <2>2. KindOf(t) \in Kinds
    BY DEF KindOf, Kinds
  <2>3. QED
    BY <1>3, <2>1, <2>2 DEF Frame, Frames
<1>7. ASSUME NEW w \in Conns, NEW k \in 1..Len(out[w])
      PROVE  /\ ~(out[w][k].n = f.n /\ out[w][k].to = f.to)
             /\ out[w][k].kind = f.kind => out[w][k].n <= f.n
  <2>1. Fits(out[w][k], t)
    BY <1>1 DEF DeliveryInv, AllFit
  <2>2. QED
    BY <1>2, <1>5, <2>1 DEF Fits
<1>8. ASSUME NEW i \in 2..Len(ready)
      PROVE  Fits(f, ready[i])
  <2>1. i \in 1..Len(ready) /\ i # 1
    BY <1>1
  <2>2. f.n # ready[i].n
    BY <1>1, <1>5, <2>1 DEF DeliveryInv, WellQueued
  <2>3. f.kind = KindOf(ready[i]) => Sooner(ready, 1, i)
    BY <1>1, <1>2, <1>5 DEF Sooner, KindOf
  <2>4. f.kind = KindOf(ready[i]) => f.n < ready[i].n
    BY <1>1, <1>5, <2>1, <2>3 DEF DeliveryInv, WellQueued
  <2>5. f.n \in Nat /\ ready[i].n \in Nat
    BY <1>1, <1>4, <1>5, <2>1
  <2>6. QED
    BY <2>2, <2>4, <2>5 DEF Fits
<1>9. QED
  BY <1>6, <1>7, <1>8

\* One send of the task at the head, with what is left of the task at the head of
\* the queue or nothing of it.
LEMMA SendKeepsDelivery ==
  ASSUME DeliveryInv, ready # <<>>, Head(ready).step \in {"push", "gather"},
         NEW c \in Head(ready).targets,
         Transmit(Head(ready).n, Head(ready).from, KindOf(Head(ready)), c),
         \/ ready' = Tail(ready)
         \/ Head(ready).step = "gather" /\ Continue(Head(ready), c),
         issued' = issued, IInv'
  PROVE  DeliveryInv'
<1> DEFINE t == Head(ready)
           f == Frame(t.n, t.from, KindOf(t), c)
           next == Task("gather", t.n, t.from, t.targets \ {c})
<1>1. /\ ready \in Seq(Tasks) /\ t \in Tasks
      /\ t = ready[1] /\ 1 \in 1..Len(ready) /\ Len(ready) \in Nat
      /\ t.step \in {"push", "gather"} /\ c \in t.targets
  BY DEF DeliveryInv, IInv, QueueOK
<1>2. /\ f \in Frames
      /\ \A w \in Conns : \A k \in 1..Len(out[w]) :
           /\ ~(out[w][k].n = f.n /\ out[w][k].to = f.to)
           /\ out[w][k].kind = f.kind => out[w][k].n <= f.n
      /\ \A i \in 2..Len(ready) : Fits(f, ready[i])
  BY FrameIsNew
<1>3. /\ f.n = t.n /\ f.to = c /\ f.kind = KindOf(t)
      /\ next.n = t.n /\ next.step = "gather" /\ next.targets = t.targets \ {c}
  BY DEF Frame, Task
<1>4. \/ UNCHANGED <<out, inflight>>
      \/ \E w \in Conns :
           /\ inflight' = inflight \cup {<<t.n, c, w>>}
           /\ Len(out'[w]) = Len(out[w]) + 1 /\ Len(out[w]) \in Nat
           /\ out'[w][Len(out[w]) + 1] = f
           /\ \A k \in 1..Len(out[w]) : out'[w][k] = out[w][k]
           /\ \A v \in Conns \ {w} : out'[v] = out[v]
  <2>1. Transmit(t.n, t.from, KindOf(t), c) /\ IInv
    BY DEF DeliveryInv
  <2>2. QED
    BY <1>2, <2>1, TransmitWrites
<1>5. \/ ready' = Tail(ready)
      \/ t.step = "gather" /\ ready' = <<next>> \o Tail(ready)
  BY DEF Continue
<1>6. next \in Tasks \/ t.step # "gather"
  <2>1. t.step = "gather" => t.targets \ {c} \in SUBSET Ids
    BY <1>1 DEF Tasks
  <2>2. QED
    BY <2>1, GatherTasks DEF DeliveryInv, IInv
<1>7. issued \in Nat /\ \A i \in 1..Len(ready) : ready[i].n \in Nat
  BY <1>1, TasksNumbered, GatewayAssumption DEF DeliveryInv, IInv, QueueOK
<1>8. \A w \in Conns : \A k \in 1..Len(out[w]) : out[w][k].n \in Nat /\ Len(out[w]) \in Nat
  <2>1. \A w \in Conns : Len(out[w]) \in Nat
    BY DEF DeliveryInv, IInv, QueueOK
  <2>2. QED
    BY <2>1, FramesNumbered DEF DeliveryInv
<1>9. ready # <<>> /\ issued' = issued
  OBVIOUS
<1> HIDE DEF f, next, t
<1>10. \A i \in 1..Len(ready') : \/ \E j \in 2..Len(ready) : ready'[i] = ready[j]
                                 \/ t.step = "gather" /\ ready'[i] = next
  <2>1. CASE ready' = Tail(ready)
    BY <1>1, <1>9, <2>1, QueueElements
  <2>2. CASE t.step = "gather" /\ ready' = <<next>> \o Tail(ready)
    BY <1>1, <1>6, <1>9, <2>2, QueueElements
  <2>3. QED
    BY <1>5, <2>1, <2>2
<1>11. WellQueued(ready')
  <2>1. CASE ready' = Tail(ready)
    BY <1>1, <1>9, <2>1, HeadRan DEF DeliveryInv
  <2>2. CASE t.step = "gather" /\ ready' = <<next>> \o Tail(ready)
    BY <1>1, <1>3, <1>6, <1>9, <2>2, HeadKept DEF DeliveryInv, t
  <2>3. QED
    BY <1>5, <2>1, <2>2
<1>12. \A w \in Conns : \A k \in 1..Len(out'[w]) :
          \/ out'[w][k] = f
          \/ k \in 1..Len(out[w]) /\ out'[w][k] = out[w][k]
  BY <1>4
<1>13. OrdersNumbered'
  <2>1. \A i \in 1..Len(ready') : ready'[i].n <= issued
    BY <1>1, <1>3, <1>10 DEF DeliveryInv, OrdersNumbered
  <2>2. \A w \in Conns : \A k \in 1..Len(out'[w]) : out'[w][k].n <= issued
    BY <1>1, <1>3, <1>12 DEF DeliveryInv, OrdersNumbered
  <2>3. QED
    BY <1>9, <2>1, <2>2 DEF OrdersNumbered
<1>14. AllFit(ready)'
  <2>1. ASSUME NEW g, t.step = "gather", Fits(g, t)
        PROVE  Fits(g, next)
    BY <1>3, <2>1 DEF Fits, KindOf
  <2>2. t.step = "gather" => Fits(f, next)
    BY <1>1, <1>3, <1>7 DEF Fits, KindOf
  <2>3. ASSUME NEW w \in Conns, NEW k \in 1..Len(out'[w]), NEW i \in 1..Len(ready')
        PROVE  Fits(out'[w][k], ready'[i])
    <3>1. CASE out'[w][k] = f
      BY <1>2, <1>10, <2>2, <3>1
    <3>2. CASE k \in 1..Len(out[w]) /\ out'[w][k] = out[w][k]
      <4>1. \A j \in 1..Len(ready) : Fits(out[w][k], ready[j])
        BY <3>2 DEF DeliveryInv, AllFit
      <4>2. QED
        BY <1>1, <1>10, <2>1, <3>2, <4>1
    <3>3. QED
      BY <1>12, <3>1, <3>2
  <2>4. QED
    BY <2>3 DEF AllFit
<1>15. OutputOK'
  <2>1. CASE UNCHANGED <<out, inflight>>
    BY <2>1 DEF DeliveryInv, OutputOK, DeliveredOnce, SameKindInOrder
  <2>2. CASE \E w \in Conns :
               /\ Len(out'[w]) = Len(out[w]) + 1 /\ Len(out[w]) \in Nat
               /\ out'[w][Len(out[w]) + 1] = f
               /\ \A k \in 1..Len(out[w]) : out'[w][k] = out[w][k]
               /\ \A v \in Conns \ {w} : out'[v] = out[v]
    <3>1. PICK w \in Conns :
               /\ Len(out'[w]) = Len(out[w]) + 1 /\ Len(out[w]) \in Nat
               /\ out'[w][Len(out[w]) + 1] = f
               /\ \A k \in 1..Len(out[w]) : out'[w][k] = out[w][k]
               /\ \A v \in Conns \ {w} : out'[v] = out[v]
      BY <2>2
    <3>2. \A v \in Conns : \A k \in 1..Len(out'[v]) :
             \/ v = w /\ k = Len(out[w]) + 1 /\ out'[v][k] = f
             \/ k \in 1..Len(out[v]) /\ out'[v][k] = out[v][k]
      BY <3>1
    <3>3. ASSUME NEW v \in Conns, NEW i \in 1..Len(out'[v]), NEW u \in Conns, NEW j \in 1..Len(out'[u]),
                 out'[v][i].n = out'[u][j].n, out'[v][i].to = out'[u][j].to
          PROVE  v = u /\ i = j
      <4>1. CASE /\ i \in 1..Len(out[v]) /\ out'[v][i] = out[v][i]
                 /\ j \in 1..Len(out[u]) /\ out'[u][j] = out[u][j]
        BY <3>3, <4>1 DEF DeliveryInv, OutputOK, DeliveredOnce
      <4>2. CASE /\ i \in 1..Len(out[v]) /\ out'[v][i] = out[v][i]
                 /\ out'[u][j] = f
        BY <1>2, <3>3, <4>2
      <4>3. CASE /\ j \in 1..Len(out[u]) /\ out'[u][j] = out[u][j]
                 /\ out'[v][i] = f
        BY <1>2, <3>3, <4>3
      <4>4. QED
        BY <3>2, <4>1, <4>2, <4>3
    <3>4. ASSUME NEW v \in Conns, NEW i \in 1..Len(out'[v]), NEW j \in 1..Len(out'[v]), i < j,
                 out'[v][i].from = out'[v][j].from, out'[v][i].kind = out'[v][j].kind,
                 out'[v][i].to = out'[v][j].to
          PROVE  out'[v][i].n < out'[v][j].n
      <4>1. CASE j \in 1..Len(out[v]) /\ out'[v][j] = out[v][j]
        <5>1. i \in 1..Len(out[v]) /\ out'[v][i] = out[v][i]
          BY <3>1, <3>2, <3>4, <4>1
        <5>2. QED
          BY <3>4, <4>1, <5>1 DEF DeliveryInv, OutputOK, SameKindInOrder
      <4>2. CASE v = w /\ j = Len(out[w]) + 1 /\ out'[v][j] = f
        <5>1. i \in 1..Len(out[v]) /\ out'[v][i] = out[v][i]
          BY <3>1, <3>2, <3>4, <4>2
        <5>2. out[v][i].n \in Nat /\ f.n \in Nat
          BY <1>1, <1>3, <1>7, <1>8, <5>1
        <5>3. QED
          BY <1>2, <3>4, <4>2, <5>1, <5>2
      <4>3. QED
        BY <3>2, <4>1, <4>2
    <3>5. QED
      BY <3>3, <3>4 DEF OutputOK, DeliveredOnce, SameKindInOrder
  <2>3. QED
    BY <1>4, <2>1, <2>2
<1>16. QED
  BY <1>11, <1>13, <1>14, <1>15 DEF DeliveryInv

\* The steps that leave the queue and the frames alone.
LEMMA OthersKeepDelivery ==
  ASSUME DeliveryInv, UNCHANGED <<ready, out, issued>>, IInv'
  PROVE  DeliveryInv'
<1>1. ready' = ready /\ out' = out /\ issued' = issued
  OBVIOUS
<1>2. WellQueued(ready') /\ OrdersNumbered' /\ AllFit(ready)'
  BY <1>1 DEF DeliveryInv, OrdersNumbered, AllFit
<1>3. DeliveredOnce' /\ SameKindInOrder'
  BY <1>1 DEF DeliveryInv, OutputOK, DeliveredOnce, SameKindInOrder
<1>4. QED
  BY <1>2, <1>3 DEF DeliveryInv, OutputOK

LEMMA TaskKeepsDelivery ==
  ASSUME DeliveryInv, RunTask, IInv'
  PROVE  DeliveryInv'
<1> DEFINE t == Head(ready)
<1>1. ready # <<>> /\ (t.step \in {"push", "gather"} => t.targets \in SUBSET Ids)
  <2>1. ready # <<>>
    BY DEF RunTask, RunPush, RunAll, RunGroup, RunGather, Running
  <2>2. t \in Tasks
    BY <2>1, GatherTasks DEF DeliveryInv, IInv
  <2>3. QED
    BY <2>1, <2>2 DEF Tasks
<1>2. CASE RunAll
  <2>1. DOMAIN sessions \in SUBSET Ids
    BY DEF DeliveryInv, IInv, CoreOK, IsSessionMap
  <2>2. QED
    BY <1>1, <1>2, <2>1, LookUpKeepsDelivery DEF RunAll, Running
<1>3. CASE RunGroup
  <2>1. Members(groups, t.targets) \in SUBSET Ids
    BY DEF DeliveryInv, IInv, CoreOK, IsGroupMap, Members, GetOr
  <2>2. QED
    BY <1>1, <1>3, <2>1, LookUpKeepsDelivery DEF RunGroup, Running
<1>4. CASE RunPush
  <2>1. /\ t.step = "push" /\ KindOf(t) = "push"
        /\ ready' = Tail(ready) /\ issued' = issued
    BY <1>4 DEF RunPush, Running, KindOf
  <2>2. PICK c \in t.targets : Transmit(t.n, t.from, KindOf(t), c)
    BY <1>4, <2>1 DEF RunPush
  <2>3. QED
    BY <1>1, <2>1, <2>2, SendKeepsDelivery
<1>5. CASE RunGather
  <2>1. t.step = "gather" /\ KindOf(t) = "fan" /\ issued' = issued
    BY <1>5 DEF RunGather, Running, KindOf
  <2>2. CASE ready' = Tail(ready) /\ UNCHANGED <<out, inflight, owed>>
    BY <1>1, <2>1, <2>2, TaskDoneKeepsDelivery
  <2>3. ASSUME NEW c \in t.targets, Transmit(t.n, t.from, "fan", c), Continue(t, c)
        PROVE  DeliveryInv'
    BY <1>1, <2>1, <2>3, SendKeepsDelivery
  <2>4. QED
    BY <1>5, <2>2, <2>3 DEF RunGather
<1>6. QED
  BY <1>2, <1>3, <1>4, <1>5 DEF RunTask

LEMMA StepDeliveryInv == DeliveryInv /\ [Next]_vars => DeliveryInv'
<1> SUFFICES ASSUME DeliveryInv, [Next]_vars
             PROVE  DeliveryInv'
  OBVIOUS
<1>1. IInv'
  BY StepIInv DEF DeliveryInv
<1>2. ASSUME NEW w \in Conns, HandlerStep(w)
      PROVE  DeliveryInv'
  <2>1. ASSUME NEW c \in Ids, Push(w, c)
        PROVE  DeliveryInv'
    BY <1>1, <2>1, OrderKeepsDelivery DEF Push
  <2>2. ASSUME NEW g \in Groups, GroupPush(w, g)
        PROVE  DeliveryInv'
    BY <1>1, <2>2, OrderKeepsDelivery DEF GroupPush
  <2>3. CASE Broadcast(w)
    BY <1>1, <2>3, OrderKeepsDelivery DEF Broadcast
  <2>4. CASE \/ \E c \in HelloIds[w] \ {NoKey} : Hello(w, c)
             \/ \E c \in Ids : Ack(w, c)
             \/ QueryOnline(w) \/ ReplySent(w) \/ HelloRaises(w) \/ Ends(w)
    BY <1>1, <2>4, OthersKeepDelivery
       DEF Hello, Ack, QueryOnline, ReplySent, HelloRaises, Ends, taskVars
  <2>5. QED
    BY <1>2, <2>1, <2>2, <2>3, <2>4, EndedEnds DEF HandlerStep, Ended
<1>3. ASSUME \/ \E w \in Conns : Connect(w) \/ ConnectionCloses(w)
             \/ \E s \in Sends : SendReturns(s) \/ SendRaises(s)
             \/ \E j \in OnlineJoins : JoinGroup(j[1], j[2])
             \/ UNCHANGED vars
      PROVE  DeliveryInv'
  BY <1>1, <1>3, OthersKeepDelivery
     DEF Connect, ConnectionCloses, SendReturns, SendRaises, JoinGroup, vars, taskVars
<1>4. CASE RunTask
  BY <1>1, <1>4, TaskKeepsDelivery
<1>5. QED
  BY <1>2, <1>3, <1>4 DEF Next

LEMMA InitDeliveryInv == Init => DeliveryInv
<1> SUFFICES ASSUME Init PROVE DeliveryInv
  OBVIOUS
<1>1. /\ IInv /\ Len(ready) = 0 /\ issued = 0
      /\ \A w \in Conns : Len(out[w]) = 0
  BY InitIInv DEF Init
<1>2. QED
  BY <1>1 DEF DeliveryInv, WellQueued, OrdersNumbered, AllFit, OutputOK, DeliveredOnce,
     SameKindInOrder

\* No client is sent one order twice, whatever it reconnects as in between and
\* whoever else is registered while the broadcast is under way.
THEOREM NoDuplicates == Spec => []DeliveredOnce
<1>1. DeliveryInv => DeliveredOnce
  BY DEF DeliveryInv, OutputOK
<1>2. QED
  BY <1>1, InitDeliveryInv, StepDeliveryInv, PTL DEF Spec

\* Pushes arrive in the order given and so do broadcasts, though a broadcast takes
\* a turn of the loop to look its clients up while pushes do not.
THEOREM OrderedByKind == Spec => []SameKindInOrder
<1>1. DeliveryInv => SameKindInOrder
  BY DEF DeliveryInv, OutputOK
<1>2. QED
  BY <1>1, InitDeliveryInv, StepDeliveryInv, PTL DEF Spec

-----------------------------------------------------------------------------
(* What is counted was written *)

InFlightTo(c) == {s \in inflight : s[2] = c}

\* The frames written for c, by connection and order.
WrittenTo(c) ==
  {p \in Conns \X (1..MaxIssued) :
     \E i \in 1..Len(out[p[1]]) : out[p[1]][i].n = p[2] /\ out[p[1]][i].to = c}

\* The messages counted for c, none if it is offline.
CountOf(c) == IF c \in DOMAIN sessions THEN sessions[c].messages_sent ELSE 0

\* SentWasWritten for the clients that are offline too: a send to one that has
\* gone may be counted for its next session.
CountsBacked ==
  \A c \in Ids : /\ IsFiniteSet(InFlightTo(c)) /\ IsFiniteSet(WrittenTo(c))
                 /\ CountOf(c) + Cardinality(InFlightTo(c)) <= Cardinality(WrittenTo(c))

WrittenInv == DeliveryInv /\ CountsBacked

LEMMA CountIsNat ==
  ASSUME IInv, NEW c
  PROVE  CountOf(c) \in Nat
  BY DEF CountOf, IInv, CoreOK, IsSessionMap, Session

\* What never writes a frame, and counts no message, keeps the counts backed.
LEMMA NothingCounted ==
  ASSUME CountsBacked, IInv, IInv', out' = out, inflight' \subseteq inflight,
         \A c \in Ids : CountOf(c)' <= CountOf(c)
  PROVE  CountsBacked'
<1> SUFFICES ASSUME NEW c \in Ids
             PROVE  /\ IsFiniteSet(InFlightTo(c))' /\ IsFiniteSet(WrittenTo(c))'
                    /\ (CountOf(c) + Cardinality(InFlightTo(c)) <= Cardinality(WrittenTo(c)))'
  BY DEF CountsBacked
<1>1. WrittenTo(c)' = WrittenTo(c)
  BY DEF WrittenTo
<1>2. InFlightTo(c)' \in SUBSET InFlightTo(c)
  BY DEF InFlightTo
<1>3. /\ IsFiniteSet(InFlightTo(c)) /\ IsFiniteSet(WrittenTo(c))
      /\ CountOf(c) + Cardinality(InFlightTo(c)) <= Cardinality(WrittenTo(c))
  BY DEF CountsBacked
<1>4. /\ IsFiniteSet(InFlightTo(c)')
      /\ Cardinality(InFlightTo(c)') <= Cardinality(InFlightTo(c))
  BY <1>2, <1>3, FS_Subset
<1>5. CountOf(c) \in Nat /\ CountOf(c)' \in Nat /\ CountOf(c)' <= CountOf(c)
  <2>1. CountOf(c)' \in Nat
    BY DEF CountOf, IInv, CoreOK, IsSessionMap, Session
  <2>2. QED
    BY <2>1, CountIsNat
<1>6. /\ Cardinality(InFlightTo(c)) \in Nat /\ Cardinality(InFlightTo(c)') \in Nat
      /\ Cardinality(WrittenTo(c)) \in Nat
  BY <1>3, <1>4, FS_CardinalityType
<1>7. QED
  BY <1>1, <1>3, <1>4, <1>5, <1>6

\* A send that returns stops being in flight and is counted once, or not at all.
LEMMA ReturnKeepsCounts ==
  ASSUME CountsBacked, IInv, IInv', NEW s \in Sends, SendReturns(s)
  PROVE  CountsBacked'
<1> SUFFICES ASSUME NEW c \in Ids
             PROVE  /\ IsFiniteSet(InFlightTo(c))' /\ IsFiniteSet(WrittenTo(c))'
                    /\ (CountOf(c) + Cardinality(InFlightTo(c)) <= Cardinality(WrittenTo(c)))'
  BY DEF CountsBacked
<1>1. /\ s \in inflight /\ inflight' = inflight \ {s} /\ out' = out
      /\ sessions' = CountedSent(sessions, s[2])
  BY DEF SendReturns
<1>2. WrittenTo(c)' = WrittenTo(c)
  BY <1>1 DEF WrittenTo
<1>3. /\ IsFiniteSet(InFlightTo(c)) /\ IsFiniteSet(WrittenTo(c))
      /\ CountOf(c) + Cardinality(InFlightTo(c)) <= Cardinality(WrittenTo(c))
  BY DEF CountsBacked
<1>4. InFlightTo(c)' = InFlightTo(c) \ {s}
  BY <1>1 DEF InFlightTo
<1>5. /\ IsFiniteSet(InFlightTo(c)')
      /\ Cardinality(InFlightTo(c)') = IF s \in InFlightTo(c) THEN Cardinality(InFlightTo(c)) - 1
                                       ELSE Cardinality(InFlightTo(c))
  BY <1>3, <1>4, FS_RemoveElement
<1>6. CountOf(c)' <= IF s \in InFlightTo(c) THEN CountOf(c) + 1 ELSE CountOf(c)
  <2>1. s \in InFlightTo(c) <=> s[2] = c
    BY <1>1 DEF InFlightTo
  <2>2. CountOf(c) \in Nat
    BY CountIsNat
  <2>3. sessions \in [DOMAIN sessions -> Session(Groups)]
    BY DEF IInv, CoreOK, IsSessionMap
  <2>4. QED
    BY <1>1, <2>1, <2>2, <2>3 DEF CountOf, CountedSent, Session
<1>7. CountOf(c) \in Nat /\ CountOf(c)' \in Nat
  <2>1. CountOf(c)' \in Nat
    BY DEF CountOf, IInv, CoreOK, IsSessionMap, Session
  <2>2. QED
    BY <2>1, CountIsNat
<1>8. /\ Cardinality(InFlightTo(c)) \in Nat /\ Cardinality(InFlightTo(c)') \in Nat
      /\ Cardinality(WrittenTo(c)) \in Nat
  BY <1>3, <1>5, FS_CardinalityType
<1>9. QED
  BY <1>2, <1>3, <1>5, <1>6, <1>7, <1>8

\* A send that starts adds one frame that was not there and is one more in flight.
LEMMA SendKeepsCounts ==
  ASSUME WrittenInv, IInv', ready # <<>>, Head(ready).step \in {"push", "gather"},
         NEW d \in Head(ready).targets,
         Transmit(Head(ready).n, Head(ready).from, KindOf(Head(ready)), d),
         sessions' = sessions
  PROVE  CountsBacked'
<1> DEFINE t == Head(ready)
           f == Frame(t.n, t.from, KindOf(t), d)
<1>1. /\ f \in Frames
      /\ \A w \in Conns : \A k \in 1..Len(out[w]) :
           ~(out[w][k].n = f.n /\ out[w][k].to = f.to)
  BY FrameIsNew DEF WrittenInv
<1>2. f.n = t.n /\ f.to = d /\ t.n \in 1..MaxIssued
  <2>1. t \in Tasks
    BY GatherTasks DEF WrittenInv, DeliveryInv, IInv
  <2>2. QED
    BY <2>1, TasksNumbered DEF Frame
<1>3. IInv /\ CountsBacked
  BY DEF WrittenInv, DeliveryInv
<1>4. \/ UNCHANGED <<out, inflight>>
      \/ \E w \in Conns :
           /\ inflight' = inflight \cup {<<t.n, d, w>>}
           /\ Len(out'[w]) = Len(out[w]) + 1 /\ Len(out[w]) \in Nat
           /\ out'[w][Len(out[w]) + 1] = f
           /\ \A k \in 1..Len(out[w]) : out'[w][k] = out[w][k]
           /\ \A v \in Conns \ {w} : out'[v] = out[v]
  BY <1>1, <1>3, TransmitWrites
<1>5. sessions' = sessions /\ IInv'
  OBVIOUS
<1> HIDE DEF f, t
<1>6. CASE UNCHANGED <<out, inflight>>
  <2>1. \A c \in Ids : CountOf(c)' = CountOf(c) /\ CountOf(c) \in Nat
    BY <1>3, <1>5, CountIsNat DEF CountOf
  <2>2. QED
    BY <1>3, <1>5, <1>6, <2>1, NothingCounted
<1>7. ASSUME NEW w \in Conns, NEW c \in Ids,
             inflight' = inflight \cup {<<t.n, d, w>>},
             Len(out'[w]) = Len(out[w]) + 1, Len(out[w]) \in Nat,
             out'[w][Len(out[w]) + 1] = f,
             \A k \in 1..Len(out[w]) : out'[w][k] = out[w][k],
             \A v \in Conns \ {w} : out'[v] = out[v]
      PROVE  /\ IsFiniteSet(InFlightTo(c)') /\ IsFiniteSet(WrittenTo(c)')
             /\ CountOf(c)' + Cardinality(InFlightTo(c)') <= Cardinality(WrittenTo(c)')
  <2>1. /\ IsFiniteSet(InFlightTo(c)) /\ IsFiniteSet(WrittenTo(c))
        /\ CountOf(c) + Cardinality(InFlightTo(c)) <= Cardinality(WrittenTo(c))
    BY <1>3 DEF CountsBacked
  <2>2. CountOf(c)' = CountOf(c) /\ CountOf(c) \in Nat
    BY <1>3, <1>5, CountIsNat DEF CountOf
  <2>3. \A v \in Conns : \A k \in 1..Len(out'[v]) :
           \/ v = w /\ out'[v][k] = f
           \/ k \in 1..Len(out[v]) /\ out'[v][k] = out[v][k]
    BY <1>7
  <2>4. \A v \in Conns : \A k \in 1..Len(out[v]) :
           k \in 1..Len(out'[v]) /\ out'[v][k] = out[v][k]
    BY <1>7
  <2>5. CASE c # d
    <3>1. InFlightTo(c)' = InFlightTo(c)
      BY <1>7, <2>5 DEF InFlightTo
    <3>2. ASSUME NEW v \in Conns, NEW n \in 1..MaxIssued
          PROVE  (\E i \in 1..Len(out'[v]) : out'[v][i].n = n /\ out'[v][i].to = c)
                 <=> (\E i \in 1..Len(out[v]) : out[v][i].n = n /\ out[v][i].to = c)
      BY <1>2, <2>3, <2>4, <2>5
    <3>3. WrittenTo(c)' = WrittenTo(c)
      <4> DEFINE W(p) == \E i \in 1..Len(out[p[1]]) :
                           out[p[1]][i].n = p[2] /\ out[p[1]][i].to = c
                 W1(p) == \E i \in 1..Len(out'[p[1]]) :
                            out'[p[1]][i].n = p[2] /\ out'[p[1]][i].to = c
      <4>1. \A p \in Conns \X (1..MaxIssued) : W1(p) <=> W(p)
        BY <3>2
      <4>2. /\ WrittenTo(c) = {p \in Conns \X (1..MaxIssued) : W(p)}
            /\ WrittenTo(c)' = {p \in Conns \X (1..MaxIssued) : W1(p)}
        BY DEF WrittenTo
      <4> HIDE DEF W, W1
      <4>3. QED
        BY <4>1, <4>2
    <3>4. QED
      BY <2>1, <2>2, <3>1, <3>3
  <2>6. CASE c = d
    <3>1. InFlightTo(c)' = InFlightTo(c) \cup {<<t.n, c, w>>}
      BY <1>7, <2>6 DEF InFlightTo
    <3>2. ASSUME NEW v \in Conns, NEW n \in 1..MaxIssued
          PROVE  (\E i \in 1..Len(out'[v]) : out'[v][i].n = n /\ out'[v][i].to = c)
                 <=> \/ \E i \in 1..Len(out[v]) : out[v][i].n = n /\ out[v][i].to = c
                     \/ v = w /\ n = t.n
      <4>1. Len(out[w]) + 1 \in 1..Len(out'[w])
        BY <1>7
      <4>2. QED
        BY <1>2, <1>7, <2>3, <2>4, <2>6, <4>1
    <3>3. WrittenTo(c)' = WrittenTo(c) \cup {<<w, t.n>>}
      <4>1. <<w, t.n>> \in Conns \X (1..MaxIssued)
        BY <1>2
      <4>2. ASSUME NEW p \in Conns \X (1..MaxIssued)
            PROVE  p \in WrittenTo(c)' <=> p \in WrittenTo(c) \/ p = <<w, t.n>>
        <5>1. p[1] \in Conns /\ p[2] \in 1..MaxIssued /\ p = <<p[1], p[2]>>
          OBVIOUS
        <5>2. p = <<w, t.n>> <=> p[1] = w /\ p[2] = t.n
          BY <5>1
        <5>3. QED
          BY <3>2, <5>1, <5>2 DEF WrittenTo
      <4>3. WrittenTo(c) \subseteq Conns \X (1..MaxIssued)
            /\ WrittenTo(c)' \subseteq Conns \X (1..MaxIssued)
        BY DEF WrittenTo
      <4>4. QED
        BY <4>1, <4>2, <4>3
    <3>4. <<w, t.n>> \notin WrittenTo(c)
      BY <1>1, <1>2, <2>6 DEF WrittenTo
    <3>5. /\ IsFiniteSet(WrittenTo(c)')
          /\ Cardinality(WrittenTo(c)') = Cardinality(WrittenTo(c)) + 1
      BY <2>1, <3>3, <3>4, FS_AddElement
    <3>6. /\ IsFiniteSet(InFlightTo(c)')
          /\ \/ Cardinality(InFlightTo(c)') = Cardinality(InFlightTo(c)) + 1
             \/ Cardinality(InFlightTo(c)') = Cardinality(InFlightTo(c))
      BY <2>1, <3>1, FS_AddElement
    <3>7. Cardinality(InFlightTo(c)) \in Nat /\ Cardinality(WrittenTo(c)) \in Nat
      BY <2>1, FS_CardinalityType
    <3>8. QED
      BY <2>1, <2>2, <3>5, <3>6, <3>7
  <2>7. QED
    BY <2>5, <2>6
<1>8. QED
  BY <1>4, <1>6, <1>7 DEF CountsBacked

LEMMA TaskKeepsCounts ==
  ASSUME WrittenInv, RunTask, IInv'
  PROVE  CountsBacked'
<1> DEFINE t == Head(ready)
<1>1. IInv /\ CountsBacked
  BY DEF WrittenInv, DeliveryInv
<1>2. /\ ready # <<>> /\ sessions' = sessions
  BY DEF RunTask, RunPush, RunAll, RunGroup, RunGather, Running, Gather, coreVars
<1>3. ASSUME UNCHANGED <<out, inflight>>
      PROVE  CountsBacked'
  <2>1. \A c \in Ids : CountOf(c)' <= CountOf(c)
    <3>1. \A c \in Ids : CountOf(c)' = CountOf(c) /\ CountOf(c) \in Nat
      BY <1>1, <1>2, CountIsNat DEF CountOf
    <3>2. QED
      BY <3>1
  <2>2. QED
    BY <1>1, <1>3, <2>1, NothingCounted
<1>4. CASE RunAll \/ RunGroup
  BY <1>3, <1>4 DEF RunAll, RunGroup, Gather
<1>5. CASE RunPush
  <2>1. t.step = "push" /\ KindOf(t) = "push"
    BY <1>5 DEF RunPush, Running, KindOf
  <2>2. PICK c \in t.targets : Transmit(t.n, t.from, KindOf(t), c)
    BY <1>5, <2>1 DEF RunPush
  <2>3. QED
    BY <1>2, <2>1, <2>2, SendKeepsCounts
<1>6. CASE RunGather
  <2>1. t.step = "gather" /\ KindOf(t) = "fan"
    BY <1>6 DEF RunGather, Running, KindOf
  <2>2. ASSUME NEW c \in t.targets, Transmit(t.n, t.from, "fan", c)
        PROVE  CountsBacked'
    BY <1>2, <2>1, <2>2, SendKeepsCounts
  <2>3. QED
    BY <1>3, <1>6, <2>2 DEF RunGather
<1>7. QED
  BY <1>4, <1>5, <1>6 DEF RunTask

LEMMA StepWrittenInv == WrittenInv /\ [Next]_vars => WrittenInv'
<1> SUFFICES ASSUME WrittenInv, [Next]_vars
             PROVE  CountsBacked'
  BY StepDeliveryInv DEF WrittenInv
<1>1. IInv /\ IInv' /\ CountsBacked
  BY StepIInv DEF WrittenInv, DeliveryInv
<1>2. \A c : CountOf(c) \in Nat
  BY <1>1, CountIsNat
<1>3. ASSUME sessions' = sessions, out' = out, inflight' \subseteq inflight
      PROVE  CountsBacked'
  <2>1. \A c \in Ids : CountOf(c)' = CountOf(c)
    BY <1>3 DEF CountOf
  <2>2. \A c \in Ids : CountOf(c)' <= CountOf(c)
    BY <1>2, <2>1
  <2>3. QED
    BY <1>1, <1>3, <2>2, NothingCounted
<1>4. ASSUME UNCHANGED <<out, inflight>>, NEW c \in Ids, NEW session \in Session(Groups),
             session.messages_sent = CountOf(c),
             sessions' = Assign(sessions, c, session)
      PROVE  CountsBacked'
  <2>1. \A d \in Ids : CountOf(d)' = CountOf(d)
    BY <1>4 DEF CountOf, Assign
  <2>2. \A d \in Ids : CountOf(d)' <= CountOf(d)
    BY <1>2, <2>1
  <2>3. QED
    BY <1>1, <1>4, <2>2, NothingCounted
<1>5. ASSUME NEW c \in Ids
      PROVE  /\ GetOr(sessions, c, NewSession(Now)) \in Session(Groups)
             /\ GetOr(sessions, c, NewSession(Now)).messages_sent = CountOf(c)
  BY <1>1 DEF GetOr, NewSession, CountOf, Session, Now, IInv, CoreOK, IsSessionMap
<1>6. ASSUME NEW w \in Conns, NEW a \in HelloIds[w] \ {NoKey}, Hello(w, a)
      PROVE  CountsBacked'
  <2> DEFINE c == IdOf(a)
             session == [GetOr(sessions, c, NewSession(Now)) EXCEPT !.last_heartbeat = Now]
  <2>1. c \in Ids
    BY HelloIdsFacts
  <2>2. session \in Session(Groups) /\ session.messages_sent = CountOf(c)
    BY <1>5, <2>1 DEF Session, Now
  <2>3. sessions' = Assign(sessions, c, session) /\ UNCHANGED <<out, inflight>>
    BY <1>6 DEF Hello, Registered, taskVars
  <2> HIDE DEF c, session
  <2>4. QED
    BY <1>4, <2>1, <2>2, <2>3
<1>7. ASSUME NEW j \in OnlineJoins, JoinGroup(j[1], j[2])
      PROVE  CountsBacked'
  <2> DEFINE c == j[1]
             session == [GetOr(sessions, c, NewSession(Now)) EXCEPT !.group_ids = @ \cup {j[2]}]
  <2>1. c \in Ids /\ j[2] \in Groups
    BY GatewayAssumption DEF OnlineJoins
  <2>2. session \in Session(Groups) /\ session.messages_sent = CountOf(c)
    BY <1>5, <2>1 DEF Session
  <2>3. sessions' = Assign(sessions, c, session) /\ UNCHANGED <<out, inflight>>
    BY <1>7 DEF JoinGroup, SessionsJoined, taskVars
  <2> HIDE DEF c, session
  <2>4. QED
    BY <1>4, <2>1, <2>2, <2>3
<1>8. ASSUME NEW w \in Conns, NEW c \in Ids, Ack(w, c)
      PROVE  CountsBacked'
  <2>1. \A d \in Ids : CountOf(d)' = CountOf(d)
    BY <1>1, <1>8 DEF CountOf, Ack, CountedAck, IInv, CoreOK, IsSessionMap, Session
  <2>2. \A d \in Ids : CountOf(d)' <= CountOf(d)
    BY <1>2, <2>1
  <2>3. QED
    BY <1>1, <1>8, <2>2, NothingCounted DEF Ack, taskVars
<1>9. ASSUME NEW w \in Conns, Ends(w)
      PROVE  CountsBacked'
  <2>1. \A d \in Ids : CountOf(d)' = CountOf(d) \/ CountOf(d)' = 0
    BY <1>9 DEF CountOf, Ends, CleanUp, Unregistered, PopAll, coreVars
  <2>2. \A d \in Ids : CountOf(d)' <= CountOf(d)
    BY <1>2, <2>1
  <2>3. QED
    BY <1>1, <1>9, <2>2, NothingCounted DEF Ends, taskVars
<1>10. ASSUME NEW s \in Sends, SendReturns(s)
       PROVE  CountsBacked'
  BY <1>1, <1>10, ReturnKeepsCounts
<1>11. ASSUME \/ \E w \in Conns :
                   \/ Connect(w) \/ ConnectionCloses(w) \/ QueryOnline(w) \/ ReplySent(w)
                   \/ Broadcast(w) \/ HelloRaises(w)
                   \/ \E c \in Ids : Push(w, c)
                   \/ \E g \in Groups : GroupPush(w, g)
              \/ \E s \in Sends : SendRaises(s)
              \/ UNCHANGED vars
       PROVE  CountsBacked'
  BY <1>3, <1>11
     DEF Connect, ConnectionCloses, QueryOnline, ReplySent, HelloRaises, Push, GroupPush,
         Broadcast, CreateTask, SendRaises, vars, coreVars, taskVars
<1>12. CASE RunTask
  BY <1>1, <1>12, TaskKeepsCounts
<1>13. QED
  BY <1>6, <1>7, <1>8, <1>9, <1>10, <1>11, <1>12, EndedEnds DEF Next, HandlerStep, Ended

LEMMA InitWrittenInv == Init => WrittenInv
<1> SUFFICES ASSUME Init PROVE CountsBacked
  BY InitDeliveryInv DEF WrittenInv
<1>1. /\ inflight = {} /\ DOMAIN sessions = {}
      /\ \A w \in Conns : Len(out[w]) = 0
  BY DEF Init
<1>2. \A c \in Ids : InFlightTo(c) = {} /\ WrittenTo(c) = {} /\ CountOf(c) = 0
  BY <1>1 DEF InFlightTo, WrittenTo, CountOf
<1>3. QED
  BY <1>2, FS_EmptySet DEF CountsBacked

LEMMA WrittenIsCounted == WrittenInv => SentWasWritten
<1> SUFFICES ASSUME WrittenInv, NEW c \in DOMAIN sessions
             PROVE  CountOf(c) + Cardinality(InFlightTo(c)) <= Cardinality(WrittenTo(c))
  BY DEF SentWasWritten, CountOf, InFlightTo, WrittenTo
<1>1. c \in Ids
  BY DEF WrittenInv, DeliveryInv, IInv, CoreOK, IsSessionMap
<1>2. QED
  BY <1>1 DEF WrittenInv, CountsBacked

\* A count of messages sent to an online client is backed by frames written to
\* it: neither a send that failed, nor one that returned after the client came
\* back under a new session, counts a message that was never put on a wire.
THEOREM CountedWasWritten == Spec => []SentWasWritten
BY InitWrittenInv, StepWrittenInv, WrittenIsCounted, PTL DEF Spec
=============================================================================
