--------------------------- MODULE TcpGatewayProofs ---------------------------
(***************************************************************************)
(* What holds of the WebSocket gateway holds of the two gateways together, *)
(* which share its registry, its dispatcher and its loop, for any number   *)
(* of streams and connections.  A stream does what a connection does but   *)
(* for a hello that fails, the end of its handler (Leave), which closes a  *)
(* transport that may still be open and be owed frames, and the close that *)
(* follows it.                                                             *)
(***************************************************************************)
EXTENDS TcpGateway, WsGatewayProofs

StreamStep(w) == HelloFails(w) \/ (Live(w) /\ Leave(w)) \/ HandlerEnds(w)

LEMMA TcpStepIsGatewayStep ==
  ASSUME [TcpNext]_tcpVars
  PROVE  [Next]_vars \/ \E w \in Streams : StreamStep(w)
<1>1. ASSUME NEW w \in Streams, Accept(w) \/ StreamLost(w) \/ (Line(w) /\ ~HelloFails(w))
      PROVE  Next
  BY <1>1, StreamAssumption DEF Accept, StreamLost, Line, Next, HandlerStep
<1>2. ASSUME NEW w \in Streams, PeerEnds(w)
      PROVE  UNCHANGED vars
  BY <1>2 DEF PeerEnds
<1>3. ASSUME NEW w \in Streams, HelloFails(w) \/ ReadEnds(w) \/ ReadOverruns(w) \/ HandlerEnds(w)
      PROVE  StreamStep(w)
  BY <1>3 DEF ReadEnds, ReadOverruns, StreamStep
<1>4. ASSUME ServerCloses \/ ServerClosed \/ UNCHANGED tcpVars
      PROVE  UNCHANGED vars
  BY <1>4 DEF ServerCloses, ServerClosed, tcpVars
<1>5. ASSUME \/ \E w \in Conns \ Streams : Connect(w) \/ ConnectionCloses(w) \/ HandlerStep(w)
             \/ RunTask
             \/ \E s \in Sends : SendReturns(s) \/ SendRaises(s)
             \/ \E j \in OnlineJoins : JoinGroup(j[1], j[2])
      PROVE  Next
  BY <1>5 DEF Next
<1>6. QED
  BY <1>1, <1>2, <1>3, <1>4, <1>5 DEF TcpNext

-----------------------------------------------------------------------------
(* The end of a stream's handler *)

LEMMA LeaveEffect ==
  ASSUME IInv, NEW w \in Conns, Leave(w)
  PROVE  /\ UNCHANGED <<clientId, taskVars>>
         /\ socket'[w] \in {socket[w], "closing", "closed"}
         /\ \A v \in Conns \ {w} : socket'[v] = socket[v]
         /\ \A v \in Conns : Live(v)' <=> Live(v) /\ v # w
         /\ DOMAIN writers' = DOMAIN writers \ {clientId[w]}
         /\ DOMAIN sessions' = DOMAIN sessions \ {clientId[w]}
         /\ \A d \in DOMAIN writers \ {clientId[w]} : writers'[d] = writers[d]
<1>1. /\ DOMAIN writers' = DOMAIN writers \ {clientId[w]}
      /\ DOMAIN sessions' = DOMAIN sessions \ {clientId[w]}
      /\ \A d \in DOMAIN writers \ {clientId[w]} : writers'[d] = writers[d]
  <2>1. CASE clientId[w] \notin Ids
    <3>1. DOMAIN writers \subseteq Ids /\ DOMAIN sessions \subseteq Ids
      BY DEF IInv, CoreOK, IsSessionMap
    <3>2. UNCHANGED <<writers, sessions>>
      BY <2>1 DEF Leave, coreVars
    <3>3. QED
      BY <2>1, <3>1, <3>2
  <2>2. CASE clientId[w] \in Ids
    BY <2>2 DEF Leave, CleanUp, PopAll, Unregistered
  <2>3. QED
    BY <2>1, <2>2
<1>2. /\ handler' = [handler EXCEPT ![w] = "done"]
      /\ UNCHANGED <<clientId, taskVars>>
  BY DEF Leave
<1>3. \A v \in Conns : Live(v)' <=> Live(v) /\ v # w
  BY <1>2 DEF IInv, QueueOK, Live
<1>4. /\ socket'[w] \in {socket[w], "closing", "closed"}
      /\ \A v \in Conns \ {w} : socket'[v] = socket[v]
  <2>1. CASE clientId[w] = NoKey
    BY <2>1 DEF Leave
  <2>2. CASE clientId[w] # NoKey
    BY <2>2 DEF Leave, IInv, QueueOK
  <2>3. QED
    BY <2>1, <2>2
<1>5. QED
  BY <1>1, <1>2, <1>3, <1>4

LEMMA LeaveKeepsIInv ==
  ASSUME IInv, NEW w \in Conns, Leave(w)
  PROVE  IInv'
<1>1. CoreOK'
  <2>1. CASE clientId[w] \notin Ids
    BY <2>1 DEF Leave, IInv, CoreOK, coreVars, TablesAgree
  <2>2. CASE clientId[w] \in Ids
    BY <2>2, CleanUpKeepsCore DEF Leave, IInv
  <2>3. QED
    BY <2>1, <2>2
<1>2. QueueOK'
  <2>1. owed' \subseteq owed
    BY DEF Leave
  <2>2. socket' \in [Conns -> {"none", "open", "closing", "closed"}]
    <3>1. CASE clientId[w] = NoKey
      BY <3>1 DEF Leave, IInv, QueueOK
    <3>2. CASE clientId[w] # NoKey
      BY <3>2 DEF Leave, IInv, QueueOK
    <3>3. QED
      BY <3>1, <3>2
  <2>3. QED
    BY <2>1, <2>2 DEF Leave, IInv, QueueOK, taskVars
<1>3. QED
  BY <1>1, <1>2 DEF IInv

LEMMA LeaveKeepsWritten ==
  ASSUME WrittenInv, NEW w \in Conns, Leave(w)
  PROVE  WrittenInv'
<1>1. IInv /\ IInv' /\ UNCHANGED <<ready, out, issued, inflight>>
  BY LeaveKeepsIInv DEF WrittenInv, DeliveryInv, Leave, taskVars
<1>2. DeliveryInv'
  BY <1>1, OthersKeepDelivery DEF WrittenInv
<1>3. \A d \in Ids : CountOf(d)' = CountOf(d) \/ CountOf(d)' = 0
  BY DEF CountOf, Leave, CleanUp, Unregistered, PopAll, coreVars
<1>4. \A d \in Ids : CountOf(d)' <= CountOf(d)
  BY <1>1, <1>3, CountIsNat
<1>5. QED
  BY <1>1, <1>2, <1>4, NothingCounted DEF WrittenInv

LEMMA LeaveKeepsOwed ==
  ASSUME OwedInv, NEW w \in Streams, Leave(w)
  PROVE  OwedInv'
<1>1. IInv /\ w \in Conns
  BY StreamAssumption DEF OwedInv
<1>2. /\ ready' = ready /\ owed' \subseteq owed
      /\ \A v \in Conns \ {w} : socket'[v] = socket[v]
      /\ DOMAIN writers' = DOMAIN writers \ {clientId[w]}
      /\ DOMAIN sessions' = DOMAIN sessions \ {clientId[w]}
      /\ \A d \in DOMAIN writers \ {clientId[w]} : writers'[d] = writers[d]
  <2>1. owed' \subseteq owed
    BY DEF Leave
  <2>2. QED
    BY <1>1, <2>1, LeaveEffect DEF taskVars
<1>3. \A o \in owed' : o[2] # clientId[w]
  <2>1. CASE clientId[w] = NoKey
    <3>1. \A o \in owed : o[2] \in Ids
      BY <1>1 DEF IInv, QueueOK, Sends
    <3>2. QED
      BY <1>2, <2>1, <3>1, GatewayAssumption
  <2>2. CASE clientId[w] # NoKey
    BY <2>2 DEF Leave
  <2>3. QED
    BY <2>1, <2>2
<1>4. \A o \in owed : /\ o[2] \in DOMAIN writers /\ writers[o[2]] = o[3] /\ o[3] \in Conns
                      /\ socket[o[3]] = "open" /\ o[2] \in DOMAIN sessions
  BY <1>1 DEF OwedInv, OwedAttached, IInv, CoreOK, TablesAgree
<1>5. \A o \in owed' : o[3] = w => socket'[w] = socket[w]
  BY DEF Leave
<1>6. \A d, g : d # clientId[w] /\ d \in Members(groups, g) => d \in Members(groups', g)
  BY DEF Leave, CleanUp, GroupsWithout, Members, GetOr, coreVars
<1>7. \A o \in owed' : /\ o[2] \in DOMAIN writers' /\ writers'[o[2]] = o[3]
                       /\ socket'[o[3]] = "open" /\ o[2] \in DOMAIN sessions'
                       /\ \A g : o[2] \in Members(groups, g) => o[2] \in Members(groups', g)
  BY <1>2, <1>3, <1>4, <1>5, <1>6
<1>8. OwedAttached' /\ OwedIsPending'
  BY <1>2, <1>7, QueueUntouched
<1>9. QED
  BY <1>1, <1>8, LeaveKeepsIInv DEF OwedInv

-----------------------------------------------------------------------------
(* The invariant of both gateways *)

BothInv == WrittenInv /\ OwedInv

\* A hello that fails stores a client_id that names nobody, and the close of a
\* stream that its handler has left ends what nobody is owed on.
LEMMA QuietEffect ==
  ASSUME IInv, NEW w \in Streams, HelloFails(w) \/ HandlerEnds(w)
  PROVE  /\ IInv' /\ (OwnIdOnly => OwnIdOnly')
         /\ UNCHANGED <<handler, sessions, groups, writers>>
         /\ UNCHANGED <<ready, inflight, out, issued, owed>>
         /\ \A v \in Conns : \/ clientId'[v] = clientId[v]
                             \/ clientId'[v] = NoKey /\ NoKey \in HelloIds[v]
         /\ \A v \in Conns : socket[v] = "open" => socket'[v] = "open"
<1>1. w \in Conns
  BY StreamAssumption
<1>2. UNCHANGED <<handler, sessions, groups, writers, ready, inflight, out, issued, owed>>
  BY DEF HelloFails, HandlerEnds, coreVars, taskVars
<1>3. /\ clientId' \in [Conns -> Ids \cup {NoId, NoKey}]
      /\ \A v \in Conns : \/ clientId'[v] = clientId[v]
                          \/ clientId'[v] = NoKey /\ NoKey \in HelloIds[v] /\ Live(v)
  BY <1>1 DEF HelloFails, HandlerEnds, Takes, Live, IInv, CoreOK
<1>4. /\ socket' \in [Conns -> {"none", "open", "closing", "closed"}]
      /\ \A v \in Conns : socket[v] = "open" => socket'[v] = "open"
      /\ \A v \in Conns : socket'[v] = "none" => socket[v] = "none"
  BY <1>1 DEF HelloFails, HandlerEnds, IInv, QueueOK
<1>5. IInv'
  BY <1>2, <1>3, <1>4 DEF IInv, CoreOK, QueueOK, TablesAgree
<1>6. OwnIdOnly => OwnIdOnly'
  BY <1>2, <1>3, <1>4, GatewayAssumption DEF OwnIdOnly, IdsOf, Live
<1>7. QED
  BY <1>2, <1>3, <1>4, <1>5, <1>6

LEMMA QuietKeepsBoth ==
  ASSUME BothInv, NEW w \in Streams, HelloFails(w) \/ HandlerEnds(w)
  PROVE  BothInv'
<1>1. IInv
  BY DEF BothInv, OwedInv
<1>2. /\ IInv' /\ UNCHANGED <<sessions, groups, writers, ready, inflight, out, issued, owed>>
      /\ \A v \in Conns : socket[v] = "open" => socket'[v] = "open"
  BY <1>1, QuietEffect
<1>3. OwedAttached'
  BY <1>1, <1>2 DEF BothInv, OwedInv, OwedAttached, IInv, CoreOK
<1>4. OwedIsPending'
  BY <1>2 DEF BothInv, OwedInv, OwedIsPending
<1>5. DeliveryInv'
  BY <1>2, OthersKeepDelivery DEF BothInv, WrittenInv
<1>6. CountsBacked'
  <2>1. \A c \in Ids : CountOf(c)' = CountOf(c) /\ CountOf(c) \in Nat
    BY <1>1, <1>2, CountIsNat DEF CountOf
  <2>2. \A c \in Ids : CountOf(c)' <= CountOf(c)
    BY <2>1
  <2>3. QED
    BY <1>1, <1>2, <2>2, NothingCounted DEF BothInv, WrittenInv
<1>7. QED
  BY <1>2, <1>3, <1>4, <1>5, <1>6 DEF BothInv, OwedInv, WrittenInv

LEMMA StepBothInv == BothInv /\ [TcpNext]_tcpVars => BothInv'
<1> SUFFICES ASSUME BothInv, [TcpNext]_tcpVars
             PROVE  BothInv'
  OBVIOUS
<1>1. CASE [Next]_vars
  BY <1>1, StepWrittenInv, StepOwedInv DEF BothInv
<1>2. ASSUME NEW w \in Streams, Leave(w)
      PROVE  BothInv'
  BY <1>2, LeaveKeepsWritten, LeaveKeepsOwed, StreamAssumption DEF BothInv
<1>3. ASSUME NEW w \in Streams, HelloFails(w) \/ HandlerEnds(w)
      PROVE  BothInv'
  BY <1>3, QuietKeepsBoth
<1>4. QED
  BY <1>1, <1>2, <1>3, TcpStepIsGatewayStep DEF StreamStep

LEMMA InitBothInv == TcpInit => BothInv
<1> SUFFICES ASSUME TcpInit PROVE BothInv
  OBVIOUS
<1>1. Init /\ IInv
  BY InitIInv DEF TcpInit
<1>2. WrittenInv
  BY <1>1, InitWrittenInv
<1>3. OwedInv
  BY <1>1 DEF Init, OwedInv, OwedAttached, OwedIsPending
<1>4. QED
  BY <1>2, <1>3 DEF BothInv

\* The tables agree whoever of the two gateways changed them last.
THEOREM BothTablesAgree == TcpSpec => [](TypeOK /\ TablesAgree)
<1>1. BothInv => TypeOK /\ TablesAgree
  BY DEF BothInv, OwedInv, IInv, CoreOK, QueueOK, TypeOK
<1>2. QED
  BY <1>1, InitBothInv, StepBothInv, PTL DEF TcpSpec

\* Neither gateway forgets a client of the other, sends it an order twice or out
\* of order, or counts for it a message that was not written: not even a stream
\* that ends on a line too long while the gateway could still write to it, nor one
\* that has said hello under several ids or under one that is no key.
THEOREM BothDeliver ==
  TcpSpec => [](OwedIsPending /\ DeliveredOnce /\ SameKindInOrder /\ SentWasWritten)
<1>1. BothInv => OwedIsPending /\ DeliveredOnce /\ SameKindInOrder /\ SentWasWritten
  BY WrittenIsCounted DEF BothInv, OwedInv, WrittenInv, DeliveryInv, OutputOK
<1>2. QED
  BY <1>1, InitBothInv, StepBothInv, PTL DEF TcpSpec

\* Next to TCP streams too, only the handlers decide who is online: a stream that
\* says hello, and the end of the handler that knows the client's id.
THEOREM BothHandlersDecide == TcpSpec => HandlersDecideWhoIsOnline
<1>1. BothInv /\ [TcpNext]_tcpVars => [Decided]_vars
  <2> SUFFICES ASSUME BothInv, [TcpNext]_tcpVars
               PROVE  [Decided]_vars
    OBVIOUS
  <2>1. IInv /\ CoreOK /\ Streams \subseteq Conns
    BY StreamAssumption DEF BothInv, OwedInv, IInv
  <2>2. CASE [Next]_vars
    BY <2>1, <2>2, StepDecides
  <2>3. ASSUME NEW w \in Streams, Live(w), Leave(w)
        PROVE  Decided
    <3>1. w \in Conns /\ handler'[w] = "done"
      BY <2>1, <2>3 DEF Leave, IInv, QueueOK
    <3>2. CASE clientId[w] \in Ids
      BY <2>1, <2>3, <3>1, <3>2, EndDecides DEF Leave
    <3>3. CASE clientId[w] \notin Ids
      BY <2>3, <3>3, NobodyMoves DEF Leave, coreVars
    <3>4. QED
      BY <3>2, <3>3
  <2>4. ASSUME NEW w \in Streams, HelloFails(w) \/ HandlerEnds(w)
        PROVE  Decided
    BY <2>1, <2>4, QuietEffect, NobodyMoves
  <2>5. QED
    BY <2>2, <2>3, <2>4, TcpStepIsGatewayStep DEF StreamStep
<1>2. QED
  BY <1>1, InitBothInv, StepBothInv, PTL DEF TcpSpec, HandlersDecideWhoIsOnline, Decided

-----------------------------------------------------------------------------
(* Who serves an online client *)

\* An online client is served by a running handler, on a stream or a WebSocket,
\* as long as nobody says hello under a second client_id on one connection.
THEOREM BothServeOnline == OneIdEach /\ TcpSpec => []OnlineHasHandler
<1>1. OneIdEach /\ TcpInit => ServedInv
  BY InitIInv, GatewayAssumption
     DEF TcpInit, ServedInv, Init, OwnIdOnly, Live, OnlineHasHandler
<1>2. ServedInv /\ [TcpNext]_tcpVars => ServedInv'
  <2> SUFFICES ASSUME ServedInv, [TcpNext]_tcpVars
               PROVE  ServedInv'
    OBVIOUS
  <2>1. CASE [Next]_vars
    BY <2>1, StepServedInv
  <2>2. ASSUME NEW w \in Streams, Leave(w)
        PROVE  ServedInv'
    <3>1. w \in Conns /\ IInv
      BY StreamAssumption DEF ServedInv
    <3>2. /\ UNCHANGED <<clientId, taskVars>>
          /\ socket'[w] \in {socket[w], "closing", "closed"}
          /\ \A v \in Conns \ {w} : socket'[v] = socket[v]
          /\ \A v \in Conns : Live(v)' <=> Live(v) /\ v # w
          /\ DOMAIN writers' = DOMAIN writers \ {clientId[w]}
          /\ DOMAIN sessions' = DOMAIN sessions \ {clientId[w]}
          /\ \A d \in DOMAIN writers \ {clientId[w]} : writers'[d] = writers[d]
      BY <2>2, <3>1, LeaveEffect
    <3>3. OwnIdOnly'
      BY <3>1, <3>2 DEF ServedInv, OwnIdOnly, IdsOf
    <3>4. ASSUME NEW d \in DOMAIN sessions'
          PROVE  /\ d \in DOMAIN writers' /\ clientId'[writers'[d]] = d
                 /\ handler'[writers'[d]] \in {"loop", "reply"}
      BY <3>1, <3>2 DEF ServedInv, OnlineHasHandler, IInv, CoreOK, Live
    <3>5. OnlineHasHandler'
      BY <3>4 DEF OnlineHasHandler, Live
    <3>6. QED
      BY <2>2, <3>1, <3>3, <3>5, LeaveKeepsIInv DEF ServedInv, OneIdEach, IdsOf
  <2>3. ASSUME NEW w \in Streams, HelloFails(w) \/ HandlerEnds(w)
        PROVE  ServedInv'
    <3>1. IInv /\ OneIdEach /\ OwnIdOnly /\ OnlineHasHandler
      BY DEF ServedInv
    <3>2. /\ IInv' /\ OwnIdOnly' /\ UNCHANGED <<handler, sessions, writers>>
          /\ \A v \in Conns : \/ clientId'[v] = clientId[v]
                              \/ clientId'[v] = NoKey /\ NoKey \in HelloIds[v]
      BY <2>3, <3>1, QuietEffect
    <3>3. \A v \in Conns : NoKey \in HelloIds[v] => IdsOf(v) = {}
      BY <3>1, GatewayAssumption DEF OneIdEach, IdsOf, IdOf
    <3>4. \A c \in DOMAIN sessions :
             c \in Ids /\ c \in DOMAIN writers /\ writers[c] \in Conns
      BY <3>1 DEF IInv, CoreOK, IsSessionMap, TablesAgree
    <3>5. \A c \in DOMAIN sessions : clientId'[writers[c]] = c
      BY <3>1, <3>2, <3>3, <3>4 DEF OwnIdOnly, OnlineHasHandler
    <3>6. QED
      BY <3>1, <3>2, <3>4, <3>5 DEF ServedInv, OnlineHasHandler, Live
  <2>4. QED
    BY <2>1, <2>2, <2>3, TcpStepIsGatewayStep DEF StreamStep
<1>3. ServedInv => OnlineHasHandler
  BY DEF ServedInv
<1>4. QED
  BY <1>1, <1>2, <1>3, PTL DEF TcpSpec

\* A client that said hello stays reachable until its stream or its connection
\* ends, when no id is used by two of them at a time.
THEOREM BothTrackLive == ~Overlapping /\ TcpSpec => []LiveConnectionTracked
<1>1. ~Overlapping /\ TcpInit => TrackedInv
  BY InitIInv, GatewayAssumption
     DEF TcpInit, TrackedInv, Init, OwnIdOnly, Exclusive, Live, LiveConnectionTracked
<1>2. TrackedInv /\ [TcpNext]_tcpVars => TrackedInv'
  <2> SUFFICES ASSUME TrackedInv, [TcpNext]_tcpVars
               PROVE  TrackedInv'
    OBVIOUS
  <2>1. CASE [Next]_vars
    BY <2>1, StepTrackedInv
  <2>2. ASSUME NEW w \in Streams, Live(w), Leave(w)
        PROVE  TrackedInv'
    <3>1. w \in Conns /\ IInv
      BY StreamAssumption DEF TrackedInv
    <3>2. /\ UNCHANGED <<clientId, taskVars>>
          /\ socket'[w] \in {socket[w], "closing", "closed"}
          /\ \A v \in Conns \ {w} : socket'[v] = socket[v]
          /\ \A v \in Conns : Live(v)' <=> Live(v) /\ v # w
          /\ DOMAIN writers' = DOMAIN writers \ {clientId[w]}
          /\ DOMAIN sessions' = DOMAIN sessions \ {clientId[w]}
          /\ \A d \in DOMAIN writers \ {clientId[w]} : writers'[d] = writers[d]
      BY <2>2, <3>1, LeaveEffect
    <3>3. OwnIdOnly' /\ Exclusive'
      BY <3>1, <3>2 DEF TrackedInv, OwnIdOnly, Exclusive, IdsOf
    <3>4. ASSUME NEW v \in Conns \ {w}, Live(v), clientId[v] \in Ids
          PROVE  clientId[v] # clientId[w]
      BY <2>2, <3>1, <3>4 DEF TrackedInv, OwnIdOnly, Exclusive
    <3>5. LiveConnectionTracked'
      BY <3>2, <3>4 DEF TrackedInv, LiveConnectionTracked
    <3>6. QED
      BY <2>2, <3>1, <3>3, <3>5, LeaveKeepsIInv DEF TrackedInv
  <2>3. ASSUME NEW w \in Streams, HelloFails(w) \/ HandlerEnds(w)
        PROVE  TrackedInv'
    <3>1. IInv /\ OwnIdOnly /\ Exclusive /\ LiveConnectionTracked
      BY DEF TrackedInv
    <3>2. /\ IInv' /\ OwnIdOnly' /\ UNCHANGED <<handler, sessions, writers>>
          /\ \A v \in Conns : \/ clientId'[v] = clientId[v]
                              \/ clientId'[v] = NoKey /\ NoKey \in HelloIds[v]
      BY <2>3, <3>1, QuietEffect
    <3>3. Exclusive'
      BY <3>1, <3>2 DEF Exclusive, IdsOf, Live
    <3>4. LiveConnectionTracked'
      BY <3>1, <3>2, GatewayAssumption DEF LiveConnectionTracked, Live
    <3>5. QED
      BY <3>2, <3>3, <3>4 DEF TrackedInv
  <2>4. QED
    BY <2>1, <2>2, <2>3, TcpStepIsGatewayStep DEF StreamStep
<1>3. TrackedInv => LiveConnectionTracked
  BY DEF TrackedInv
<1>4. QED
  BY <1>1, <1>2, <1>3, PTL DEF TcpSpec
=============================================================================
