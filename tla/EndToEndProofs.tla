---------------------------- MODULE EndToEndProofs ----------------------------
(***************************************************************************)
(* A client in front of the gateway.  Each step of EndToEnd is a step of   *)
(* WsGateway or none of it, and, but for what the gateway writes, a step   *)
(* of WsClient or none of it: so what is proved of the gateway holds in    *)
(* front of this client, and what is proved of the client holds behind     *)
(* this gateway.  Of the two together: the application receives the orders *)
(* as the gateway wrote them, and the gateway counts no acknowledgement    *)
(* without a frame that it wrote.                                          *)
(***************************************************************************)
EXTENDS EndToEnd, SubsequencesProofs, WsGatewayProofs

-----------------------------------------------------------------------------
(* The client of the composition is the one of WsClient, of which            *)
(* WsClientProofs says more.                                                 *)

C == INSTANCE WsClientProofs
       WITH Downstream <- 1..MaxIssued, Asking <- 1..MaxIssued, Counts <- {},
            MaxSent <- Reply, MaxOdd <- 0, Texts <- UNION {Range(s) : s \in Scripts}

LEMMA ClientConstants ==
  /\ Reply \in Nat /\ 0 \in Nat /\ MaxTexts \in Nat
  /\ Configs \subseteq [timeout : BOOLEAN, has_id : BOOLEAN, ack_return : BOOLEAN,
                        ack_mod : BOOLEAN, ack_error : BOOLEAN]
  /\ 1..MaxIssued \subseteq C!Messages /\ 1..MaxIssued \subseteq 1..MaxIssued
  /\ {} \subseteq 1..C!NoLimit
BY GatewayAssumption, EndAssumption DEF Reply, C!Messages

LEMMA SameOnly ==
  /\ \A s, S : Client!Only(s, S) = Only(s, S) /\ C!Only(s, S) = Only(s, S)
  /\ \A s, x : Client!Contains(s, x) = C!Contains(s, x)
<1>1. \A s, S : Client!Only(s, S) = Only(s, S)
  BY DEF Client!Only, Client!Kept, Only, Kept
<1>2. \A s, S : C!Only(s, S) = Only(s, S)
  BY DEF C!Only, C!Kept, Only, Kept
<1>3. \A s, x : Client!Contains(s, x) = C!Contains(s, x)
  BY DEF Client!Contains, C!Contains
<1>4. QED
  BY <1>1, <1>2, <1>3

LEMMA SameTerms ==
  /\ \A n : Client!Data(n) = C!Data(n)
  /\ Client!Messages = C!Messages /\ Client!AckFrames = C!AckFrames
  /\ Client!Got = C!Got /\ Client!InHand = C!InHand /\ Client!OnTheWire = C!OnTheWire
  /\ Client!WasReset = C!WasReset
<1>1. \A n : Client!Data(n) = C!Data(n)
  BY DEF Client!Data, C!Data
<1>2. Client!Messages = C!Messages
  BY DEF Client!Messages, C!Messages
<1>3. Client!AckFrames = C!AckFrames
  BY <1>2 DEF Client!AckFrames, C!AckFrames, Client!AckFrame, C!AckFrame, Client!EmptyId, C!EmptyId
<1>4. Client!Got = C!Got /\ Client!InHand = C!InHand
  BY <1>2, SameOnly DEF Client!Got, C!Got, Client!InHand, C!InHand
<1>5. Client!OnTheWire = C!OnTheWire
  <2>1. Client!DataItems = C!DataItems
    BY <1>1, <1>2 DEF Client!DataItems, C!DataItems
  <2>2. QED
    BY <2>1, SameOnly DEF Client!OnTheWire, C!OnTheWire, Client!Numbers, C!Numbers
<1>6. Client!WasReset = C!WasReset
  BY SameOnly DEF Client!WasReset, C!WasReset
<1>7. QED
  BY <1>1, <1>2, <1>3, <1>4, <1>5, <1>6

LEMMA SameThread == Client!ReceiveThread => C!ReceiveThread
<1> USE DEF Client!connVars, C!connVars, Client!netVars, C!netVars, Client!queueVars,
            C!queueVars, Client!callVars, C!callVars, Client!Arrives, C!Arrives,
            Client!Sends, C!Sends, Client!Writes, C!Writes, Client!SendFails, C!SendFails,
            Client!Receiving, C!Receiving
<1>1. Client!LoopTest => C!LoopTest
  BY DEF Client!LoopTest, C!LoopTest
<1>2. Client!EnterRecv => C!EnterRecv
  BY DEF Client!EnterRecv, C!EnterRecv
<1>3. Client!RecvData => C!RecvData
  BY DEF Client!RecvData, C!RecvData, Client!AutoAcks, C!AutoAcks, Client!ShouldAutoAck,
     C!ShouldAutoAck, Client!Data, C!Data, Client!Messages, C!Messages
<1>4. Client!SendAck => C!SendAck
  BY DEF Client!SendAck, C!SendAck, Client!AckFrame, C!AckFrame, Client!AckId, C!AckId,
     Client!EmptyId, C!EmptyId
<1>5. Client!PutMessage => C!PutMessage
  BY DEF Client!PutMessage, C!PutMessage
<1>6. Client!RecvPing => C!RecvPing
  BY DEF Client!RecvPing, C!RecvPing
<1>7. Client!SendPong => C!SendPong
  BY DEF Client!SendPong, C!SendPong
<1>8. Client!RecvClose => C!RecvClose
  BY DEF Client!RecvClose, C!RecvClose
<1>9. Client!RecvGarbled => C!RecvGarbled
  BY DEF Client!RecvGarbled, C!RecvGarbled, Client!ErrorText, C!ErrorText
<1>10. Client!RecvEnd => C!RecvEnd
  BY DEF Client!RecvEnd, C!RecvEnd
<1>11. Client!RecvFails => C!RecvFails
  BY DEF Client!RecvFails, C!RecvFails
<1>12. QED
  BY <1>1, <1>2, <1>3, <1>4, <1>5, <1>6, <1>7, <1>8, <1>9, <1>10, <1>11
     DEF Client!ReceiveThread, C!ReceiveThread

LEMMA SameApplication ==
  ASSUME script \in Scripts, texts \in Nat
  PROVE  SendNext \/ Client!CloseNothing \/ Client!CloseConnection \/ Client!Closing
           => C!Application
<1> USE DEF Client!connVars, C!connVars, Client!netVars, C!netVars, Client!queueVars,
            C!queueVars, Client!callVars, C!callVars, Client!Arrives, C!Arrives,
            Client!Sends, C!Sends, Client!Writes, C!Writes, Client!SendFails, C!SendFails,
            Client!Receiving, C!Receiving
<1>1. SendNext => \E x \in UNION {Range(s) : s \in Scripts} : C!SendText(x)
  <2>1. SUFFICES ASSUME SendNext
                 PROVE  \E x \in UNION {Range(s) : s \in Scripts} : C!SendText(x)
    OBVIOUS
  <2> DEFINE x == script[texts + 1]
  <2>2. x \in Range(script)
    <3>1. script \in Seq(Range(script)) /\ texts < Len(script)
      BY <2>1, EndAssumption DEF SendNext
    <3>2. texts + 1 \in DOMAIN script
      BY <3>1
    <3>3. QED
      BY <3>2 DEF Range
  <2>3. C!SendText(x)
    BY <2>1 DEF SendNext, Client!SendText, C!SendText, Client!TextFrame, C!TextFrame
  <2>4. QED
    BY <2>2, <2>3
<1>2. Client!CloseNothing => C!CloseNothing
  BY DEF Client!CloseNothing, C!CloseNothing
<1>3. Client!CloseConnection => C!CloseConnection
  BY DEF Client!CloseConnection, C!CloseConnection
<1>4. Client!EnterDrain => C!EnterDrain
  BY DEF Client!EnterDrain, C!EnterDrain
<1>5. Client!DrainFrame => C!DrainFrame
  BY DEF Client!DrainFrame, C!DrainFrame, Client!DataItems, C!DataItems, Client!Data, C!Data,
     Client!Messages, C!Messages
<1>6. Client!DrainEnds => C!DrainEnds
  BY DEF Client!DrainEnds, C!DrainEnds, Client!Ends, C!Ends
<1>7. QED
  BY <1>1, <1>2, <1>3, <1>4, <1>5, <1>6 DEF Client!Closing, C!Closing, C!Application

\* A step of the composition in which the gateway writes nothing to the client is
\* one of the client's own module, or none of it at all.
LEMMA SameStep ==
  ASSUME script \in Scripts, texts \in Nat, ClientNext \/ HandshakeEnds \/ LinkBreaks \/ GatewayFails
  PROVE  C!Next
<1>1. CASE ClientNext
  BY <1>1, SameThread, SameApplication DEF ClientNext, ClientStep, C!Next
<1>2. Client!GatewayEnds => C!GatewayEnds
  BY SameOnly DEF Client!GatewayEnds, C!GatewayEnds, Client!connVars, C!connVars, Client!queueVars,
     C!queueVars, Client!callVars, C!callVars
<1>3. Client!ConnectionLost => C!ConnectionLost
  BY DEF Client!ConnectionLost, C!ConnectionLost, Client!connVars, C!connVars,
     Client!queueVars, C!queueVars, Client!callVars, C!callVars
<1>4. Client!GatewayCloses => C!GatewayCloses
  BY DEF Client!GatewayCloses, C!GatewayCloses, Client!connVars, C!connVars,
     Client!queueVars, C!queueVars, Client!callVars, C!callVars
<1>5. QED
  BY <1>1, <1>2, <1>3, <1>4 DEF HandshakeEnds, LinkBreaks, GatewayFails, C!Next, C!Gateway

-----------------------------------------------------------------------------
(* Each step of the composition is one of the gateway, or none of it *)

\* The types of both ends, and what is between them.
EndTyped == /\ IInv /\ C!TypeInv
            /\ script \in Scripts
            /\ taken \in 0..Len(up)

\* Of the frames that a client writes, those with a text carry one of the script.
LEMMA TextIsScripted ==
  ASSUME EndTyped, taken < Len(up), up[taken + 1][1] = "text"
  PROVE  \E v \in UNION {Range(s) : s \in Scripts} : up[taken + 1] = <<"text", v>>
<1> DEFINE f == up[taken + 1]
<1>1. f \in C!Frames
  BY DEF EndTyped, C!TypeInv, C!TypeOK
<1>2. f \notin {<<"pong">>, <<"close">>} \cup C!AckFrames
  BY DEF C!AckFrames, C!AckFrame
<1>3. PICK x \in UNION {Range(s) : s \in Scripts} : f = C!TextFrame(x)
  BY <1>1, <1>2 DEF C!Frames
<1>4. f = <<"text", x>>
  BY <1>3 DEF C!TextFrame
<1>5. QED
  BY <1>4

\* The ACK of a client is an ACK that names it, after its way through JSON.
LEMMA AckNamesSelf ==
  ASSUME NEW message
  PROVE  LET v == ToJson(AckMessage(Self, message, Now))
         IN /\ Parses(v, Now)
            /\ FromJson(v, Now)["type"] = "ack" /\ FromJson(v, Now)["client_id"] = Self
<1> DEFINE m == AckMessage(Self, message, Now)
<1>1. /\ m = [f \in Fields |-> m[f]]
      /\ m["type"] = "ack" /\ m["client_id"] = Self
      /\ m["need_ack"] = FALSE /\ m["timestamp"] = Now
  BY DEF AckMessage, Fields
<1> HIDE DEF m
<1>2. IsMessage(m)
  <2>1. m["type"] # None
    BY <1>1, ConversionAssumption DEF Types
  <2>2. m["need_ack"] \in BOOLEAN
    BY <1>1
  <2>3. m["timestamp"] \in DOMAIN Float /\ Float[m["timestamp"]] = m["timestamp"]
    BY <1>1, EndAssumption
  <2>4. QED
    BY <1>1, <2>1, <2>2, <2>3 DEF IsMessage
<1>3. Parses(ToJson(m), Now) /\ FromJson(ToJson(m), Now) = m
  BY <1>2, RoundTrip
<1>4. QED
  BY <1>1, <1>3 DEF m

\* What ScriptAssumption says of a text.
Scripted(v) ==
  LET msg == FromJson(v, Now) IN
  /\ msg["client_id"] \in Ids \cup {None, NoKey}
  /\ msg["type"] = "hello" => msg["client_id"] \in HelloIds[Me]

LEMMA TextIsHandlerStep ==
  ASSUME NEW v, Parses(v, Now) => Scripted(v), HandleText(v)
  PROVE  HandlerStep(Me) \/ UNCHANGED vars
<1> DEFINE msg == FromJson(v, Now)
           type == msg["type"]
           id == msg["client_id"]
<1>1. CASE ~Parses(v, Now)
  BY <1>1 DEF HandleText
<1>2. CASE Parses(v, Now)
  <2>1. type = "hello" => id \in HelloIds[Me]
    BY <1>2 DEF Scripted
  <2>2. \/ type = "hello" /\ id # NoKey /\ Hello(Me, id)
        \/ HelloRaises(Me)
        \/ id \in Ids /\ Ack(Me, id)
        \/ Upstream(msg)
        \/ FrameRaises(Me) \/ Finish(Me)
        \/ UNCHANGED vars
    BY <1>2 DEF HandleText
  <2> HIDE DEF msg, type, id
  <2>3. CASE type = "hello" /\ id # NoKey /\ Hello(Me, id)
    BY <2>1, <2>3 DEF HandlerStep
  <2>4. CASE Upstream(msg)
    BY <2>4 DEF Upstream, HandlerStep
  <2>5. QED
    BY <2>2, <2>3, <2>4 DEF HandlerStep
<1>3. QED
  BY <1>1, <1>2

LEMMA TakeFrameIsHandlerStep ==
  ASSUME EndTyped, TakeFrame
  PROVE  HandlerStep(Me) \/ UNCHANGED vars
<1> DEFINE f == up[taken + 1]
<1>1. taken < Len(up) /\ f[1] \in {"text", "ack"} /\ HandleText(TextOf(f))
  BY DEF TakeFrame, Handle
<1>2. Parses(TextOf(f), Now) => Scripted(TextOf(f))
  <2>1. CASE f[1] = "ack"
    <3>1. TextOf(f) = ToJson(AckMessage(Self, f[2], Now))
      BY <2>1 DEF TextOf
    <3>2. QED
      BY <3>1, AckNamesSelf, EndAssumption DEF Scripted
  <2>2. CASE f[1] = "text"
    <3>1. PICK v \in UNION {Range(s) : s \in Scripts} : f = <<"text", v>>
      BY <1>1, <2>2, TextIsScripted
    <3>2. TextOf(f) = v
      BY <3>1 DEF TextOf
    <3>3. QED
      BY <3>2, ScriptAssumption DEF Scripted
  <2>3. QED
    BY <1>1, <2>1, <2>2
<1>3. QED
  BY <1>1, <1>2, TextIsHandlerStep

LEMMA StepIsGatewayStep ==
  ASSUME EndTyped, [EndNext]_endVars
  PROVE  [Next]_vars
<1>0. Me \in Conns
  BY EndAssumption
<1>1. CASE UNCHANGED endVars
  BY <1>1 DEF endVars
<1>2. CASE Connected
  BY <1>0, <1>2 DEF Connected, Next
<1>3. CASE ClientNext
  BY <1>3 DEF ClientNext, ClientStep
<1>4. CASE HandshakeEnds \/ LinkBreaks \/ GatewayFails
  BY <1>0, <1>4 DEF HandshakeEnds, LinkBreaks, GatewayFails, Over, Next
<1>5. CASE TakeFrame
  BY <1>0, <1>5, TakeFrameIsHandlerStep DEF Next
<1>6. CASE GatewayNext
  <2>1. RunTask \/ HandlerStep(Me) \/ \E s \in Sends : SendReturns(s) \/ SendRaises(s)
    BY <1>6 DEF GatewayNext, GatewayStep, HandlerStep
  <2>2. QED
    BY <1>0, <2>1 DEF Next
<1>7. QED
  BY <1>1, <1>2, <1>3, <1>4, <1>5, <1>6 DEF EndNext

\* What the gateway's tasks write to the client: at most one frame at a time.
LEMMA TaskWrites ==
  ASSUME EndTyped, RunTask
  PROVE  out'[Me] = out[Me] \/ \E f : out'[Me] = Append(out[Me], f)
<1>1. out \in [Conns -> Seq(Frames)] /\ Me \in Conns
  BY EndAssumption DEF EndTyped, IInv, QueueOK
<1>2. UNCHANGED out \/ \E w, f : out' = [out EXCEPT ![w] = Append(@, f)]
  <2>1. ASSUME NEW n, NEW from, NEW kind, NEW to, Transmit(n, from, kind, to)
        PROVE  UNCHANGED out \/ \E w, f : out' = [out EXCEPT ![w] = Append(@, f)]
    BY <2>1 DEF Transmit
  <2>2. CASE RunPush
    BY <2>1, <2>2 DEF RunPush
  <2>3. CASE RunAll \/ RunGroup
    BY <2>3 DEF RunAll, RunGroup, Gather
  <2>4. CASE RunGather
    BY <2>1, <2>4 DEF RunGather
  <2>5. QED
    BY <2>2, <2>3, <2>4 DEF RunTask
<1>3. QED
  BY <1>1, <1>2

\* The handler writes no order itself.
LEMMA HandleWritesNothing ==
  ASSUME NEW f, Handle(f)
  PROVE  UNCHANGED out
<1> DEFINE v == TextOf(f)
           msg == FromJson(v, Now)
<1>1. HandleText(v)
  BY DEF Handle
<1> HIDE DEF v
<1>2. \/ (\E c : Hello(Me, c) \/ Ack(Me, c)) \/ HelloRaises(Me)
      \/ FrameRaises(Me) \/ Finish(Me) \/ UNCHANGED vars
      \/ Upstream(msg)
  BY <1>1 DEF HandleText
<1> HIDE DEF msg
<1>3. CASE Upstream(msg)
  BY <1>3 DEF Upstream, Push, GroupPush, Broadcast, QueryOnline, CreateTask, vars, taskVars
<1>4. QED
  BY <1>2, <1>3 DEF Hello, Ack, HelloRaises, FrameRaises, Finish, Ends, vars, taskVars

\* A step of the gateway writes one frame, which goes on the wire, or none.
LEMMA GatewayWrites ==
  ASSUME EndTyped, IInv', GatewayNext
  PROVE  /\ UNCHANGED <<insideVars, up, taken, peer>>
         /\ \/ out'[Me] = out[Me] /\ wire' = wire
            \/ \E f \in Frames : /\ out'[Me] = Append(out[Me], f)
                                 /\ wire' = Append(wire, Client!Data(f.n))
<1> DEFINE new == SubSeq(out'[Me], Len(out[Me]) + 1, Len(out'[Me]))
           t == [i \in 1..Len(new) |-> Client!Data(new[i].n)]
<1>1. /\ out[Me] \in Seq(Frames) /\ out'[Me] \in Seq(Frames)
      /\ \E T : wire \in Seq(T)
  BY EndAssumption DEF EndTyped, IInv, QueueOK, C!TypeInv, C!TypeOK
<1>2. UNCHANGED <<insideVars, up, taken, peer>> /\ wire' = wire \o t
  BY DEF GatewayNext, GatewayStep
<1>3. out'[Me] = out[Me] \/ \E f : out'[Me] = Append(out[Me], f)
  <2>1. RunTask \/ UNCHANGED out
    BY DEF GatewayNext, GatewayStep, ReplySent, SendReturns, SendRaises, Finish, Ends, taskVars
  <2>2. QED
    BY <2>1, TaskWrites
<1>4. CASE out'[Me] = out[Me]
  <2>1. Len(new) = 0
    BY <1>1, <1>4
  <2> HIDE DEF new
  <2>2. [i \in 1..0 |-> Client!Data(new[i].n)] = <<>>
    OBVIOUS
  <2>3. t = <<>>
    BY <2>1, <2>2
  <2> HIDE DEF t
  <2>4. wire' = wire
    BY <1>1, <1>2, <2>3
  <2>5. QED
    BY <1>2, <1>4, <2>4
<1>5. CASE \E f : out'[Me] = Append(out[Me], f)
  <2>1. PICK f : out'[Me] = Append(out[Me], f)
    BY <1>5
  <2>2. f \in Frames
    <3>1. Len(out'[Me]) = Len(out[Me]) + 1 /\ out'[Me][Len(out[Me]) + 1] = f
      BY <1>1, <2>1
    <3>2. QED
      BY <1>1, <3>1
  <2>3. Len(new) = 1 /\ new[1] = f
    BY <1>1, <2>1, <2>2
  <2> HIDE DEF new
  <2>4. [i \in 1..1 |-> Client!Data(new[i].n)] = <<Client!Data(new[1].n)>>
    OBVIOUS
  <2>5. t = <<Client!Data(f.n)>>
    BY <2>3, <2>4
  <2> HIDE DEF t
  <2>6. wire' = Append(wire, Client!Data(f.n))
    BY <1>1, <1>2, <2>5
  <2>7. QED
    BY <1>2, <2>1, <2>2, <2>6
<1>6. QED
  BY <1>3, <1>4, <1>5

LEMMA InitEndTyped == EndInit => EndTyped
<1> SUFFICES ASSUME EndInit PROVE EndTyped
  OBVIOUS
<1>1. IInv
  BY InitIInv DEF EndInit
<1>2. C!TypeInv
  <2>1. C!Init
    BY DEF EndInit, Client!Init, C!Init
  <2>2. QED
    BY <2>1, ClientConstants, C!TypeInvInit
<1>3. script \in Scripts /\ taken = 0 /\ up = <<>>
  BY DEF EndInit, Client!Init
<1>4. QED
  BY <1>1, <1>2, <1>3 DEF EndTyped

LEMMA StepEndTyped ==
  ASSUME EndTyped, [EndNext]_endVars
  PROVE  EndTyped'
<1>1. IInv'
  BY StepIsGatewayStep, StepIInv DEF EndTyped
<1>2. /\ C!TypeInv /\ script \in Scripts /\ texts \in Nat
      /\ up \in Seq(C!Frames) /\ wire \in Seq(C!WireItems)
      /\ taken \in 0..Len(up)
  BY DEF EndTyped, C!TypeInv, C!TypeOK
<1>3. script' = script
  BY DEF EndNext, endVars, insideVars, Connected, ClientNext, ClientStep, HandshakeEnds, LinkBreaks,
     GatewayFails, Over, TakeFrame, GatewayNext, GatewayStep
<1>4. ASSUME UNCHANGED <<insideVars, up, peer>>, wire' \in Seq(C!WireItems)
      PROVE  C!TypeInv'
  BY <1>2, <1>4 DEF insideVars, C!TypeInv, C!TypeOK
<1>5. \A n \in 1..Reply : Client!Data(n) \in C!WireItems
  BY DEF Client!Data, C!WireItems, C!DataItems, C!Data, C!Messages
<1>6. CASE Connected \/ UNCHANGED endVars
  <2>1. UNCHANGED <<insideVars, up, taken, wire, peer>>
    BY <1>6 DEF Connected, endVars, linkVars
  <2>2. QED
    BY <1>1, <1>2, <1>3, <1>4, <2>1 DEF EndTyped
<1>7. CASE ClientNext \/ HandshakeEnds \/ LinkBreaks \/ GatewayFails
  <2>1. C!TypeInv'
    BY <1>2, <1>7, SameStep, ClientConstants, C!TypeInvStep
  <2>2. taken' = taken
    BY <1>7 DEF ClientNext, ClientStep, HandshakeEnds, LinkBreaks, GatewayFails, Over
  <2>3. Len(up) <= Len(up') /\ Len(up') \in Nat
    <3>1. UNCHANGED up \/ \E f : up' = Append(up, f)
      <4>1. C!Next
        BY <1>2, <1>7, SameStep
      <4>2. QED
        BY <4>1 DEF C!Next, C!ReceiveThread, C!LoopTest, C!EnterRecv, C!RecvData, C!SendAck,
           C!PutMessage, C!RecvPing, C!SendPong, C!RecvClose, C!RecvGarbled, C!RecvEnd,
           C!RecvFails, C!Application, C!SendText, C!StartReceive, C!GetMessage, C!GetOpcode,
           C!GiveUp, C!CloseNothing, C!CloseConnection, C!Closing, C!EnterDrain, C!DrainFrame,
           C!DrainEnds, C!Gateway, C!GatewaySends, C!GatewayPings, C!GatewayGarbles,
           C!GatewayCloses, C!GatewayEnds, C!ConnectionLost, C!Sends, C!Writes, C!SendFails
    <3>2. QED
      BY <1>2, <3>1
  <2>4. QED
    BY <1>1, <1>2, <1>3, <2>1, <2>2, <2>3 DEF EndTyped
<1>8. CASE TakeFrame
  <2>1. /\ UNCHANGED <<insideVars, up, peer>> /\ taken' = taken + 1 /\ taken < Len(up)
        /\ wire' = wire \/ wire' = Append(wire, Client!Data(Reply))
    BY <1>8 DEF TakeFrame
  <2>2. Client!Data(Reply) \in C!WireItems
    BY <1>5, ClientConstants, GatewayAssumption DEF Reply
  <2>3. wire' \in Seq(C!WireItems)
    BY <1>2, <2>1, <2>2
  <2>4. QED
    BY <1>1, <1>2, <1>3, <1>4, <2>1, <2>3 DEF EndTyped
<1>9. CASE GatewayNext
  <2>1. /\ UNCHANGED <<insideVars, up, taken, peer>>
        /\ wire' = wire \/ \E f \in Frames : wire' = Append(wire, Client!Data(f.n))
    BY <1>1, <1>9, GatewayWrites
  <2>2. \A f \in Frames : Client!Data(f.n) \in C!WireItems
    BY <1>5, GatewayAssumption DEF Frames, Reply
  <2>3. wire' \in Seq(C!WireItems)
    BY <1>2, <2>1, <2>2
  <2>4. QED
    BY <1>1, <1>2, <1>3, <1>4, <2>1, <2>3 DEF EndTyped
<1>10. QED
  BY <1>6, <1>7, <1>8, <1>9 DEF EndNext

\* In front of a client that really reads, the gateway behaves as it does alone, and
\* the client that it serves as a client with any gateway, as far as their types go.
THEOREM EndImplementsGateway == EndSpec => Spec
<1>1. EndInit => Init /\ EndTyped
  BY InitEndTyped DEF EndInit
<1>2. EndTyped /\ [EndNext]_endVars => EndTyped' /\ [Next]_vars
  BY StepEndTyped, StepIsGatewayStep
<1>3. QED
  BY <1>1, <1>2, PTL DEF EndSpec, Spec

\* Whatever the client does, and wherever its connection ends, what WsGatewayProofs
\* says of the gateway holds.
THEOREM EndKeepsGateway ==
  EndSpec => /\ [](TablesAgree /\ OwedIsPending)
             /\ [](DeliveredOnce /\ SameKindInOrder /\ SentWasWritten)
             /\ HandlersDecideWhoIsOnline
BY EndImplementsGateway, GatewayTablesAgree, OnlyHandlersDecide, NobodyIsForgotten,
   NoDuplicates, OrderedByKind, CountedWasWritten, PTL

-----------------------------------------------------------------------------
(* What the application receives *)

OrderNumbers(frames) == [i \in 1..Len(frames) |-> frames[i].n]

ReceivedInv ==
  /\ EndTyped
  /\ C!NoneMissing => Only(C!Stream, 1..MaxIssued) = OrderNumbers(out[Me])

LEMMA OrderNumbersFacts ==
  /\ OrderNumbers(<<>>) = <<>>
  /\ \A q \in Seq(Frames), f \in Frames :
       OrderNumbers(Append(q, f)) = Append(OrderNumbers(q), f.n)
<1>1. OrderNumbers(<<>>) = <<>>
  <2>1. [i \in 1..0 |-> <<>>[i].n] = <<>>
    OBVIOUS
  <2>2. Len(<<>>) = 0
    OBVIOUS
  <2>3. QED
    BY <2>1, <2>2 DEF OrderNumbers
<1>2. ASSUME NEW q \in Seq(Frames), NEW f \in Frames
      PROVE  OrderNumbers(Append(q, f)) = Append(OrderNumbers(q), f.n)
  <2> DEFINE T == {q[i].n : i \in 1..Len(q)} \cup {f.n}
             new == Append(q, f)
             a == OrderNumbers(new)
             b == OrderNumbers(q)
  <2>1. /\ Len(q) \in Nat /\ Len(new) = Len(q) + 1
        /\ new[Len(q) + 1] = f /\ \A i \in 1..Len(q) : new[i] = q[i]
    OBVIOUS
  <2> HIDE DEF new
  <2>2. a = [i \in 1..(Len(q) + 1) |-> new[i].n] /\ b = [i \in 1..Len(q) |-> q[i].n]
    BY <2>1 DEF OrderNumbers
  <2> HIDE DEF a, b
  <2>3. b \in Seq(T) /\ Len(b) = Len(q)
    BY <2>1, <2>2
  <2> HIDE DEF T
  <2>4. /\ Append(b, f.n) = [i \in 1..(Len(b) + 1) |-> IF i \in 1..Len(b) THEN b[i] ELSE f.n]
    BY <2>3
  <2>5. \A i \in 1..(Len(q) + 1) : new[i].n = IF i \in 1..Len(b) THEN b[i] ELSE f.n
    BY <2>1, <2>2, <2>3
  <2>6. a = Append(b, f.n)
    BY <2>2, <2>3, <2>4, <2>5
  <2>7. QED
    BY <2>6 DEF a, b, new
<1>3. QED
  BY <1>1, <1>2

\* A message more on the wire is one more in the stream of the client.
LEMMA StreamGrows ==
  ASSUME EndTyped, UNCHANGED insideVars, NEW n \in 1..Reply, wire' = Append(wire, Client!Data(n))
  PROVE  /\ C!Stream \in Seq(C!Messages) /\ C!Stream' = Append(C!Stream, n)
         /\ C!NoneMissing' => C!NoneMissing
<1>1. /\ C!Got \in Seq(C!Messages) /\ C!InHand \in Seq(C!Messages)
      /\ C!OnTheWire \in Seq(C!Messages) /\ wire \in Seq(C!WireItems)
      /\ C!OnTheWire = C!OnWire(wire)
  BY ClientConstants, C!StreamParts DEF EndTyped
<1>2. n \in C!Messages /\ wire' = Append(wire, C!Data(n))
  BY SameTerms DEF C!Messages
<1>3. C!OnWire(wire') = Append(C!OnTheWire, n)
  BY <1>1, <1>2, ClientConstants, C!OnWireEnds
<1>4. C!Got' = C!Got /\ C!InHand' = C!InHand /\ C!OnTheWire' = C!OnWire(wire')
  BY DEF insideVars, C!Got, C!InHand, C!OnTheWire, C!OnWire
<1>5. C!Stream' = C!Got \o C!InHand \o Append(C!OnTheWire, n)
  BY <1>3, <1>4 DEF C!Stream
<1>6. C!Stream \in Seq(C!Messages) /\ C!Stream' = Append(C!Stream, n)
  <2> DEFINE a == C!Got
             b == C!InHand
             c == C!OnTheWire
  <2>1. /\ a \in Seq(C!Messages) /\ b \in Seq(C!Messages) /\ c \in Seq(C!Messages)
        /\ C!Stream = a \o b \o c /\ C!Stream' = a \o b \o Append(c, n)
    BY <1>1, <1>5 DEF C!Stream
  <2> HIDE DEF a, b, c
  <2>2. a \o b \o c \in Seq(C!Messages)
    BY <2>1
  <2>3. a \o b \o Append(c, n) = Append(a \o b \o c, n)
    BY <1>2, <2>1, SMTT(60)
  <2>4. QED
    BY <2>1, <2>2, <2>3
<1>7. C!NoneMissing' => C!NoneMissing
  <2>1. C!WasReset => C!WasReset'
    BY <1>1, <1>2 DEF C!WasReset, C!Contains
  <2>2. QED
    BY <2>1 DEF C!NoneMissing, insideVars
<1>8. QED
  BY <1>6, <1>7

\* Keeping the members of S keeps one that is appended.
LEMMA OnlyKeeps ==
  ASSUME NEW T, NEW s \in Seq(T), NEW x \in T, NEW S, x \in S
  PROVE  Only(Append(s, x), S) = Append(Only(s, S), x)
<1>1. Only(Append(s, x), S) = IF x \in S THEN Append(Only(s, S), x) ELSE Only(s, S)
  BY OnlyAppend
<1>2. QED
  BY <1>1

LEMMA InitReceivedInv == EndInit => ReceivedInv
<1> SUFFICES ASSUME EndInit PROVE ReceivedInv
  OBVIOUS
<1>1. EndTyped
  BY InitEndTyped
<1>2. /\ messages = <<>> /\ results = <<>> /\ returned = <<>> /\ hand = 0 /\ wire = <<>>
      /\ out[Me] = <<>>
  BY EndAssumption DEF EndInit, Init, Client!Init
<1>3. C!Got = <<>> /\ C!InHand = <<>>
  <2>1. <<>> \o <<>> \o <<>> = <<>>
    OBVIOUS
  <2>2. \A S : C!Only(<<>>, S) = <<>>
    BY SameOnly, OnlyEmpty
  <2>3. QED
    BY <1>2, <2>1, <2>2 DEF C!Got, C!InHand
<1>4. C!OnTheWire = <<>>
  <2>1. C!Only(wire, C!DataItems) = <<>>
    BY <1>2, SameOnly, OnlyEmpty
  <2>2. C!Numbers(<<>>) = <<>>
    <3>1. [i \in 1..0 |-> <<>>[i][2]] = <<>>
      OBVIOUS
    <3>2. Len(<<>>) = 0
      OBVIOUS
    <3>3. QED
      BY <3>1, <3>2 DEF C!Numbers
  <2>3. QED
    BY <2>1, <2>2 DEF C!OnTheWire
<1>5. Only(C!Stream, 1..MaxIssued) = <<>>
  <2>1. <<>> \o <<>> \o <<>> = <<>>
    OBVIOUS
  <2>2. C!Stream = <<>>
    BY <1>3, <1>4, <2>1 DEF C!Stream
  <2>3. QED
    BY <2>2, OnlyEmpty
<1>6. QED
  BY <1>1, <1>2, <1>5, OrderNumbersFacts DEF ReceivedInv

LEMMA StepReceivedInv ==
  ASSUME ReceivedInv, [EndNext]_endVars
  PROVE  ReceivedInv'
<1>1. /\ EndTyped /\ EndTyped' /\ IInv'
      /\ C!TypeInv /\ script \in Scripts /\ texts \in Nat /\ sent \in Nat
      /\ out[Me] \in Seq(Frames)
      /\ C!NoneMissing => Only(C!Stream, 1..MaxIssued) = OrderNumbers(out[Me])
  <2>1. /\ EndTyped /\ EndTyped'
        /\ C!NoneMissing => Only(C!Stream, 1..MaxIssued) = OrderNumbers(out[Me])
    BY StepEndTyped DEF ReceivedInv
  <2>2. IInv' /\ C!TypeInv /\ script \in Scripts /\ texts \in Nat /\ sent \in Nat
    BY <2>1 DEF EndTyped, C!TypeInv, C!TypeOK
  <2>3. out[Me] \in Seq(Frames)
    BY <2>1, EndAssumption DEF EndTyped, IInv, QueueOK
  <2>4. QED
    BY <2>1, <2>2, <2>3
<1> SUFFICES ASSUME C!NoneMissing'
             PROVE  Only(C!Stream', 1..MaxIssued) = OrderNumbers(out'[Me])
  BY <1>1 DEF ReceivedInv
<1>2. CASE Connected \/ UNCHANGED endVars
  <2>1. UNCHANGED <<insideVars, wire>> /\ out' = out
    BY <1>2 DEF Connected, Connect, endVars, linkVars, vars, taskVars
  <2>2. C!Stream' = C!Stream /\ C!NoneMissing
    BY <2>1 DEF insideVars, C!Stream, C!Got, C!InHand, C!OnTheWire, C!NoneMissing, C!WasReset
  <2>3. QED
    BY <1>1, <2>1, <2>2
<1>3. CASE ClientNext \/ HandshakeEnds \/ LinkBreaks \/ GatewayFails
  <2>1. out' = out
    BY <1>3 DEF ClientNext, ClientStep, HandshakeEnds, LinkBreaks, GatewayFails, Over,
       ConnectionCloses, vars, taskVars
  <2>2. C!Next
    BY <1>1, <1>3, SameStep
  <2>3. sent' = sent
    <3>1. C!ReceiveThread \/ C!Application => sent' = sent
      BY ClientConstants, C!ClientOnlyReads
    <3>2. CASE ClientNext
      BY <1>1, <3>1, <3>2, SameThread, SameApplication DEF ClientNext, ClientStep
    <3>3. CASE HandshakeEnds \/ LinkBreaks \/ GatewayFails
      BY <3>3 DEF HandshakeEnds, LinkBreaks, GatewayFails, Client!GatewayEnds,
         Client!ConnectionLost, Client!GatewayCloses
    <3>4. QED
      BY <1>3, <3>2, <3>3
  <2>4. C!NoneMissing
    BY <1>1, <2>2, ClientConstants, C!NoneMissingBefore
  <2>5. C!Stream' = C!Stream
    <3>1. \/ C!Stream' = C!Stream
          \/ sent' = sent + 1
          \/ ~C!NoneMissing'
      BY <1>1, <2>2, ClientConstants, C!StreamStep
    <3>2. QED
      BY <1>1, <2>3, <3>1
  <2>6. QED
    BY <1>1, <2>1, <2>4, <2>5
<1>4. CASE TakeFrame
  <2>1. /\ UNCHANGED insideVars
        /\ wire' = wire \/ wire' = Append(wire, Client!Data(Reply))
        /\ out' = out
    <3>1. out' = out
      BY <1>4, HandleWritesNothing DEF TakeFrame
    <3>2. QED
      BY <1>4, <3>1 DEF TakeFrame
  <2>2. CASE wire' = wire
    <3>1. C!Stream' = C!Stream /\ C!NoneMissing
      BY <2>1, <2>2
         DEF insideVars, C!Stream, C!Got, C!InHand, C!OnTheWire, C!NoneMissing, C!WasReset
    <3>2. QED
      BY <1>1, <2>1, <3>1
  <2>3. CASE wire' = Append(wire, Client!Data(Reply))
    <3>1. Reply \in 1..Reply /\ Reply \notin 1..MaxIssued /\ Reply \in C!Messages
      BY GatewayAssumption DEF Reply, C!Messages
    <3>2. C!Stream \in Seq(C!Messages) /\ C!Stream' = Append(C!Stream, Reply) /\ C!NoneMissing
      BY <1>1, <2>1, <2>3, <3>1, StreamGrows
    <3>3. Only(C!Stream', 1..MaxIssued) = Only(C!Stream, 1..MaxIssued)
      BY <3>1, <3>2, OnlyAppend
    <3>4. QED
      BY <1>1, <2>1, <3>2, <3>3
  <2>4. QED
    BY <2>1, <2>2, <2>3
<1>5. CASE GatewayNext
  <2>1. /\ UNCHANGED insideVars
        /\ \/ out'[Me] = out[Me] /\ wire' = wire
           \/ \E f \in Frames : /\ out'[Me] = Append(out[Me], f)
                                /\ wire' = Append(wire, Client!Data(f.n))
    BY <1>1, <1>5, GatewayWrites
  <2>2. CASE out'[Me] = out[Me] /\ wire' = wire
    <3>1. C!Stream' = C!Stream /\ C!NoneMissing
      BY <2>1, <2>2
         DEF insideVars, C!Stream, C!Got, C!InHand, C!OnTheWire, C!NoneMissing, C!WasReset
    <3>2. QED
      BY <1>1, <2>2, <3>1
  <2>3. ASSUME NEW f \in Frames, out'[Me] = Append(out[Me], f),
               wire' = Append(wire, Client!Data(f.n))
        PROVE  Only(C!Stream', 1..MaxIssued) = OrderNumbers(out'[Me])
    <3>1. f.n \in 1..MaxIssued /\ f.n \in 1..Reply /\ f.n \in C!Messages
      BY GatewayAssumption DEF Frames, Reply, C!Messages
    <3>2. C!Stream \in Seq(C!Messages) /\ C!Stream' = Append(C!Stream, f.n) /\ C!NoneMissing
      BY <1>1, <2>1, <2>3, <3>1, StreamGrows
    <3>3. Only(C!Stream', 1..MaxIssued) = Append(Only(C!Stream, 1..MaxIssued), f.n)
      <4> DEFINE q == C!Stream
                 x == f.n
      <4>1. /\ q \in Seq(C!Messages) /\ C!Stream' = Append(q, x)
            /\ x \in C!Messages /\ x \in 1..MaxIssued
        BY <3>1, <3>2
      <4> HIDE DEF q, x
      <4>2. Only(Append(q, x), 1..MaxIssued) = Append(Only(q, 1..MaxIssued), x)
        BY <4>1, OnlyKeeps
      <4>3. QED
        BY <4>1, <4>2 DEF q, x
    <3>4. OrderNumbers(out'[Me]) = Append(OrderNumbers(out[Me]), f.n)
      BY <1>1, <2>3, OrderNumbersFacts
    <3>5. QED
      BY <1>1, <3>2, <3>3, <3>4
  <2>4. QED
    BY <2>1, <2>2, <2>3
<1>6. QED
  BY <1>2, <1>3, <1>4, <1>5 DEF EndNext

\* Until it closes, the application has or still gets the orders that the gateway wrote
\* to its connection, each once and in the order written, though the threads on
\* both ends, the answers to queries and the frames of the connection interleave freely:
\* what _send_message counts as written is what receive_messages will return.
THEOREM ReceivedIsWritten == EndSpec => []ReceivedAsWritten
<1>1. EndInit => ReceivedInv
  BY InitReceivedInv
<1>2. ReceivedInv /\ [EndNext]_endVars => ReceivedInv'
  BY StepReceivedInv
<1>3. ReceivedInv => ReceivedAsWritten
  <2>1. caller = "idle" /\ ~Client!WasReset => C!NoneMissing
    BY SameTerms DEF C!NoneMissing
  <2>2. C!Stream = Client!Got \o Client!InHand \o Client!OnTheWire
    BY SameTerms DEF C!Stream
  <2>3. QED
    BY <2>1, <2>2 DEF ReceivedInv, ReceivedAsWritten, OrderNumbers
<1>4. QED
  BY <1>1, <1>2, <1>3, PTL DEF EndSpec

-----------------------------------------------------------------------------
(* What WsClientProofs says of the client *)

EndClient == EndTyped /\ C!LinkInv /\ C!AcksInv

LEMMA InitEndClient == EndInit => EndClient
<1> SUFFICES ASSUME EndInit PROVE EndClient
  OBVIOUS
<1>1. C!Init
  BY DEF EndInit, Client!Init, C!Init
<1>2. C!LinkInv /\ C!AcksInv
  BY <1>1, ClientConstants, C!LinkInvInit, C!AcksInvInit
<1>3. QED
  BY <1>2, InitEndTyped DEF EndClient

LEMMA StepEndClient ==
  ASSUME EndClient, [EndNext]_endVars
  PROVE  EndClient'
<1>1. /\ EndTyped /\ EndTyped' /\ IInv' /\ C!TypeInv /\ C!TypeInv' /\ C!LinkInv /\ C!AcksInv
      /\ script \in Scripts /\ texts \in Nat /\ wire \in Seq(C!WireItems)
  <2>1. EndTyped /\ EndTyped' /\ C!LinkInv /\ C!AcksInv
    BY StepEndTyped DEF EndClient
  <2>2. IInv' /\ C!TypeInv /\ C!TypeInv' /\ script \in Scripts
    BY <2>1 DEF EndTyped
  <2>3. texts \in Nat /\ wire \in Seq(C!WireItems)
    BY <2>2 DEF C!TypeInv, C!TypeOK
  <2>4. QED
    BY <2>1, <2>2, <2>3
<1> SUFFICES C!LinkInv' /\ C!AcksInv'
  BY <1>1 DEF EndClient
<1>2. CASE ClientNext \/ HandshakeEnds \/ LinkBreaks \/ GatewayFails
  <2>1. C!Next
    BY <1>1, <1>2, SameStep
  <2>2. QED
    BY <1>1, <2>1, ClientConstants, C!LinkInvStep, C!AcksInvStep
<1>3. CASE ~(ClientNext \/ HandshakeEnds \/ LinkBreaks \/ GatewayFails)
  <2>1. /\ UNCHANGED <<insideVars, up, peer>>
        /\ wire' = wire \/ \E n : wire' = Append(wire, Client!Data(n))
    BY <1>1, <1>3, GatewayWrites DEF EndNext, Connected, TakeFrame, endVars, linkVars
  <2>2. C!AcksInv'
    BY <1>1, <2>1 DEF insideVars, C!AcksInv, C!AckedEach, C!AcksKeepPace, C!AcksDue, C!AcksFor,
       C!AutoAcks, C!ShouldAutoAck, C!AckId, C!Seen, C!Got, C!InHand
  <2>3. C!NoLiveSocketLeft'
    BY <1>1, <2>1 DEF insideVars, C!LinkInv, C!NoLiveSocketLeft
  <2>4. \A i \in 1..Len(wire') : /\ wire'[i] = <<"close">> => peer' # "open"
                                 /\ wire'[i] \in C!Ends => peer' = "gone"
    <3>1. \A i \in 1..Len(wire) : /\ wire[i] = <<"close">> => peer # "open"
                                  /\ wire[i] \in C!Ends => peer = "gone"
      BY <1>1 DEF C!LinkInv
    <3>2. CASE wire' = wire
      BY <2>1, <3>1, <3>2
    <3>3. CASE \E n : wire' = Append(wire, Client!Data(n))
      <4>1. PICK n : wire' = Append(wire, Client!Data(n))
        BY <3>3
      <4>2. Client!Data(n) # <<"close">> /\ Client!Data(n) \notin C!Ends
        BY DEF Client!Data, C!Ends
      <4> DEFINE x == Client!Data(n)
      <4> HIDE DEF x
      <4>3. \A i \in 1..Len(wire') : (i \in 1..Len(wire) /\ wire'[i] = wire[i]) \/ wire'[i] = x
        BY <1>1, <4>1 DEF x
      <4>4. QED
        BY <2>1, <3>1, <4>2, <4>3 DEF x
    <3>4. QED
      BY <2>1, <3>2, <3>3
  <2>5. QED
    BY <1>1, <2>1, <2>2, <2>3, <2>4 DEF insideVars, C!LinkInv
<1>4. QED
  BY <1>2, <1>3

\* The client that has this gateway to talk to, which answers queries, writes when it
\* can and takes its frames when it comes to them, acknowledges what its application
\* sees and leaves no socket open, as with any gateway.
THEOREM EndKeepsClient == EndSpec => [](Client!AcksKeepPace /\ Client!NoLiveSocketLeft)
<1>1. EndClient => Client!AcksKeepPace /\ Client!NoLiveSocketLeft
  <2>1. C!AcksKeepPace => Client!AcksKeepPace
    <3>1. Client!AutoAcks = C!AutoAcks /\ Client!Seen = C!Seen
      BY SameTerms DEF Client!AutoAcks, C!AutoAcks, Client!ShouldAutoAck, C!ShouldAutoAck,
         Client!Seen, C!Seen
    <3>2. Client!AcksDue = C!AcksDue
      BY <3>1, SameOnly DEF Client!AcksDue, C!AcksDue, Client!AcksFor, C!AcksFor,
         Client!AckFrame, C!AckFrame, Client!AckId, C!AckId, Client!EmptyId, C!EmptyId
    <3>3. \A n : Client!AckFrame(n) = C!AckFrame(n)
      BY DEF Client!AckFrame, C!AckFrame
    <3>4. QED
      BY <3>1, <3>2, <3>3, SameTerms, SameOnly DEF Client!AcksKeepPace, C!AcksKeepPace
  <2>2. QED
    BY <2>1 DEF EndClient, C!LinkInv, C!AcksInv, C!NoLiveSocketLeft, Client!NoLiveSocketLeft
<1>2. QED
  BY <1>1, InitEndClient, StepEndClient, PTL DEF EndSpec

-----------------------------------------------------------------------------
(* The acknowledgements that are counted *)

\* The items on the wire that carry an order; the answer to a query is none.
Orders == {Client!Data(n) : n \in 1..MaxIssued}

AllSessions(ss) == \A c \in DOMAIN ss : ss[c] \in Session(Groups)

\* The two directions of the connection, and the sessions whose counts are read.
LinkOK ==
  /\ AnySeq(wire) /\ AnySeq(up)
  /\ taken \in 0..Len(up)
  /\ \A i \in 1..Len(up) : up[i][1] = "ack" => up[i] \in Client!AckFrames
  /\ hand \in Client!Messages \cup {0}
  /\ out = [w \in Conns |-> out[w]] /\ AnySeq(out[Me])
  /\ AllSessions(sessions)

\* No more ACKs are counted than the handler has taken, of the client and of its
\* application.
AcksOf(ss) == IF Self \in DOMAIN ss THEN ss[Self].acks_received ELSE 0
CountedOK == AcksOf(sessions) <= Count(SubSeq(up, 1, taken), Client!AckFrames)
                                   + Count(SubSeq(up, 1, taken), OwnAcks)

\* Every ACK that is written or about to be, and every order on the wire, has a
\* frame of its own.
Acking == IF thread = "ack" THEN 1 ELSE 0
WrittenOK == Count(up, Client!AckFrames) + Acking + Count(wire, Orders) <= Len(out[Me])

BackedInv == LinkOK /\ CountedOK /\ WrittenOK

\* The sum behind it: ACKs counted, ACKs still to take and orders on the wire.
LEMMA BackedSum ==
  ASSUME NEW acks \in Nat, NEW took \in Nat, NEW own \in Nat, NEW left \in Nat,
         NEW soon \in Nat, NEW ordered \in Nat, NEW all \in Nat, NEW given \in Nat,
         acks <= took + own, all = took + left, all + soon + ordered <= given
  PROVE  acks + left + soon <= given + own
OBVIOUS

\* The invariant says what the property says: an ACK that is counted was taken,
\* and one that was taken was written.
LEMMA BackedInvBacks == BackedInv => AcksBackedByFrames
<1> DEFINE A == Client!AckFrames
           front == SubSeq(up, 1, taken)
           back == SubSeq(up, taken + 1, Len(up))
<1> SUFFICES ASSUME BackedInv, Self \in DOMAIN sessions
             PROVE  sessions[Self].acks_received + Count(back, A) + Acking
                      <= Len(out[Me]) + Count(front, OwnAcks)
  BY DEF AcksBackedByFrames, Count, Acking
<1>1. /\ AnySeq(wire) /\ AnySeq(up) /\ taken \in 0..Len(up) /\ AnySeq(out[Me])
      /\ sessions[Self] \in Session(Groups)
      /\ sessions[Self].acks_received <= Count(front, A) + Count(front, OwnAcks)
      /\ Count(up, A) + Acking + Count(wire, Orders) <= Len(out[Me])
  BY DEF BackedInv, LinkOK, CountedOK, WrittenOK, AcksOf, AllSessions
<1>2. AnySeq(front) /\ AnySeq(back) /\ up = front \o back
  <2>1. up = front \o back
    <3>1. PICK T : up \in Seq(T)
      BY <1>1 DEF AnySeq
    <3>2. QED
      BY <1>1, <3>1, SplitAt
  <2>2. QED
    BY <1>1, <2>1, AnySeqFacts
<1> HIDE DEF A, front, back
<1>3. /\ Count(up, A) = Count(front, A) + Count(back, A)
      /\ Count(front, A) \in Nat /\ Count(back, A) \in Nat /\ Count(front, OwnAcks) \in Nat
  BY <1>2, CountFacts, AnySeqFacts
<1>4. Count(wire, Orders) \in Nat /\ Len(out[Me]) \in Nat /\ Acking \in Nat
  <2>1. Len(wire) \in Nat /\ Len(out[Me]) \in Nat
    BY <1>1, AnySeqFacts
  <2>2. Count(wire, Orders) \in 0..Len(wire)
    BY <1>1, CountFacts
  <2>3. QED
    BY <2>1, <2>2 DEF Acking
<1>5. sessions[Self].acks_received \in Nat
  BY <1>1 DEF Session
<1> DEFINE acks == sessions[Self].acks_received
           took == Count(front, A)
           own == Count(front, OwnAcks)
           left == Count(back, A)
           ordered == Count(wire, Orders)
           all == Count(up, A)
           given == Len(out[Me])
<1>6. /\ acks \in Nat /\ took \in Nat /\ own \in Nat /\ left \in Nat
      /\ ordered \in Nat /\ given \in Nat /\ Acking \in Nat /\ all = took + left
  BY <1>3, <1>4, <1>5
<1>7. acks <= took + own /\ all + Acking + ordered <= given
  BY <1>1
<1> HIDE DEF acks, took, own, left, ordered, all, given
<1>8. all \in Nat
  BY <1>6
<1>9. acks + left + Acking <= given + own
  BY <1>6, <1>7, <1>8, BackedSum
<1> QED
  BY <1>9 DEF acks, left, own, given

LEMMA InitBackedInv == EndInit => BackedInv
<1> SUFFICES ASSUME EndInit PROVE BackedInv
  OBVIOUS
<1>1. /\ sessions = <<>> /\ out = [w \in Conns |-> <<>>]
      /\ wire = <<>> /\ up = <<>> /\ hand = 0 /\ thread = "test" /\ taken = 0
  BY DEF EndInit, Init, Client!Init
<1>2. AnySeq(<<>>) /\ Len(<<>>) = 0
  <2>1. <<>> \in Seq({})
    OBVIOUS
  <2>2. QED
    BY <2>1 DEF AnySeq
<1>3. Me \in Conns /\ out[Me] = <<>> /\ DOMAIN sessions = {}
  BY <1>1, EndAssumption
<1>4. \A S : Count(<<>>, S) = 0
  BY <1>2, OnlyEmpty DEF Count
<1>5. LinkOK
  BY <1>1, <1>2, <1>3 DEF LinkOK, AllSessions
<1>6. CountedOK
  <2>1. SubSeq(up, 1, taken) = <<>>
    BY <1>1
  <2>2. AcksOf(sessions) = 0
    BY <1>3 DEF AcksOf
  <2>3. /\ Count(SubSeq(up, 1, taken), Client!AckFrames) = 0
        /\ Count(SubSeq(up, 1, taken), OwnAcks) = 0
    BY <1>4, <2>1
  <2>4. QED
    BY <2>2, <2>3 DEF CountedOK
<1>7. WrittenOK
  BY <1>1, <1>2, <1>3, <1>4 DEF WrittenOK, Acking
<1>8. QED
  BY <1>5, <1>6, <1>7 DEF BackedInv

-----------------------------------------------------------------------------
(* What moves on the connection *)

\* A frame more in `up`.
LEMMA UpGrows ==
  ASSUME LinkOK, NEW f, up' = Append(up, f), f[1] = "ack" => f \in Client!AckFrames
  PROVE  /\ AnySeq(up') /\ Len(up') = Len(up) + 1
         /\ \A i \in 1..Len(up') : up'[i][1] = "ack" => up'[i] \in Client!AckFrames
         /\ \A k \in 0..Len(up) : SubSeq(up', 1, k) = SubSeq(up, 1, k)
         /\ Count(up', Client!AckFrames) =
              Count(up, Client!AckFrames) + (IF f \in Client!AckFrames THEN 1 ELSE 0)
<1>1. AnySeq(up) /\ \A i \in 1..Len(up) : up[i][1] = "ack" => up[i] \in Client!AckFrames
  BY DEF LinkOK
<1>2. PICK T : up \in Seq(T)
  BY <1>1 DEF AnySeq
<1>3. /\ Len(up') = Len(up) + 1 /\ Len(up) \in Nat /\ up'[Len(up) + 1] = f
      /\ \A i \in 1..Len(up) : up'[i] = up[i]
  BY <1>2
<1>4. AnySeq(up')
  BY <1>1, AnySeqFacts
<1>5. ASSUME NEW k \in 0..Len(up)
      PROVE  SubSeq(up', 1, k) = SubSeq(up, 1, k)
  <2>1. PICK U : up' \in Seq(U)
    BY <1>4 DEF AnySeq
  <2>2. \A i \in 1..k : up'[i] = up[i]
    BY <1>3
  <2>3. /\ SubSeq(up', 1, k) = [i \in 1..k |-> up'[i]]
        /\ SubSeq(up, 1, k) = [i \in 1..k |-> up[i]]
    BY <1>2, <1>3, <2>1
  <2>4. QED
    BY <2>2, <2>3
<1>6. \A i \in 1..Len(up') : up'[i][1] = "ack" => up'[i] \in Client!AckFrames
  BY <1>1, <1>3
<1>7. Count(up', Client!AckFrames) =
        Count(up, Client!AckFrames) + (IF f \in Client!AckFrames THEN 1 ELSE 0)
  BY <1>1, CountFacts
<1>8. QED
  BY <1>3, <1>4, <1>5, <1>6, <1>7

\* The calls that a step makes on the registry leave acks_received alone or end
\* the session, except record_ack_received.
LEMMA RegistryCounts ==
  ASSUME NEW ss, AllSessions(ss), NEW d
  PROVE  /\ AcksOf(ss) \in Nat
         /\ \A next \in {ss, Registered(ss, d, Now), Unregistered(ss, d), CountedSent(ss, d)} :
              AllSessions(next) /\ AcksOf(next) <= AcksOf(ss)
         /\ AllSessions(CountedAck(ss, d)) /\ AcksOf(CountedAck(ss, d)) <= AcksOf(ss) + 1
         /\ d # Self => AcksOf(CountedAck(ss, d)) <= AcksOf(ss)
<1>1. \A c \in DOMAIN ss : ss[c].acks_received \in Nat /\ ss[c].messages_sent \in Nat
  BY DEF AllSessions, Session
<1>2. AcksOf(ss) \in Nat
  BY <1>1 DEF AcksOf
<1>3. AllSessions(Registered(ss, d, Now)) /\ AcksOf(Registered(ss, d, Now)) <= AcksOf(ss)
  <2> DEFINE old == GetOr(ss, d, NewSession(Now))
             new == [old EXCEPT !.last_heartbeat = Now]
  <2>1. /\ old \in Session(Groups) /\ Now \in Nat
        /\ old.acks_received = IF d \in DOMAIN ss THEN ss[d].acks_received ELSE 0
    BY DEF AllSessions, Session, GetOr, NewSession, Now
  <2> HIDE DEF old
  <2>2. new \in Session(Groups) /\ new.acks_received = old.acks_received
    BY <2>1 DEF Session
  <2> HIDE DEF new
  <2>3. Registered(ss, d, Now) = [x \in DOMAIN ss \cup {d} |-> IF x = d THEN new ELSE ss[x]]
    BY DEF Registered, Assign, new, old
  <2>4. AllSessions(Registered(ss, d, Now))
    BY <2>2, <2>3 DEF AllSessions
  <2>5. AcksOf(Registered(ss, d, Now)) = AcksOf(ss)
    BY <2>1, <2>2, <2>3 DEF AcksOf
  <2>6. QED
    BY <1>2, <2>4, <2>5
<1>4. AllSessions(Unregistered(ss, d)) /\ AcksOf(Unregistered(ss, d)) <= AcksOf(ss)
  BY <1>1, <1>2 DEF AllSessions, AcksOf, Unregistered, PopAll
<1>5. AllSessions(CountedSent(ss, d)) /\ AcksOf(CountedSent(ss, d)) <= AcksOf(ss)
  <2>1. CASE d \notin DOMAIN ss
    BY <1>2, <2>1 DEF CountedSent
  <2>2. CASE d \in DOMAIN ss
    <3> DEFINE new == [ss[d] EXCEPT !.messages_sent = @ + 1]
    <3>1. new \in Session(Groups) /\ new.acks_received = ss[d].acks_received
      BY <1>1, <2>2 DEF AllSessions, Session
    <3>2. CountedSent(ss, d) = [ss EXCEPT ![d] = new]
      BY <2>2 DEF CountedSent
    <3> HIDE DEF new
    <3>3. AllSessions(CountedSent(ss, d)) /\ AcksOf(CountedSent(ss, d)) = AcksOf(ss)
      BY <2>2, <3>1, <3>2 DEF AllSessions, AcksOf
    <3>4. QED
      BY <1>2, <3>3
  <2>3. QED
    BY <2>1, <2>2
<1>6. /\ AllSessions(CountedAck(ss, d)) /\ AcksOf(CountedAck(ss, d)) <= AcksOf(ss) + 1
      /\ d # Self => AcksOf(CountedAck(ss, d)) <= AcksOf(ss)
  <2>1. CASE d \notin DOMAIN ss
    BY <1>2, <2>1 DEF CountedAck
  <2>2. CASE d \in DOMAIN ss
    <3> DEFINE new == [ss[d] EXCEPT !.acks_received = @ + 1]
    <3>1. new \in Session(Groups) /\ new.acks_received = ss[d].acks_received + 1
      BY <1>1, <2>2 DEF AllSessions, Session
    <3>2. CountedAck(ss, d) = [ss EXCEPT ![d] = new]
      BY <2>2 DEF CountedAck
    <3> HIDE DEF new
    <3>3. AllSessions(CountedAck(ss, d))
      BY <2>2, <3>1, <3>2 DEF AllSessions
    <3>4. AcksOf(CountedAck(ss, d)) <= AcksOf(ss) + 1
      BY <1>1, <2>2, <3>1, <3>2 DEF AcksOf
    <3>5. d # Self => AcksOf(CountedAck(ss, d)) = AcksOf(ss)
      BY <3>2 DEF AcksOf
    <3>6. QED
      BY <1>2, <3>3, <3>4, <3>5
  <2>3. QED
    BY <2>1, <2>2
<1>7. QED
  BY <1>2, <1>3, <1>4, <1>5, <1>6 DEF AllSessions

\* What a step of the client is on the connection: it takes an order off the wire
\* and is to acknowledge it, it acknowledges what it was to acknowledge or fails
\* to, or it reads and writes something else.
HandOK == hand' \in Client!Messages \cup {0}
Reads == wire # <<>> /\ wire' = Tail(wire)
TakesOrder == /\ thread' = "ack"
              /\ Reads /\ Head(wire) \in Orders /\ UNCHANGED up
WritesAck == /\ thread = "ack" /\ thread' # "ack"
             /\ UNCHANGED wire
             /\ UNCHANGED up \/ \E f \in Client!AckFrames : up' = Append(up, f)
Quiet == /\ thread' = "ack" => thread = "ack"
         /\ UNCHANGED wire \/ Reads
         /\ UNCHANGED up \/ \E f : f[1] # "ack" /\ up' = Append(up, f)
Moves == HandOK /\ (TakesOrder \/ WritesAck \/ Quiet)

LEMMA ThreadMoves ==
  ASSUME LinkOK, Client!ReceiveThread
  PROVE  Moves
<1>0. /\ hand \in Client!Messages \cup {0}
      /\ <<"pong">>[1] # "ack" /\ <<"close">>[1] # "ack"
  BY DEF LinkOK
<1>1. ASSUME Client!LoopTest \/ Client!EnterRecv \/ Client!RecvEnd \/ Client!RecvFails
      PROVE  Moves
  BY <1>0, <1>1 DEF Client!LoopTest, Client!EnterRecv, Client!RecvEnd, Client!RecvFails,
     Client!netVars, Moves, HandOK, Quiet
<1>2. ASSUME Client!RecvData
      PROVE  Moves
  <2>1. PICK n \in Client!Messages :
          /\ Client!Receiving /\ Client!Arrives(Client!Data(n))
          /\ wire' = Tail(wire)
          /\ hand' = n
          /\ thread' = IF Client!AutoAcks /\ n \in 1..MaxIssued THEN "ack" ELSE "put"
          /\ UNCHANGED up
    BY <1>2 DEF Client!RecvData
  <2>2. Reads /\ Head(wire) = Client!Data(n)
    BY <2>1 DEF Client!Arrives, Reads
  <2>3. CASE thread' = "ack"
    <3>1. n \in 1..MaxIssued
      BY <2>1, <2>3
    <3>2. TakesOrder
      BY <2>1, <2>2, <2>3, <3>1 DEF TakesOrder, Orders
    <3>3. QED
      BY <2>1, <3>2 DEF Moves, HandOK
  <2>4. CASE thread' # "ack"
    BY <2>1, <2>2, <2>4 DEF Moves, HandOK, Quiet
  <2>5. QED
    BY <2>3, <2>4
<1>3. ASSUME Client!SendAck
      PROVE  Moves
  <2>1. Client!AckFrame(Client!AckId(hand)) \in Client!AckFrames
    BY <1>0 DEF Client!AckFrames, Client!AckId, Client!EmptyId
  <2>2. /\ thread = "ack" /\ thread' = "put" /\ UNCHANGED <<wire, hand>>
        /\ UNCHANGED up \/ up' = Append(up, Client!AckFrame(Client!AckId(hand)))
    BY <1>3 DEF Client!SendAck, Client!Sends, Client!Writes, Client!SendFails, Client!netVars
  <2>3. WritesAck
    BY <2>1, <2>2 DEF WritesAck
  <2>4. QED
    BY <1>0, <2>2, <2>3 DEF Moves, HandOK
<1>4. ASSUME Client!PutMessage
      PROVE  Moves
  BY <1>4 DEF Client!PutMessage, Client!netVars, Moves, HandOK, Quiet
<1>5. ASSUME Client!RecvPing \/ Client!RecvClose \/ Client!RecvGarbled
      PROVE  Moves
  <2>1. Reads /\ thread' # "ack" /\ UNCHANGED hand
    BY <1>5 DEF Client!RecvPing, Client!RecvClose, Client!RecvGarbled, Client!Arrives, Reads
  <2>2. UNCHANGED up \/ up' = Append(up, <<"pong">>) \/ up' = Append(up, <<"close">>)
    BY <1>5 DEF Client!RecvPing, Client!RecvClose, Client!RecvGarbled, Client!Writes,
       Client!SendFails
  <2>3. QED
    BY <1>0, <2>1, <2>2 DEF Moves, HandOK, Quiet
<1>6. ASSUME Client!SendPong
      PROVE  Moves
  BY <1>0, <1>6 DEF Client!SendPong, Client!Sends, Client!Writes, Client!SendFails,
     Client!netVars, Moves, HandOK, Quiet
<1>7. QED
  BY <1>1, <1>2, <1>3, <1>4, <1>5, <1>6 DEF Client!ReceiveThread

LEMMA ApplicationMoves ==
  ASSUME LinkOK, SendNext \/ Client!CloseNothing \/ Client!CloseConnection \/ Client!Closing
  PROVE  Moves
<1>0. /\ hand \in Client!Messages \cup {0}
      /\ <<"close">>[1] # "ack"
      /\ \A x : Client!TextFrame(x)[1] # "ack"
  BY DEF LinkOK, Client!TextFrame
<1>1. ASSUME SendNext
      PROVE  Moves
  <2>1. PICK x : Client!SendText(x)
    BY <1>1 DEF SendNext
  <2>2. QED
    BY <1>0, <2>1 DEF Client!SendText, Client!Sends, Client!Writes, Client!SendFails,
       Client!netVars, Moves, HandOK, Quiet
<1>2. ASSUME Client!CloseNothing
      PROVE  Moves
  BY <1>0, <1>2 DEF Client!CloseNothing, Client!netVars, Moves, HandOK, Quiet
<1>3. ASSUME Client!CloseConnection
      PROVE  Moves
  BY <1>0, <1>3 DEF Client!CloseConnection, Client!Writes, Client!SendFails, Client!netVars,
     Moves, HandOK, Quiet
<1>4. ASSUME Client!EnterDrain \/ Client!DrainEnds
      PROVE  Moves
  BY <1>0, <1>4 DEF Client!EnterDrain, Client!DrainEnds, Client!netVars, Moves, HandOK, Quiet
<1>5. ASSUME Client!DrainFrame
      PROVE  Moves
  BY <1>0, <1>5 DEF Client!DrainFrame, Client!Arrives, Reads, Moves, HandOK, Quiet
<1>6. QED
  BY <1>1, <1>2, <1>3, <1>4, <1>5 DEF Client!Closing

LEMMA LinkCounts ==
  ASSUME LinkOK
  PROVE  /\ Len(up) \in Nat /\ Len(wire) \in Nat /\ Len(out[Me]) \in Nat
         /\ Count(up, Client!AckFrames) \in Nat /\ Count(wire, Orders) \in Nat
         /\ Acking \in 0..1
<1>1. AnySeq(up) /\ AnySeq(wire) /\ AnySeq(out[Me])
  BY DEF LinkOK
<1>2. Len(up) \in Nat /\ Len(wire) \in Nat /\ Len(out[Me]) \in Nat
  BY <1>1, AnySeqFacts
<1>3. Count(up, Client!AckFrames) \in 0..Len(up) /\ Count(wire, Orders) \in 0..Len(wire)
  BY <1>1, CountFacts
<1>4. QED
  BY <1>2, <1>3 DEF Acking

\* A frame less on the wire.
LEMMA WireShrinks ==
  ASSUME LinkOK, Reads
  PROVE  /\ AnySeq(wire')
         /\ Count(wire', Orders) \in Nat
         /\ Count(wire', Orders) =
              Count(wire, Orders) - (IF Head(wire) \in Orders THEN 1 ELSE 0)
<1>1. AnySeq(wire) /\ wire # <<>> /\ wire' = Tail(wire)
  BY DEF LinkOK, Reads
<1>2. AnySeq(wire')
  BY <1>1, AnySeqFacts
<1>3. Count(wire', Orders) = Count(wire, Orders) - (IF Head(wire) \in Orders THEN 1 ELSE 0)
  BY <1>1, CountFacts
<1>4. Count(wire', Orders) \in 0..Len(wire') /\ Len(wire') \in Nat
  BY <1>2, CountFacts, AnySeqFacts
<1>5. QED
  BY <1>2, <1>3, <1>4

\* What a step that leaves the gateway alone has to keep: the frames in `up` that
\* the handler has taken, and the ACKs and orders that are on their way.
LEMMA LinkKept ==
  ASSUME BackedInv, UNCHANGED <<sessions, out, taken>>, HandOK,
         AnySeq(wire'), AnySeq(up'), Len(up) <= Len(up'), Len(up') \in Nat,
         \A i \in 1..Len(up') : up'[i][1] = "ack" => up'[i] \in Client!AckFrames,
         \A k \in 0..Len(up) : SubSeq(up', 1, k) = SubSeq(up, 1, k),
         Count(up', Client!AckFrames) + Acking' + Count(wire', Orders)
           <= Count(up, Client!AckFrames) + Acking + Count(wire, Orders),
         Count(up', Client!AckFrames) \in Nat, Count(wire', Orders) \in Nat
  PROVE  BackedInv'
<1>1. LinkOK /\ CountedOK /\ WrittenOK
  BY DEF BackedInv
<1>2. taken \in 0..Len(up) /\ taken' \in 0..Len(up')
  BY <1>1 DEF LinkOK
<1>3. LinkOK'
  BY <1>1, <1>2 DEF LinkOK, HandOK
<1>4. SubSeq(up', 1, taken') = SubSeq(up, 1, taken)
  BY <1>2
<1>5. CountedOK'
  BY <1>1, <1>4 DEF CountedOK
<1>6. WrittenOK'
  <2> DEFINE a == Count(up, Client!AckFrames)
             b == Count(wire, Orders)
             a1 == Count(up', Client!AckFrames)
             b1 == Count(wire', Orders)
             c1 == Acking'
             o == Len(out[Me])
  <2>1. a + Acking + b <= o /\ a1 + c1 + b1 <= a + Acking + b
    BY <1>1 DEF WrittenOK
  <2>2. a \in Nat /\ b \in Nat /\ Acking \in 0..1 /\ o \in Nat
    BY <1>1, LinkCounts
  <2>3. a1 \in Nat /\ b1 \in Nat /\ c1 \in 0..1
    BY DEF Acking
  <2> HIDE DEF a, b, a1, b1, c1, o
  <2>4. a1 + c1 + b1 <= o
    BY <2>1, <2>2, <2>3
  <2>5. out' = out
    OBVIOUS
  <2>6. QED
    BY <2>4, <2>5 DEF WrittenOK, a1, b1, c1, o
<1>7. QED
  BY <1>3, <1>5, <1>6 DEF BackedInv

\* A move of the client keeps the invariant: an order that is taken off the wire
\* stands for the ACK to come, and that ACK for the frame in `up`.
LEMMA MovesKeep ==
  ASSUME BackedInv, Moves, UNCHANGED <<vars, script, taken>>
  PROVE  BackedInv'
<1> DEFINE A == Client!AckFrames
           a == Count(up, A)
           b == Count(wire, Orders)
           a1 == Count(up', A)
           b1 == Count(wire', Orders)
<1>1. /\ LinkOK /\ HandOK
      /\ UNCHANGED <<sessions, out, taken>>
  BY DEF BackedInv, Moves, vars, coreVars, taskVars
<1>2. /\ Len(up) \in Nat /\ a \in Nat /\ b \in Nat /\ Acking \in 0..1
      /\ AnySeq(up) /\ AnySeq(wire)
      /\ \A i \in 1..Len(up) : up[i][1] = "ack" => up[i] \in A
  BY <1>1, LinkCounts DEF LinkOK
<1>3. Acking' = IF thread' = "ack" THEN 1 ELSE 0
  BY DEF Acking
<1>4. \A f \in A : f[1] = "ack"
  BY DEF Client!AckFrames, Client!AckFrame
<1> DEFINE GoodUp == /\ AnySeq(up') /\ Len(up) <= Len(up') /\ Len(up') \in Nat
                     /\ \A i \in 1..Len(up') : up'[i][1] = "ack" => up'[i] \in A
                     /\ \A k \in 0..Len(up) : SubSeq(up', 1, k) = SubSeq(up, 1, k)
                     /\ a1 \in Nat
           GoodWire == AnySeq(wire') /\ b1 \in Nat /\ b1 <= b
<1>5. ASSUME UNCHANGED up
      PROVE  GoodUp /\ a1 = a
  BY <1>2, <1>5
<1>6. ASSUME NEW f, up' = Append(up, f), f[1] = "ack" => f \in A
      PROVE  GoodUp /\ a1 = a + (IF f \in A THEN 1 ELSE 0)
  <2>1. /\ AnySeq(up') /\ Len(up') = Len(up) + 1
        /\ \A i \in 1..Len(up') : up'[i][1] = "ack" => up'[i] \in A
        /\ \A k \in 0..Len(up) : SubSeq(up', 1, k) = SubSeq(up, 1, k)
        /\ a1 = a + (IF f \in A THEN 1 ELSE 0)
    BY <1>1, <1>6, UpGrows
  <2>2. QED
    BY <1>2, <2>1
<1>7. ASSUME UNCHANGED wire
      PROVE  GoodWire /\ b1 = b
  BY <1>2, <1>7
<1>8. ASSUME Reads
      PROVE  GoodWire /\ b1 = b - (IF Head(wire) \in Orders THEN 1 ELSE 0)
  <2>1. AnySeq(wire') /\ b1 \in Nat /\ b1 = b - (IF Head(wire) \in Orders THEN 1 ELSE 0)
    BY <1>1, <1>8, WireShrinks
  <2>2. QED
    BY <1>2, <2>1
<1> SUFFICES GoodUp /\ GoodWire /\ a1 + Acking' + b1 <= a + Acking + b
  BY <1>1, LinkKept
<1> HIDE DEF A, a, b, a1, b1, GoodUp, GoodWire
<1>9. CASE TakesOrder
  <2>1. /\ UNCHANGED up /\ Reads /\ Head(wire) \in Orders /\ Acking' = 1
    BY <1>3, <1>9 DEF TakesOrder
  <2>2. GoodUp /\ a1 = a /\ GoodWire /\ b1 = b - 1
    BY <1>5, <1>8, <2>1
  <2>3. QED
    BY <1>2, <2>1, <2>2
<1>10. CASE WritesAck
  <2>1. Acking = 1 /\ Acking' = 0
    BY <1>3, <1>10 DEF WritesAck, Acking
  <2>2. GoodWire /\ b1 = b
    BY <1>7, <1>10 DEF WritesAck
  <2>3. GoodUp /\ (a1 = a \/ a1 = a + 1)
    <3>1. CASE UNCHANGED up
      BY <1>5, <3>1
    <3>2. CASE \E f \in A : up' = Append(up, f)
      <4>1. PICK f \in A : up' = Append(up, f)
        BY <3>2
      <4>2. QED
        BY <1>6, <4>1
    <3>3. QED
      BY <1>10, <3>1, <3>2 DEF WritesAck, A
  <2>4. QED
    BY <1>2, <2>1, <2>2, <2>3
<1>11. CASE Quiet
  <2>1. Acking' <= Acking /\ Acking' \in 0..1
    BY <1>3, <1>11 DEF Quiet, Acking
  <2>2. GoodWire /\ b1 <= b /\ b1 \in Nat
    <3>1. CASE UNCHANGED wire
      BY <1>2, <1>7, <3>1 DEF GoodWire
    <3>2. CASE Reads
      BY <1>8, <3>2 DEF GoodWire
    <3>3. QED
      BY <1>11, <3>1, <3>2 DEF Quiet
  <2>3. GoodUp /\ a1 = a
    <3>1. CASE UNCHANGED up
      BY <1>5, <3>1
    <3>2. CASE \E f : f[1] # "ack" /\ up' = Append(up, f)
      <4>1. PICK f : f[1] # "ack" /\ up' = Append(up, f)
        BY <3>2
      <4>2. f \notin A
        BY <1>4, <4>1
      <4>3. GoodUp /\ a1 = a + 0
        BY <1>6, <4>1, <4>2
      <4>4. QED
        BY <1>2, <4>3
    <3>3. QED
      BY <1>11, <3>1, <3>2 DEF Quiet
  <2>4. \A c \in 0..1 : c <= Acking => a1 + c + b1 <= a + Acking + b
    BY <1>2, <2>2, <2>3
  <2>5. a1 + Acking' + b1 <= a + Acking + b
    BY <2>1, <2>4
  <2>6. QED
    BY <2>2, <2>3, <2>5
<1>12. QED
  BY <1>9, <1>10, <1>11 DEF Moves

-----------------------------------------------------------------------------
(* The connection *)

\* A step that touches neither the connection nor the counts.
LEMMA StillBacked ==
  ASSUME BackedInv, UNCHANGED <<sessions, out, up, taken, wire, thread, hand>>
  PROVE  BackedInv'
BY DEF BackedInv, LinkOK, CountedOK, WrittenOK, Acking

\* What the gateway's end appends when it ends the connection is no order.
LEMMA EndsAreNoOrders ==
  ASSUME NEW a, NEW b, a[1] # "data", b[1] # "data", NEW s, AnySeq(s)
  PROVE  /\ AnySeq(Append(s, a)) /\ Count(Append(s, a), Orders) = Count(s, Orders)
         /\ AnySeq(s \o <<a, b>>) /\ Count(s \o <<a, b>>, Orders) = Count(s, Orders)
<1>1. a \notin Orders /\ b \notin Orders
  BY DEF Orders, Client!Data
<1>2. ASSUME NEW t, AnySeq(t)
      PROVE  \A x \in {a, b} :
               AnySeq(Append(t, x)) /\ Count(Append(t, x), Orders) = Count(t, Orders)
  <2>1. SUFFICES ASSUME NEW x \in {a, b}
                 PROVE  AnySeq(Append(t, x)) /\ Count(Append(t, x), Orders) = Count(t, Orders)
    OBVIOUS
  <2>2. Count(Append(t, x), Orders) = Count(t, Orders) + (IF x \in Orders THEN 1 ELSE 0)
    BY <1>2, CountFacts
  <2>3. Count(t, Orders) \in 0..Len(t) /\ Len(t) \in Nat
    BY <1>2, CountFacts, AnySeqFacts
  <2>4. QED
    BY <1>1, <1>2, <2>2, <2>3, AnySeqFacts
<1>3. AnySeq(<<a, b>>) /\ Count(<<a, b>>, Orders) = 0
  <2>1. AnySeq(<<>>) /\ Count(<<>>, Orders) = 0
    <3>1. <<>> \in Seq({})
      OBVIOUS
    <3>2. Len(<<>>) = 0
      OBVIOUS
    <3>3. QED
      BY <3>1, <3>2, OnlyEmpty DEF AnySeq, Count
  <2>2. <<a, b>> = Append(Append(<<>>, a), b)
    OBVIOUS
  <2>3. QED
    BY <1>2, <2>1, <2>2
<1>4. AnySeq(s \o <<a, b>>)
  BY <1>3, AnySeqFacts
<1>5. Count(s \o <<a, b>>, Orders) = Count(s, Orders)
  <2>1. Count(s \o <<a, b>>, Orders) = Count(s, Orders) + Count(<<a, b>>, Orders)
    BY <1>3, CountFacts
  <2>2. Count(s, Orders) \in 0..Len(s) /\ Len(s) \in Nat
    BY CountFacts, AnySeqFacts
  <2>3. QED
    BY <1>3, <2>1, <2>2
<1>6. QED
  BY <1>2, <1>4, <1>5

\* When the connection ends, fails or is lost, the gateway's end only appends what is
\* no order, and a reset takes some of what was on the wire.
LEMMA LinkEnds ==
  ASSUME BackedInv, HandshakeEnds \/ LinkBreaks \/ GatewayFails
  PROVE  BackedInv'
<1> DEFINE A == Client!AckFrames
           eof == <<"eof">>
           close == <<"close">>
           reset == <<"reset">>
<1>1. /\ LinkOK
      /\ UNCHANGED <<sessions, out, taken, up, thread, hand>>
  BY DEF BackedInv, HandshakeEnds, LinkBreaks, GatewayFails, Over, ConnectionCloses,
     Client!GatewayEnds, Client!ConnectionLost, Client!GatewayCloses, vars, coreVars, taskVars
<1>2. eof[1] # "data" /\ close[1] # "data" /\ reset[1] # "data"
  OBVIOUS
<1>3. \/ wire' = Append(wire, eof) \/ wire' = Append(wire, close)
      \/ wire' = wire \o <<close, eof>>
      \/ \E k \in 0..Len(wire) : wire' = Append(SubSeq(wire, 1, k), reset)
  BY DEF HandshakeEnds, LinkBreaks, GatewayFails, Client!GatewayEnds, Client!ConnectionLost,
     Client!GatewayCloses
<1> HIDE DEF eof, close, reset
<1>4. /\ AnySeq(wire) /\ Len(wire) \in Nat /\ Count(wire, Orders) \in Nat
      /\ AnySeq(up) /\ Len(up) \in Nat /\ Count(up, A) \in Nat /\ Acking \in 0..1
      /\ \A i \in 1..Len(up) : up[i][1] = "ack" => up[i] \in A
      /\ hand \in Client!Messages \cup {0}
  BY <1>1, LinkCounts DEF LinkOK
<1>5. AnySeq(wire') /\ Count(wire', Orders) \in Nat /\ Count(wire', Orders) <= Count(wire, Orders)
  <2>1. CASE \/ wire' = Append(wire, eof) \/ wire' = Append(wire, close)
             \/ wire' = wire \o <<close, eof>>
    <3>1. AnySeq(wire') /\ Count(wire', Orders) = Count(wire, Orders)
      <4>1. \A x \in {eof, close} :
              AnySeq(Append(wire, x)) /\ Count(Append(wire, x), Orders) = Count(wire, Orders)
        BY <1>2, <1>4, EndsAreNoOrders
      <4>2. /\ AnySeq(wire \o <<close, eof>>)
            /\ Count(wire \o <<close, eof>>, Orders) = Count(wire, Orders)
        BY <1>2, <1>4, EndsAreNoOrders
      <4>3. CASE wire' = Append(wire, eof) \/ wire' = Append(wire, close)
        BY <4>1, <4>3
      <4>4. CASE wire' = wire \o <<close, eof>>
        BY <4>2, <4>4
      <4>5. QED
        BY <2>1, <4>3, <4>4
    <3>2. QED
      BY <1>4, <3>1
  <2>2. CASE \E k \in 0..Len(wire) : wire' = Append(SubSeq(wire, 1, k), reset)
    <3>1. PICK k \in 0..Len(wire) : wire' = Append(SubSeq(wire, 1, k), reset)
      BY <2>2
    <3> DEFINE front == SubSeq(wire, 1, k)
               back == SubSeq(wire, k + 1, Len(wire))
    <3>2. AnySeq(front) /\ AnySeq(back)
      BY <1>4, AnySeqFacts
    <3>3. wire = front \o back
      <4>1. PICK T : wire \in Seq(T)
        BY <1>4 DEF AnySeq
      <4>2. QED
        BY <4>1, SplitAt
    <3>4. wire' = Append(front, reset)
      BY <3>1
    <3> HIDE DEF front, back
    <3>5. Count(wire, Orders) = Count(front, Orders) + Count(back, Orders)
      BY <3>2, <3>3, CountFacts
    <3>6. AnySeq(wire') /\ Count(wire', Orders) = Count(front, Orders)
      BY <1>2, <3>2, <3>4, EndsAreNoOrders
    <3>7. Count(front, Orders) \in Nat /\ Count(back, Orders) \in Nat
      BY <3>2, CountFacts, AnySeqFacts
    <3>8. QED
      BY <3>5, <3>6, <3>7
  <2>3. QED
    BY <1>3, <2>1, <2>2
<1>6. HandOK /\ AnySeq(up') /\ Len(up) <= Len(up') /\ Len(up') \in Nat
  BY <1>1, <1>4 DEF HandOK
<1>7. /\ \A i \in 1..Len(up') : up'[i][1] = "ack" => up'[i] \in A
      /\ \A k \in 0..Len(up) : SubSeq(up', 1, k) = SubSeq(up, 1, k)
      /\ Count(up', A) \in Nat /\ Count(up', A) = Count(up, A)
  BY <1>1, <1>4
<1>8. Acking' = Acking
  BY <1>1 DEF Acking
<1>9. Count(up', A) + Acking' + Count(wire', Orders) <= Count(up, A) + Acking + Count(wire, Orders)
  BY <1>4, <1>5, <1>7, <1>8
<1>10. QED
  BY <1>1, <1>5, <1>6, <1>7, <1>9, LinkKept

-----------------------------------------------------------------------------
(* The gateway *)

\* What the gateway's own steps do to the sessions: they count no ACK.
LEMMA GatewayCountsNoAck ==
  ASSUME LinkOK, GatewayNext
  PROVE  AllSessions(sessions') /\ AcksOf(sessions') <= AcksOf(sessions)
<1>1. AllSessions(sessions)
  BY DEF LinkOK
<1>2. \/ UNCHANGED sessions
      \/ \E d : sessions' = CountedSent(sessions, d) \/ sessions' = Unregistered(sessions, d)
  <2>1. ASSUME RunTask
        PROVE  UNCHANGED sessions
    BY <2>1 DEF RunTask, RunPush, RunAll, RunGroup, RunGather, Gather, coreVars
  <2>2. ASSUME ReplySent(Me)
        PROVE  UNCHANGED sessions
    BY <2>2 DEF ReplySent, coreVars
  <2>3. ASSUME NEW s, SendReturns(s)
        PROVE  sessions' = CountedSent(sessions, s[2])
    BY <2>3 DEF SendReturns
  <2>4. ASSUME NEW s, SendRaises(s)
        PROVE  UNCHANGED sessions
    BY <2>4 DEF SendRaises, coreVars
  <2>5. ASSUME Finish(Me)
        PROVE  UNCHANGED sessions \/ sessions' = Unregistered(sessions, clientId[Me])
    BY <2>5 DEF Finish, Ends, CleanUp, coreVars
  <2>6. RunTask \/ ReplySent(Me) \/ (\E s : SendReturns(s) \/ SendRaises(s)) \/ Finish(Me)
    BY DEF GatewayNext, GatewayStep
  <2>7. QED
    BY <2>1, <2>2, <2>3, <2>4, <2>5, <2>6
<1>3. CASE UNCHANGED sessions
  BY <1>1, <1>3, RegistryCounts
<1>4. ASSUME NEW d, sessions' = CountedSent(sessions, d) \/ sessions' = Unregistered(sessions, d)
      PROVE  AllSessions(sessions') /\ AcksOf(sessions') <= AcksOf(sessions)
  BY <1>1, <1>4, RegistryCounts
<1>5. QED
  BY <1>2, <1>3, <1>4

\* A frame that is written to Me stands for the order it puts on the wire.
LEMMA GatewayKeeps ==
  ASSUME BackedInv, EndTyped, EndTyped', GatewayNext
  PROVE  BackedInv'
<1> DEFINE A == Client!AckFrames
<1>1. LinkOK /\ CountedOK /\ WrittenOK
  BY DEF BackedInv
<1>2. /\ UNCHANGED <<insideVars, up, taken>>
      /\ \/ out'[Me] = out[Me] /\ wire' = wire
         \/ \E f \in Frames : /\ out'[Me] = Append(out[Me], f)
                              /\ wire' = Append(wire, Client!Data(f.n))
  BY GatewayWrites DEF EndTyped
<1>3. UNCHANGED <<up, taken, thread, hand>>
  BY <1>2 DEF insideVars
<1>4. /\ AnySeq(wire) /\ Len(wire) \in Nat /\ Count(wire, Orders) \in Nat
      /\ Count(up, A) \in Nat /\ Acking \in 0..1 /\ Len(out[Me]) \in Nat
  BY <1>1, LinkCounts DEF LinkOK
<1>5. out[Me] \in Seq(Frames) /\ out' = [w \in Conns |-> out'[w]] /\ AnySeq(out'[Me])
  BY EndAssumption DEF EndTyped, IInv, QueueOK, AnySeq
<1>6. /\ AnySeq(wire')
      /\ Len(out'[Me]) \in Nat /\ Count(wire', Orders) \in Nat
      /\ Len(out[Me]) + Count(wire', Orders) <= Len(out'[Me]) + Count(wire, Orders)
  <2>1. CASE out'[Me] = out[Me] /\ wire' = wire
    BY <1>4, <2>1
  <2>2. ASSUME NEW f \in Frames, out'[Me] = Append(out[Me], f),
               wire' = Append(wire, Client!Data(f.n))
        PROVE  /\ AnySeq(wire')
               /\ Len(out'[Me]) \in Nat /\ Count(wire', Orders) \in Nat
               /\ Len(out[Me]) + Count(wire', Orders) <= Len(out'[Me]) + Count(wire, Orders)
    <3> DEFINE x == Client!Data(f.n)
    <3> HIDE DEF x
    <3>1. AnySeq(Append(wire, x))
      BY <1>4, AnySeqFacts
    <3>2. Count(Append(wire, x), Orders) = Count(wire, Orders) + (IF x \in Orders THEN 1 ELSE 0)
      BY <1>4, CountFacts
    <3>3. Len(out'[Me]) = Len(out[Me]) + 1
      BY <1>5, <2>2
    <3>4. wire' = Append(wire, x)
      BY <2>2 DEF x
    <3>5. QED
      BY <1>4, <3>1, <3>2, <3>3, <3>4
  <2>3. QED
    BY <1>2, <2>1, <2>2
<1>7. AllSessions(sessions') /\ AcksOf(sessions') <= AcksOf(sessions)
  BY <1>1, GatewayCountsNoAck
<1>8. LinkOK'
  BY <1>1, <1>3, <1>5, <1>6, <1>7 DEF LinkOK
<1>9. CountedOK'
  <2> DEFINE front == SubSeq(up, 1, taken)
             n == Count(front, A) + Count(front, OwnAcks)
  <2>1. AcksOf(sessions) <= n /\ UNCHANGED <<up, taken>>
    BY <1>1, <1>3 DEF CountedOK
  <2>2. AnySeq(front)
    BY <1>1, AnySeqFacts DEF LinkOK
  <2>3. SubSeq(up', 1, taken') = front
    BY <2>1
  <2> HIDE DEF front
  <2>4. n \in Nat
    BY <2>2, CountFacts, AnySeqFacts
  <2>5. AcksOf(sessions) \in Nat /\ AcksOf(sessions') \in Nat
    BY <1>1, <1>7, RegistryCounts DEF LinkOK
  <2> HIDE DEF n
  <2>6. AcksOf(sessions') <= n
    BY <1>7, <2>1, <2>4, <2>5
  <2>7. QED
    BY <2>3, <2>6 DEF CountedOK, n
<1>10. WrittenOK'
  <2>1. Count(up', A) = Count(up, A) /\ Acking' = Acking
    BY <1>3 DEF Acking
  <2>2. Count(up, A) + Acking + Count(wire, Orders) <= Len(out[Me])
    BY <1>1 DEF WrittenOK
  <2>3. Count(up', A) + Acking' + Count(wire', Orders) <= Len(out'[Me])
    BY <1>4, <1>6, <2>1, <2>2
  <2>4. QED
    BY <2>3 DEF WrittenOK
<1>11. QED
  BY <1>8, <1>9, <1>10 DEF BackedInv

\* The handler acts on a text: it counts an ACK for Self only for an ACK that names it.
LEMMA TextCounts ==
  ASSUME LinkOK, NEW v, HandleText(v)
  PROVE  /\ AllSessions(sessions') /\ AcksOf(sessions') <= AcksOf(sessions) + 1
         /\ \/ AcksOf(sessions') <= AcksOf(sessions)
            \/ /\ Parses(v, Now)
               /\ FromJson(v, Now)["type"] = "ack" /\ FromJson(v, Now)["client_id"] = Self
<1> DEFINE msg == FromJson(v, Now)
           id == msg["client_id"]
           Fewer == AllSessions(sessions') /\ AcksOf(sessions') <= AcksOf(sessions)
<1>1. AllSessions(sessions) /\ AcksOf(sessions) \in Nat
  BY RegistryCounts DEF LinkOK
<1>2. \/ \E c : Hello(Me, c)
      \/ HelloRaises(Me) \/ FrameRaises(Me) \/ Finish(Me) \/ UNCHANGED vars
      \/ Upstream(msg)
      \/ Parses(v, Now) /\ msg["type"] = "ack" /\ Ack(Me, id)
  BY DEF HandleText
<1> HIDE DEF msg, id
<1>3. ASSUME \/ UNCHANGED sessions
             \/ \E d : \/ sessions' = Registered(sessions, d, Now)
                      \/ sessions' = Unregistered(sessions, d)
      PROVE  Fewer
  <2>1. CASE UNCHANGED sessions
    BY <1>1, <2>1
  <2>2. ASSUME NEW d, \/ sessions' = Registered(sessions, d, Now)
                      \/ sessions' = Unregistered(sessions, d)
        PROVE  Fewer
    BY <1>1, <2>2, RegistryCounts
  <2>3. QED
    BY <1>3, <2>1, <2>2
<1>4. ASSUME NEW c, Hello(Me, c)
      PROVE  Fewer
  <2>1. sessions' = Registered(sessions, IdOf(c), Now)
    BY <1>4 DEF Hello
  <2>2. QED
    BY <1>3, <2>1
<1>5. ASSUME FrameRaises(Me) \/ Finish(Me)
      PROVE  Fewer
  <2>1. UNCHANGED sessions \/ sessions' = Unregistered(sessions, clientId[Me])
    BY <1>5 DEF FrameRaises, Finish, Ends, CleanUp, coreVars
  <2>2. QED
    BY <1>3, <2>1
<1>6. ASSUME HelloRaises(Me) \/ UNCHANGED vars \/ Upstream(msg)
      PROVE  Fewer
  <2>1. ASSUME NEW step, NEW targets, NEW addressees, CreateTask(Me, step, targets, addressees)
        PROVE  UNCHANGED sessions
    BY <2>1 DEF CreateTask, coreVars
  <2>2. QueryOnline(Me) \/ HelloRaises(Me) \/ UNCHANGED vars => UNCHANGED sessions
    BY DEF QueryOnline, HelloRaises, vars, coreVars
  <2>3. UNCHANGED sessions
    BY <1>6, <2>1, <2>2 DEF Upstream, Push, GroupPush, Broadcast
  <2>4. QED
    BY <1>3, <2>3
<1>7. CASE Parses(v, Now) /\ msg["type"] = "ack" /\ Ack(Me, id)
  <2>1. sessions' = CountedAck(sessions, id)
    BY <1>7 DEF Ack
  <2>2. /\ AllSessions(sessions') /\ AcksOf(sessions') <= AcksOf(sessions) + 1
        /\ id # Self => AcksOf(sessions') <= AcksOf(sessions)
    BY <1>1, <2>1, RegistryCounts
  <2>3. QED
    BY <1>7, <2>2 DEF msg, id
<1>8. Fewer => AcksOf(sessions') <= AcksOf(sessions) + 1
  <2>1. Fewer => AcksOf(sessions') \in Nat
    BY RegistryCounts
  <2>2. QED
    BY <1>1, <2>1
<1>9. QED
  BY <1>2, <1>4, <1>5, <1>6, <1>7, <1>8

\* The handler acts on a frame: it counts an ACK only for one of the client's or of its
\* application's.
LEMMA HandleCounts ==
  ASSUME LinkOK, EndTyped, taken < Len(up), Handle(up[taken + 1])
  PROVE  /\ AllSessions(sessions')
         /\ AcksOf(sessions') <= AcksOf(sessions)
              + (IF up[taken + 1] \in Client!AckFrames \cup OwnAcks THEN 1 ELSE 0)
<1> DEFINE f == up[taken + 1]
           v == TextOf(f)
           Own == /\ Parses(v, Now)
                  /\ FromJson(v, Now)["type"] = "ack" /\ FromJson(v, Now)["client_id"] = Self
<1>1. f[1] \in {"text", "ack"} /\ HandleText(v)
  BY DEF Handle
<1>2. /\ AllSessions(sessions') /\ AcksOf(sessions') <= AcksOf(sessions) + 1
      /\ AcksOf(sessions') <= AcksOf(sessions) \/ Own
  BY <1>1, TextCounts
<1>3. f[1] = "ack" => f \in Client!AckFrames
  <2>1. taken + 1 \in 1..Len(up)
    BY DEF EndTyped
  <2>2. QED
    BY <2>1 DEF LinkOK
<1>4. f[1] = "text" /\ Own => f \in OwnAcks
  <2>1. SUFFICES ASSUME f[1] = "text", Own
                 PROVE  f \in OwnAcks
    OBVIOUS
  <2>2. PICK x \in UNION {Range(s) : s \in Scripts} : f = <<"text", x>>
    BY <2>1, TextIsScripted
  <2>3. f = Client!TextFrame(x) /\ f[2] = v
    BY <2>1, <2>2 DEF TextOf, Client!TextFrame
  <2>4. QED
    BY <2>1, <2>2, <2>3 DEF OwnAcks
<1>5. AcksOf(sessions) \in Nat
  BY RegistryCounts DEF LinkOK
<1> HIDE DEF Own, v, f
<1>6. AcksOf(sessions') <= AcksOf(sessions)
        + (IF f \in Client!AckFrames \cup OwnAcks THEN 1 ELSE 0)
  BY <1>1, <1>2, <1>3, <1>4, <1>5
<1>7. QED
  BY <1>2, <1>6 DEF f

\* What the handler makes of a frame keeps the invariant.
LEMMA TakeFrameKeeps ==
  ASSUME BackedInv, EndTyped, TakeFrame
  PROVE  BackedInv'
<1> DEFINE A == Client!AckFrames
           f == up[taken + 1]
           front == SubSeq(up, 1, taken)
           more == SubSeq(up, 1, taken + 1)
<1>1. /\ LinkOK /\ CountedOK /\ WrittenOK
      /\ AnySeq(up) /\ Len(up) \in Nat /\ taken \in 0..Len(up) /\ taken < Len(up)
      /\ taken' = taken + 1 /\ UNCHANGED <<up, thread, hand>>
  BY LinkCounts DEF BackedInv, LinkOK, TakeFrame, insideVars
<1>2. /\ UNCHANGED out /\ AllSessions(sessions')
      /\ AcksOf(sessions') <= AcksOf(sessions) + (IF f \in A \cup OwnAcks THEN 1 ELSE 0)
  BY <1>1, HandleCounts, HandleWritesNothing DEF TakeFrame
<1>3. AcksOf(sessions) \in Nat /\ AcksOf(sessions') \in Nat
  BY <1>1, <1>2, RegistryCounts DEF LinkOK
<1>4. AnySeq(wire') /\ Count(wire', Orders) = Count(wire, Orders)
  <2>1. wire' = wire \/ wire' = Append(wire, Client!Data(Reply))
    BY DEF TakeFrame
  <2>2. Client!Data(Reply) \notin Orders
    BY GatewayAssumption DEF Orders, Client!Data, Reply
  <2>3. AnySeq(wire) /\ Count(wire, Orders) \in Nat
    BY <1>1, LinkCounts DEF LinkOK
  <2> DEFINE x == Client!Data(Reply)
  <2> HIDE DEF x
  <2>4. AnySeq(Append(wire, x))
    BY <2>3, AnySeqFacts
  <2>5. Count(Append(wire, x), Orders) = Count(wire, Orders) + (IF x \in Orders THEN 1 ELSE 0)
    BY <2>3, CountFacts
  <2>6. x \notin Orders
    BY <2>2 DEF x
  <2>7. Count(Append(wire, x), Orders) = Count(wire, Orders)
    BY <2>3, <2>5, <2>6
  <2>8. wire' = wire \/ wire' = Append(wire, x)
    BY <2>1 DEF x
  <2>9. QED
    BY <2>3, <2>4, <2>7, <2>8
<1>5. more = Append(front, f) /\ AnySeq(front)
  <2>1. AnySeq(front)
    BY <1>1, AnySeqFacts
  <2>2. PICK T : up \in Seq(T)
    BY <1>1 DEF AnySeq
  <2>3. more = Append(front, f)
    BY <1>1, <2>2
  <2>4. QED
    BY <2>1, <2>3
<1>6. LinkOK'
  BY <1>1, <1>2, <1>4 DEF LinkOK
<1>7. CountedOK'
  <2>1. AcksOf(sessions) <= Count(front, A) + Count(front, OwnAcks)
    BY <1>1 DEF CountedOK
  <2> HIDE DEF f, front, more, A
  <2>2. /\ Count(more, A) = Count(front, A) + (IF f \in A THEN 1 ELSE 0)
        /\ Count(more, OwnAcks) = Count(front, OwnAcks) + (IF f \in OwnAcks THEN 1 ELSE 0)
    BY <1>5, CountFacts
  <2>3. Count(front, A) \in Nat /\ Count(front, OwnAcks) \in Nat
    BY <1>5, CountFacts, AnySeqFacts
  <2>4. AcksOf(sessions') <= Count(more, A) + Count(more, OwnAcks)
    BY <1>2, <1>3, <2>1, <2>2, <2>3
  <2>5. more = SubSeq(up', 1, taken')
    BY <1>1 DEF more
  <2>6. QED
    BY <2>4, <2>5 DEF CountedOK, A
<1>8. WrittenOK'
  <2>1. /\ Count(up', A) = Count(up, A) /\ Acking' = Acking
        /\ Count(wire', Orders) = Count(wire, Orders) /\ Len(out'[Me]) = Len(out[Me])
    BY <1>1, <1>2, <1>4 DEF Acking
  <2>2. Count(up, A) + Acking + Count(wire, Orders) <= Len(out[Me])
    BY <1>1 DEF WrittenOK
  <2>3. Count(up', A) + Acking' + Count(wire', Orders) <= Len(out'[Me])
    BY <2>1, <2>2
  <2>4. QED
    BY <2>3 DEF WrittenOK
<1>9. QED
  BY <1>6, <1>7, <1>8 DEF BackedInv

-----------------------------------------------------------------------------
\* acks_received counts nothing but frames that were written to the client, and the
\* ACKs that the application may have written itself: record_ack_received is called
\* for a text of type ack alone, the client's _recv_loop writes one for a downstream
\* message that it took off the wire, and _send_message put that there once.  For
\* any scripts that ScriptAssumption admits, with texts of every type and what is no
\* message; at any time, with ACKs still on their way or being written, and with a
\* connection that is lost, or that a handler leaves by an exception, at any point.
THEOREM AcksAreBacked == EndSpec => []AcksBackedByFrames
<1>1. EndInit => EndTyped /\ BackedInv
  BY InitEndTyped, InitBackedInv
<1>2. EndTyped /\ BackedInv /\ [EndNext]_endVars => EndTyped' /\ BackedInv'
  <2> SUFFICES ASSUME EndTyped, BackedInv, [EndNext]_endVars
               PROVE  BackedInv'
    BY StepEndTyped
  <2>0. EndTyped'
    BY StepEndTyped
  <2>1. CASE UNCHANGED endVars
    BY <2>1, StillBacked DEF endVars, vars, coreVars, taskVars, insideVars, linkVars
  <2>2. CASE Connected
    BY <2>2, StillBacked DEF Connected, Connect, coreVars, taskVars, insideVars, linkVars
  <2>3. CASE ClientNext
    <3>1. UNCHANGED <<vars, script, taken>>
      BY <2>3 DEF ClientNext, ClientStep
    <3>2. Client!ReceiveThread \/ SendNext \/ Client!CloseNothing \/ Client!CloseConnection
            \/ Client!Closing
      BY <2>3 DEF ClientNext, ClientStep
    <3>3. LinkOK
      BY DEF BackedInv
    <3>4. Moves
      BY <3>2, <3>3, ThreadMoves, ApplicationMoves
    <3>5. QED
      BY <3>1, <3>4, MovesKeep
  <2>4. CASE HandshakeEnds \/ LinkBreaks \/ GatewayFails
    BY <2>4, LinkEnds
  <2>5. CASE TakeFrame
    BY <2>5, TakeFrameKeeps
  <2>6. CASE GatewayNext
    BY <2>0, <2>6, GatewayKeeps
  <2>7. QED
    BY <2>1, <2>2, <2>3, <2>4, <2>5, <2>6 DEF EndNext
<1>3. BackedInv => AcksBackedByFrames
  BY BackedInvBacks
<1>4. QED
  BY <1>1, <1>2, <1>3, PTL DEF EndSpec
=============================================================================
