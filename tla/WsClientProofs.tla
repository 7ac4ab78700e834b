---------------------------- MODULE WsClientProofs ----------------------------
(***************************************************************************)
(* Proofs about WsClient: that a client that was closed leaves no open     *)
(* socket, that a message is acknowledged once and before it is seen, and  *)
(* that the messages come out once, in order and complete.                 *)
(***************************************************************************)
EXTENDS WsClient, SubsequencesProofs

\* TypeOK, and nothing is collected by a call that is over.
TypeInv ==
  /\ TypeOK
  /\ caller # "receiving" => results = <<>>

\* What has been said on the connection, on its way to the client still, the
\* gateway's end knows of; a connection that the library calls closed is, or is
\* about to be, unless it was the gateway that closed it.
LinkInv ==
  /\ TypeInv
  /\ \A i \in 1..Len(wire) :
       /\ wire[i] = <<"close">> => peer # "open"
       /\ wire[i] \in Ends => peer = "gone"
  /\ ~connected => sock = "closed" \/ peer # "open" \/ caller \in {"closing", "drain"}
  /\ NoLiveSocketLeft

\* Whether it asks or not, a downstream message is acknowledged once, in the order of
\* arrival and before the application can see it, and nothing else is.
AckedEach ==
  sock = "open" /\ peer # "gone" =>
    Only(up, AckFrames) = IF AutoAcks THEN AcksFor(Only(Seen, Downstream)) ELSE <<>>

AcksInv ==
  /\ TypeInv
  /\ thread = "ack" => AutoAcks /\ hand \in Downstream
  /\ AckedEach
  /\ AcksKeepPace

\* All the messages that are in the client or still reach it, in their order.
Stream == Got \o InHand \o OnTheWire

Increasing(q) == \A i, j \in 1..Len(q) : i < j => q[i] < q[j]

\* Before the client closes and without a reset, none is missing.
NoneMissing == caller \in {"idle", "receiving", "watching"} /\ ~WasReset

StreamInv ==
  /\ TypeInv
  /\ Increasing(Stream)
  /\ \A i \in 1..Len(Stream) : Stream[i] <= sent
  /\ NoneMissing => Stream = [i \in 1..sent |-> i]

-----------------------------------------------------------------------------
(* Types *)

LEMMA SendsType ==
  ASSUME up \in Seq(Frames), NEW f \in Frames, Sends(f)
  PROVE  up' \in Seq(Frames)
BY DEF Sends, Writes, SendFails

LEMMA TypeInvInit == Init => TypeInv
<1> SUFFICES ASSUME Init PROVE TypeInv
  OBVIOUS
<1>1. /\ <<>> \in Seq(WireItems) /\ <<>> \in Seq(Frames) /\ <<>> \in Seq({"close"})
      /\ <<>> \in Seq(Messages \cup {ErrorText})
  OBVIOUS
<1>2. QED
  BY <1>1, ClientAssumption DEF Init, TypeInv, TypeOK, NoLimit

LEMMA TypeInvStep == TypeInv /\ [Next]_vars => TypeInv'
<1> SUFFICES ASSUME TypeInv, [Next]_vars PROVE TypeInv'
  OBVIOUS
<1> USE DEF TypeInv, TypeOK, connVars, netVars, queueVars, callVars
<1>t. /\ TypeOK /\ (caller # "receiving" => results = <<>>)
  OBVIOUS
<1>w. /\ \A n \in Messages : Data(n) \in WireItems
      /\ <<"ping">> \in WireItems /\ <<"garbled">> \in WireItems /\ <<"close">> \in WireItems
      /\ <<"eof">> \in WireItems /\ <<"reset">> \in WireItems
  BY DEF WireItems, DataItems, Ends
<1>f. /\ \A n \in Messages \cup {EmptyId} : AckFrame(n) \in Frames
      /\ \A x \in Texts : TextFrame(x) \in Frames
      /\ <<"pong">> \in Frames /\ <<"close">> \in Frames
  BY DEF Frames, AckFrames
<1>s. wire # <<>> => Tail(wire) \in Seq(WireItems)
  OBVIOUS
<1>u. up \in Seq(Frames)
  OBVIOUS
<1>e. ErrorText \in Messages \cup {ErrorText} /\ ErrorText = 0 /\ EmptyId = 0 /\ 0 \notin Messages
  BY ClientAssumption DEF ErrorText, EmptyId, Messages
<1>1. CASE LoopTest
  BY <1>1 DEF LoopTest
<1>2. CASE EnterRecv
  BY <1>2 DEF EnterRecv
<1>3. CASE RecvData
  BY <1>3, <1>s, <1>e DEF RecvData, Receiving, Arrives
<1>4. CASE SendAck
  <2>1. AckId(hand) \in Messages \cup {EmptyId}
    BY <1>4, <1>e DEF SendAck, AckId
  <2>2. up' \in Seq(Frames)
    BY <1>4, <1>f, <1>u, SendsType, <2>1 DEF SendAck
  <2>3. QED
    BY <1>4, <2>2 DEF SendAck
<1>5. CASE PutMessage
  BY <1>5, <1>e DEF PutMessage
<1>6. CASE RecvPing
  <2>1. up' \in Seq(Frames)
    BY <1>6, <1>f, <1>u, SendsType DEF RecvPing, Sends
  <2>2. QED
    BY <1>6, <1>s, <2>1 DEF RecvPing, Receiving, Arrives
<1>7. CASE SendPong
  <2>1. up' \in Seq(Frames)
    BY <1>7, <1>f, <1>u, SendsType DEF SendPong
  <2>2. QED
    BY <1>7, <2>1 DEF SendPong
<1>8. CASE RecvClose
  <2>1. up' \in Seq(Frames)
    BY <1>8, <1>f, <1>u, SendsType DEF RecvClose, Sends
  <2>2. opcodes \in Seq({"close"}) /\ opcodes' \in {opcodes, Append(opcodes, "close")}
    BY <1>8 DEF RecvClose
  <2>3. Append(opcodes, "close") \in Seq({"close"})
    BY <2>2
  <2>4. opcodes' \in Seq({"close"})
    BY <2>2, <2>3
  <2>5. QED
    BY <1>8, <1>s, <2>1, <2>4 DEF RecvClose, Receiving, Arrives
<1>9. CASE RecvGarbled
  <2>1. messages' \in Seq(Messages \cup {ErrorText})
    <3>1. messages \in Seq(Messages \cup {ErrorText})
      BY <1>t
    <3>2. Append(messages, ErrorText) \in Seq(Messages \cup {ErrorText})
      BY <1>e, <3>1
    <3>3. messages' = Append(messages, ErrorText) \/ messages' = messages
      BY <1>9 DEF RecvGarbled
    <3>4. QED
      BY <3>1, <3>2, <3>3
  <2>2. QED
    BY <1>9, <1>s, <2>1 DEF RecvGarbled, Receiving, Arrives
<1>10. CASE RecvEnd
  BY <1>10 DEF RecvEnd, Receiving
<1>11. CASE RecvFails
  BY <1>11 DEF RecvFails, Receiving
<1>12. ASSUME NEW x \in Texts, SendText(x)
       PROVE  TypeInv'
  <2>1. up' \in Seq(Frames)
    BY <1>12, <1>f, <1>u, SendsType DEF SendText
  <2>2. texts' \in 0..MaxTexts
    BY <1>12, ClientAssumption DEF SendText
  <2>3. QED
    BY <1>12, <2>1, <2>2 DEF SendText
<1>13. ASSUME NEW n \in Counts, StartReceive("receiving", n)
       PROVE  TypeInv'
  BY <1>13, ClientAssumption DEF StartReceive, NoLimit
<1>14. CASE StartReceive("watching", 1)
  BY <1>14, ClientAssumption DEF StartReceive, NoLimit
<1>15. CASE GetMessage
  <2> DEFINE r == Append(results, Head(messages))
  <2>1. r \in Seq(Messages \cup {ErrorText}) /\ Tail(messages) \in Seq(Messages \cup {ErrorText})
    BY <1>15 DEF GetMessage
  <2>2. Collected(r)
    BY <1>15 DEF GetMessage
  <2> HIDE DEF r
  <2>3. /\ returned' \in Seq(Messages \cup {ErrorText})
        /\ results' \in Seq(Messages \cup {ErrorText})
        /\ want' \in 0..NoLimit
        /\ caller' \in {"idle", "receiving"}
        /\ (caller' = "receiving" => Len(results') < want')
        /\ (caller' # "receiving" => results' = <<>>)
    <3>1. CASE Len(r) < want
      BY <1>15, <2>1, <2>2, <3>1 DEF GetMessage, Collected
    <3>2. CASE ~(Len(r) < want)
      <4>1. 0 \in 0..NoLimit /\ <<>> \in Seq(Messages \cup {ErrorText})
        BY ClientAssumption DEF NoLimit
      <4>2. returned \o r \in Seq(Messages \cup {ErrorText})
        BY <2>1
      <4>3. QED
        BY <2>2, <3>2, <4>1, <4>2 DEF Collected
    <3>3. QED
      BY <3>1, <3>2
  <2>4. QED
    BY <1>15, <2>1, <2>3 DEF GetMessage
<1>16. CASE GetOpcode
  BY <1>16, ClientAssumption DEF GetOpcode, NoLimit
<1>17. CASE GiveUp
  BY <1>17, ClientAssumption DEF GiveUp, NoLimit
<1>18. CASE CloseNothing
  BY <1>18 DEF CloseNothing
<1>19. CASE CloseConnection
  <2>1. up' \in Seq(Frames)
    BY <1>19, <1>f, <1>u, SendsType DEF CloseConnection, Sends
  <2>2. QED
    BY <1>19, <2>1 DEF CloseConnection
<1>20. CASE EnterDrain
  BY <1>20 DEF EnterDrain
<1>21. CASE DrainFrame
  BY <1>21, <1>s DEF DrainFrame, Arrives
<1>22. CASE DrainEnds
  BY <1>22 DEF DrainEnds
<1>23. CASE GatewaySends
  <2>1. sent' \in Messages /\ sent' \in 0..MaxSent
    BY <1>23, ClientAssumption DEF GatewaySends, Messages
  <2>2. wire' \in Seq(WireItems)
    BY <1>23, <1>w, <2>1 DEF GatewaySends
  <2>3. QED
    BY <1>23, <2>1, <2>2 DEF GatewaySends
<1>24. CASE GatewayPings
  BY <1>24, <1>w, ClientAssumption DEF GatewayPings
<1>25. CASE GatewayGarbles
  BY <1>25, <1>w, ClientAssumption DEF GatewayGarbles
<1>26. CASE GatewayCloses
  BY <1>26, <1>w DEF GatewayCloses
<1>27. CASE GatewayEnds
  <2>1. wire \in Seq(WireItems) /\ <<<<"close">>, <<"eof">>>> \in Seq(WireItems)
    BY <1>w
  <2>2. \/ \E x \in WireItems : wire' = Append(wire, x)
        \/ \E t \in Seq(WireItems) : wire' = wire \o t
    BY <1>27, <1>w, <2>1 DEF GatewayEnds
  <2>3. wire' \in Seq(WireItems)
    <3>1. ASSUME NEW x \in WireItems, wire' = Append(wire, x)
          PROVE  wire' \in Seq(WireItems)
      BY <2>1, <3>1
    <3>2. ASSUME NEW t \in Seq(WireItems), wire' = wire \o t
          PROVE  wire' \in Seq(WireItems)
      BY <2>1, <3>2
    <3>3. QED
      BY <2>2, <3>1, <3>2
  <2>4. QED
    BY <1>27, <2>3 DEF GatewayEnds
<1>28. CASE ConnectionLost
  <2>1. \A k \in 0..Len(wire) : SubSeq(wire, 1, k) \in Seq(WireItems)
    OBVIOUS
  <2>2. \E s \in Seq(WireItems), x \in WireItems : wire' = Append(s, x)
    BY <1>28, <1>w, <2>1 DEF ConnectionLost
  <2>3. wire' \in Seq(WireItems)
    BY <2>2
  <2>4. QED
    BY <1>28, <2>3 DEF ConnectionLost
<1>29. CASE UNCHANGED vars
  BY <1>29 DEF vars
<1>30. QED
  BY <1>1, <1>2, <1>3, <1>4, <1>5, <1>6, <1>7, <1>8, <1>9, <1>10, <1>11, <1>12, <1>13, <1>14,
     <1>15, <1>16, <1>17, <1>18, <1>19, <1>20, <1>21, <1>22, <1>23, <1>24, <1>25, <1>26, <1>27,
     <1>28, <1>29
     DEF Next, ReceiveThread, Application, Closing, Gateway

\* The state is made of the frames, queues and thread positions of ws_client.py:
\* whatever the arguments of the constructor, and however many messages come.
THEOREM TypeCorrect == Spec => []TypeOK
<1>1. TypeInv => TypeOK
  BY DEF TypeInv
<1>2. QED
  BY <1>1, TypeInvInit, TypeInvStep, PTL DEF Spec

-----------------------------------------------------------------------------
(* Closing *)

\* The client takes frames from the head of what is on its way, and leaves the
\* other end alone.
LEMMA ClientOnlyReads ==
  ASSUME ReceiveThread \/ Application
  PROVE  /\ peer' = peer /\ sent' = sent
         /\ wire' = wire \/ (wire # <<>> /\ wire' = Tail(wire))
<1> USE DEF netVars
<1>1. CASE ReceiveThread
  BY <1>1 DEF ReceiveThread, LoopTest, EnterRecv, RecvData, SendAck, PutMessage, RecvPing,
     SendPong, RecvClose, RecvGarbled, RecvEnd, RecvFails, Arrives
<1>2. CASE Application
  BY <1>2 DEF Application, SendText, StartReceive, GetMessage, GetOpcode, GiveUp, CloseNothing,
     CloseConnection, Closing, EnterDrain, DrainFrame, DrainEnds, Arrives
<1>3. QED
  BY <1>1, <1>2

LEMMA LinkInvInit == Init => LinkInv
BY TypeInvInit DEF Init, LinkInv, NoLiveSocketLeft

\* A CLOSE on its way is one that the gateway's end has sent, and the end of the
\* stream is behind everything else.
LEMMA WireEndsStep ==
  ASSUME LinkInv, TypeInv', [Next]_vars
  PROVE  \A i \in 1..Len(wire') :
           /\ wire'[i] = <<"close">> => peer' # "open"
           /\ wire'[i] \in Ends => peer' = "gone"
<1> DEFINE Said(x, p) == (x = <<"close">> => p # "open") /\ (x \in Ends => p = "gone")
<1>0. /\ wire \in Seq(WireItems) /\ peer \in {"open", "closing", "gone"}
      /\ \A i \in 1..Len(wire) : Said(wire[i], peer)
  BY DEF LinkInv, TypeInv, TypeOK
<1>g. \A x : Said(x, "gone")
  OBVIOUS
<1>d. \A n \in Messages : Said(Data(n), "open")
  BY DEF Data, Ends
<1>o. Said(<<"ping">>, "open") /\ Said(<<"garbled">>, "open") /\ Said(<<"close">>, "closing")
  BY DEF Ends
<1> SUFFICES \A i \in 1..Len(wire') : Said(wire'[i], peer')
  OBVIOUS
<1> HIDE DEF Said
<1>a. ASSUME NEW x, Said(x, peer), wire' = Append(wire, x), peer' = peer
      PROVE  \A i \in 1..Len(wire') : Said(wire'[i], peer')
  BY <1>0, <1>a
<1>1. CASE ReceiveThread \/ Application
  BY <1>0, <1>1, ClientOnlyReads
<1>2. CASE GatewaySends
  <2>a. sent \in 0..MaxSent /\ sent < MaxSent /\ sent' = sent + 1
    BY <1>2 DEF GatewaySends, LinkInv, TypeInv, TypeOK
  <2>1. sent' \in Messages
    BY <2>a, ClientAssumption DEF Messages
  <2>2. QED
    BY <1>2, <1>a, <1>d, <2>1 DEF GatewaySends
<1>3. CASE GatewayPings \/ GatewayGarbles
  BY <1>3, <1>a, <1>o DEF GatewayPings, GatewayGarbles
<1>4. CASE GatewayCloses
  <2>1. \A i \in 1..Len(wire) : Said(wire[i], "closing")
    BY <1>0, <1>4 DEF GatewayCloses, Said
  <2>2. wire' = Append(wire, <<"close">>) /\ peer' = "closing"
    BY <1>4 DEF GatewayCloses
  <2>3. QED
    BY <1>0, <1>o, <2>1, <2>2
<1>5. CASE GatewayEnds \/ ConnectionLost
  BY <1>5, <1>g DEF GatewayEnds, ConnectionLost
<1>6. CASE UNCHANGED vars
  BY <1>0, <1>6 DEF vars, netVars
<1>7. QED
  BY <1>1, <1>2, <1>3, <1>4, <1>5, <1>6 DEF Next, Gateway

LEMMA LinkInvStep == LinkInv /\ [Next]_vars => LinkInv'
<1> SUFFICES ASSUME LinkInv, [Next]_vars PROVE LinkInv'
  OBVIOUS
<1> DEFINE Shut == ~connected => sock = "closed" \/ peer # "open" \/ caller \in {"closing", "drain"}
<1>0. TypeInv /\ NoLiveSocketLeft /\ Shut
  BY DEF LinkInv
<1>t. TypeInv'
  BY <1>0, TypeInvStep
<1>w. \A i \in 1..Len(wire') : /\ wire'[i] = <<"close">> => peer' # "open"
                               /\ wire'[i] \in Ends => peer' = "gone"
  BY <1>t, WireEndsStep
<1> SUFFICES Shut' /\ NoLiveSocketLeft'
  BY <1>t, <1>w DEF LinkInv
<1>s. sock \in {"open", "closed"} /\ connected \in BOOLEAN
  BY <1>0 DEF TypeInv, TypeOK
<1>p. ReceiveThread \/ Application => peer' = peer
  BY ClientOnlyReads
<1>c. CASE UNCHANGED <<connected, sock, caller>> /\ (peer' = peer \/ peer' # "open")
  BY <1>0, <1>c DEF NoLiveSocketLeft
<1> USE DEF connVars, callVars, netVars
<1>1. CASE LoopTest \/ EnterRecv \/ RecvData \/ SendAck \/ PutMessage \/ RecvPing \/ SendPong
           \/ RecvGarbled \/ RecvFails
  BY <1>1, <1>c, <1>p DEF ReceiveThread, LoopTest, EnterRecv, RecvData, SendAck, PutMessage,
     RecvPing, SendPong, RecvGarbled, RecvFails
<1>2. CASE RecvClose
  <2>1. wire[1] = <<"close">> /\ 1 \in 1..Len(wire)
    BY <1>0, <1>2 DEF RecvClose, Arrives, TypeInv, TypeOK
  <2>2. peer # "open"
    BY <2>1 DEF LinkInv
  <2>3. QED
    BY <1>0, <1>2, <2>2 DEF RecvClose, NoLiveSocketLeft
<1>3. CASE RecvEnd
  BY <1>3 DEF RecvEnd, NoLiveSocketLeft
<1>4. CASE (\E x \in Texts : SendText(x)) \/ (\E n \in Counts : StartReceive("receiving", n))
           \/ StartReceive("watching", 1) \/ GetMessage \/ GetOpcode \/ GiveUp
  <2>1. UNCHANGED <<connected, sock>> /\ caller \notin {"closing", "drain", "closed"}
    BY <1>4 DEF SendText, StartReceive, GetMessage, GetOpcode, GiveUp
  <2>2. caller' \notin {"closing", "drain", "closed"}
    BY <1>4, <2>1 DEF SendText, StartReceive, GetMessage, Collected, GetOpcode, GiveUp
  <2>3. peer' = peer
    BY <1>4, <1>p DEF Application
  <2>4. QED
    BY <1>0, <2>1, <2>2, <2>3 DEF NoLiveSocketLeft
<1>5. CASE CloseNothing
  BY <1>0, <1>5 DEF CloseNothing, NoLiveSocketLeft
<1>6. CASE CloseConnection
  BY <1>6 DEF CloseConnection, NoLiveSocketLeft
<1>7. CASE EnterDrain
  BY <1>7 DEF EnterDrain, NoLiveSocketLeft
<1>8. CASE DrainFrame
  BY <1>8 DEF DrainFrame, NoLiveSocketLeft
<1>9. CASE DrainEnds
  BY <1>9 DEF DrainEnds, NoLiveSocketLeft
<1>10. CASE Gateway
  BY <1>10, <1>c DEF Gateway, GatewaySends, GatewayPings, GatewayGarbles, GatewayCloses,
     GatewayEnds, ConnectionLost
<1>11. CASE UNCHANGED vars
  BY <1>11, <1>c DEF vars
<1>12. QED
  BY <1>1, <1>2, <1>3, <1>4, <1>5, <1>6, <1>7, <1>8, <1>9, <1>10, <1>11
     DEF Next, ReceiveThread, Application, Closing

\* However the receive thread had left the connection, and whenever the gateway
\* closed or went, a client that close() has returned for holds no open socket to
\* a gateway that has not closed (NoLiveSocketLeft).
THEOREM ClosedClientIsClosed == Spec => []NoLiveSocketLeft
<1>1. LinkInv => NoLiveSocketLeft
  BY DEF LinkInv
<1>2. QED
  BY <1>1, LinkInvInit, LinkInvStep, PTL DEF Spec

-----------------------------------------------------------------------------
(* The application's messages *)

LEMMA GotType == TypeInv => Got \in Seq(Messages)
<1> SUFFICES ASSUME TypeInv PROVE Got \in Seq(Messages)
  OBVIOUS
<1> DEFINE T == Messages \cup {ErrorText}
           all == returned \o results \o messages
<1>1. all \in Seq(T)
  BY DEF TypeInv, TypeOK
<1>2. Messages \cap T = Messages
  OBVIOUS
<1> HIDE DEF T, all
<1>3. Only(all, Messages) \in Seq(Messages \cap T)
  BY <1>1, OnlyType
<1>4. QED
  BY <1>2, <1>3 DEF Got, all

\* What a call does with the queue keeps every message, and its place.
LEMMA CollectingKeeps ==
  ASSUME TypeInv, GetMessage \/ GiveUp
  PROVE  Got' = Got
<1> DEFINE T == Messages \cup {ErrorText}
<1>0. returned \in Seq(T) /\ results \in Seq(T) /\ messages \in Seq(T)
  BY DEF TypeInv, TypeOK
<1> HIDE DEF T
<1>1. CASE GetMessage
  <2> DEFINE x == Head(messages)
             rest == Tail(messages)
             r == Append(results, x)
  <2>1. x \in T /\ rest \in Seq(T) /\ messages = <<x>> \o rest
    BY <1>0, <1>1 DEF GetMessage
  <2>2. /\ messages' = rest
        /\ \/ results' = r /\ returned' = returned
           \/ results' = <<>> /\ returned' = returned \o r
    BY <1>1 DEF GetMessage, Collected
  <2> HIDE DEF x, rest
  <2> DEFINE got == returned \o results
             more == Append(got, x)
  <2>3. got \in Seq(T) /\ more \in Seq(T)
    BY <1>0, <2>1
  <2>4. returned \o r = more
    BY <1>0, <2>1
  <2> HIDE DEF got
  <2>5. more \o rest = got \o messages
    BY <1>0, <2>1, <2>3
  <2> HIDE DEF more, r
  <2>6. more \o <<>> = more
    BY <2>3
  <2>7. QED
    BY <2>2, <2>4, <2>5, <2>6 DEF Got, got
<1>2. CASE GiveUp
  <2>1. messages' = messages /\ results' = <<>> /\ returned' = returned \o results
    BY <1>2 DEF GiveUp, queueVars
  <2>2. (returned \o results) \o <<>> = returned \o results
    BY <1>0
  <2>3. QED
    BY <2>1, <2>2 DEF Got
<1>3. QED
  BY <1>1, <1>2

LEMMA GotAppend ==
  ASSUME TypeInv, NEW m \in Messages \cup {ErrorText},
         messages' = Append(messages, m), UNCHANGED <<results, returned>>
  PROVE  Got' = IF m \in Messages THEN Append(Got, m) ELSE Got
<1> DEFINE T == Messages \cup {ErrorText}
           all == returned \o results \o messages
<1>0. returned \in Seq(T) /\ results \in Seq(T) /\ messages \in Seq(T) /\ m \in T
  BY DEF TypeInv, TypeOK
<1> HIDE DEF T
<1>1. all \in Seq(T) /\ returned \o results \o Append(messages, m) = Append(all, m)
  BY <1>0
<1> HIDE DEF all
<1>2. Only(Append(all, m), Messages) = IF m \in Messages THEN Append(Only(all, Messages), m)
                                       ELSE Only(all, Messages)
  BY <1>0, <1>1, OnlyAppend
<1>3. QED
  BY <1>1, <1>2 DEF Got, all

\* The messages that the application has, or has in its queue, change only when
\* the receive thread puts one more there.
LEMMA GotStep ==
  ASSUME TypeInv, [Next]_vars
  PROVE  \/ PutMessage /\ hand \in Messages /\ Got' = Append(Got, hand)
         \/ ~PutMessage /\ Got' = Got
<1> USE DEF callVars, queueVars
<1>e. ErrorText \notin Messages
  BY ClientAssumption DEF ErrorText, Messages
<1>1. CASE PutMessage
  <2>1. hand \in Messages
    BY <1>1 DEF PutMessage, TypeInv, TypeOK
  <2>2. messages' = Append(messages, hand) /\ UNCHANGED <<results, returned>>
    BY <1>1 DEF PutMessage
  <2>3. QED
    BY <1>1, <2>1, <2>2, GotAppend
<1>2. SUFFICES ASSUME ~PutMessage PROVE Got' = Got
  BY <1>1
<1>3. CASE RecvGarbled
  <2>1. CASE messages' = Append(messages, ErrorText)
    BY <1>3, <1>e, <2>1, GotAppend DEF RecvGarbled
  <2>2. CASE messages' = messages
    BY <1>3, <2>2 DEF RecvGarbled, Got
  <2>3. QED
    BY <1>3, <2>1, <2>2 DEF RecvGarbled
<1>4. CASE GetMessage \/ GiveUp
  BY <1>4, CollectingKeeps
<1>5. CASE LoopTest \/ EnterRecv \/ RecvData \/ SendAck \/ RecvPing \/ SendPong \/ RecvClose
           \/ RecvEnd \/ RecvFails
  BY <1>5 DEF Got, LoopTest, EnterRecv, RecvData, SendAck, RecvPing, SendPong, RecvClose, RecvEnd,
     RecvFails
<1>6. CASE (\E x \in Texts : SendText(x)) \/ (\E n \in Counts : StartReceive("receiving", n))
           \/ StartReceive("watching", 1) \/ GetOpcode \/ CloseNothing \/ CloseConnection \/ Closing
  BY <1>6 DEF Got, SendText, StartReceive, GetOpcode, CloseNothing, CloseConnection, Closing,
     EnterDrain, DrainFrame, DrainEnds
<1>7. CASE Gateway
  BY <1>7 DEF Got, Gateway, GatewaySends, GatewayPings, GatewayGarbles, GatewayCloses, GatewayEnds,
     ConnectionLost
<1>8. CASE UNCHANGED vars
  BY <1>8 DEF Got, vars
<1>9. QED
  BY <1>2, <1>3, <1>4, <1>5, <1>6, <1>7, <1>8 DEF Next, ReceiveThread, Application

-----------------------------------------------------------------------------
(* ACKs *)

\* While the connection lasts, a frame that is written is written last, and it is
\* an ACK or changes nothing about the ACKs.
LEMMA SendsAcks ==
  ASSUME TypeInv, NEW f \in Frames, Sends(f), sock = "open" /\ peer # "gone"
  PROVE  Only(up', AckFrames) = IF f \in AckFrames THEN Append(Only(up, AckFrames), f)
                                ELSE Only(up, AckFrames)
<1>1. up \in Seq(Frames) /\ up' = Append(up, f)
  BY DEF TypeInv, TypeOK, Sends, Writes, SendFails
<1>2. QED
  BY <1>1, OnlyAppend

LEMMA OtherFrames ==
  /\ \A x \in Texts : TextFrame(x) \in Frames \ AckFrames
  /\ <<"pong">> \in Frames \ AckFrames /\ <<"close">> \in Frames \ AckFrames
BY DEF Frames, AckFrames, AckFrame, TextFrame

\* What a step may do to the receive thread's message and to what the client
\* has written: all but three leave the message alone and write no ACK.
OtherStep ==
  /\ \/ UNCHANGED <<thread, hand>>
     \/ thread \notin {"ack", "put"} /\ thread' \notin {"ack", "put"} /\ UNCHANGED hand
  /\ UNCHANGED up \/ \E f \in Frames \ AckFrames : Sends(f)

LEMMA ClientStep ==
  ASSUME [Next]_vars
  PROVE  /\ config' = config
         /\ sock' = "open" /\ peer' # "gone" => sock # "closed" /\ peer # "gone"
         /\ RecvData \/ SendAck \/ PutMessage \/ OtherStep
<1> USE OtherFrames DEF connVars, netVars
<1>1. CASE ReceiveThread
  BY <1>1 DEF ReceiveThread, LoopTest, EnterRecv, RecvData, SendAck, PutMessage, RecvPing, SendPong,
     RecvClose, RecvGarbled, RecvEnd, RecvFails, Receiving, OtherStep, Sends
<1>2. CASE Application
  BY <1>2 DEF Application, SendText, StartReceive, GetMessage, GetOpcode, GiveUp, CloseNothing,
     CloseConnection, Closing, EnterDrain, DrainFrame, DrainEnds, OtherStep, Sends
<1>3. CASE Gateway
  BY <1>3 DEF Gateway, GatewaySends, GatewayPings, GatewayGarbles, GatewayCloses, GatewayEnds,
     ConnectionLost, OtherStep
<1>4. CASE UNCHANGED vars
  BY <1>4 DEF vars, OtherStep
<1>5. QED
  BY <1>1, <1>2, <1>3, <1>4 DEF Next

\* A message is seen from when it is about to be put in the queue.
LEMMA SeenStep ==
  ASSUME TypeInv, [Next]_vars
  PROVE  \/ /\ thread # "put" /\ thread' = "put" /\ hand' \in Messages
            /\ Seen = Got /\ Seen' = Append(Got, hand')
         \/ (thread' # "put" \/ thread = "put") /\ Seen' = Seen
<1>0. /\ Got \in Seq(Messages) /\ TypeInv'
      /\ hand \in Messages \cup {0} /\ (hand # 0 <=> thread \in {"ack", "put"})
      /\ hand' \in Messages \cup {0} /\ (hand' # 0 <=> thread' \in {"ack", "put"})
  <2>1. TypeInv'
    BY TypeInvStep
  <2>2. QED
    BY <2>1, GotType DEF TypeInv, TypeOK
<1>e. Got \o <<>> = Got /\ \A n \in Messages : Got \o <<n>> = Append(Got, n)
  BY <1>0
<1>1. CASE PutMessage
  <2>1. thread = "put" /\ thread' = "test" /\ hand \in Messages /\ hand # 0
    BY <1>0, <1>1 DEF PutMessage
  <2>2. Got' = Append(Got, hand)
    BY <1>1, GotStep
  <2>3. Got' \o <<>> = Got'
    BY <1>0, <2>1, <2>2
  <2>4. QED
    BY <1>e, <2>1, <2>2, <2>3 DEF Seen, InHand
<1>2. CASE ~PutMessage
  <2>1. Got' = Got
    BY <1>2, GotStep
  <2>2. thread = "put" => thread' = "put" /\ hand' = hand
    BY <1>2, ClientStep DEF RecvData, Receiving, SendAck, OtherStep
  <2>3. CASE thread = "put"
    BY <2>1, <2>2, <2>3 DEF Seen, InHand
  <2>4. CASE thread # "put" /\ thread' # "put"
    BY <2>1, <2>4 DEF Seen
  <2>5. CASE thread # "put" /\ thread' = "put"
    BY <1>0, <1>e, <2>1, <2>5 DEF Seen, InHand
  <2>6. QED
    BY <2>3, <2>4, <2>5
<1>3. QED
  BY <1>1, <1>2

\* The ACKs that name a message that asks for one.
AskedFrames == {AckFrame(n) : n \in Asking}

LEMMA AcksInvInit == Init => AcksInv
<1> SUFFICES ASSUME Init PROVE AcksInv
  OBVIOUS
<1>1. TypeInv
  BY TypeInvInit
<1> DEFINE e == <<>>
<1>2. e \o e = e
  OBVIOUS
<1>3. up = e /\ thread = "test" /\ returned = e /\ results = e /\ messages = e
  BY DEF Init
<1>4. \A S : Only(e, S) = e
  BY OnlyEmpty
<1>5. Len(e) = 0
  OBVIOUS
<1> HIDE DEF e
<1>6. Seen = e
  BY <1>2, <1>3, <1>4 DEF Seen, Got, e
<1>7. AcksFor(e) = e
  BY <1>5 DEF AcksFor, e
<1>8. AcksDue = e /\ \A S : Only(up, S) = e
  BY <1>3, <1>4, <1>6, <1>7 DEF AcksDue, e
<1>9. AckedEach
  BY <1>4, <1>6, <1>7, <1>8 DEF AckedEach, e
<1>10. AcksKeepPace
  BY <1>5, <1>8 DEF AcksKeepPace, e
<1>11. QED
  BY <1>1, <1>3, <1>9, <1>10 DEF AcksInv

\* The ACKs for q, and one more for the next message of it.
LEMMA AcksForOneMore ==
  ASSUME NEW q \in Seq(Messages), NEW n \in Messages
  PROVE  /\ AcksFor(Append(q, n)) = Append(AcksFor(q), AckFrame(AckId(n)))
         /\ AcksFor(q) \in Seq(AckFrames) /\ Len(AcksFor(q)) = Len(q)
<1>1. \A m \in Messages : AckFrame(AckId(m)) \in AckFrames
  BY DEF AckFrames, AckId
<1>2. QED
  BY <1>1 DEF AcksFor

\* What is due to messages of set S, when the next message that is seen is n.
LEMMA DueOneMore ==
  ASSUME TypeInv, NEW S \in SUBSET Messages, NEW n \in Messages
  PROVE  /\ n \in S => AcksFor(Only(Append(Got, n), S))
                         = Append(AcksFor(Only(Got, S)), AckFrame(AckId(n)))
         /\ n \notin S => Only(Append(Got, n), S) = Only(Got, S)
         /\ AcksFor(Only(Got, S)) \in Seq(AckFrames)
<1>1. Got \in Seq(Messages)
  BY GotType
<1>2. Only(Append(Got, n), S) = IF n \in S THEN Append(Only(Got, S), n) ELSE Only(Got, S)
  BY <1>1, OnlyAppend
<1>3. Only(Got, S) \in Seq(S \cap Messages) /\ S \cap Messages \subseteq Messages
  BY <1>1, OnlyType
<1>4. Only(Got, S) \in Seq(Messages)
  BY <1>3, SeqMono
<1>5. QED
  BY <1>2, <1>4, AcksForOneMore

LEMMA AcksInvStep == AcksInv /\ [Next]_vars => AcksInv'
<1> SUFFICES ASSUME AcksInv, [Next]_vars PROVE AcksInv'
  OBVIOUS
<1>0. /\ TypeInv /\ TypeInv' /\ AckedEach /\ AcksKeepPace
      /\ thread = "ack" => AutoAcks /\ hand \in Downstream
  BY TypeInvStep DEF AcksInv
<1>a. AutoAcks' = AutoAcks /\ config' = config /\ \A q : AcksFor(q)' = AcksFor(q')
  BY ClientStep DEF AutoAcks, ShouldAutoAck, AcksFor, AckId
<1>b. thread' = "ack" => AutoAcks' /\ hand' \in Downstream
  BY <1>0, <1>a, ClientStep DEF RecvData, SendAck, PutMessage, OtherStep
<1> SUFFICES ASSUME sock' = "open", peer' # "gone" PROVE AckedEach' /\ AcksKeepPace'
  BY <1>0, <1>b DEF AcksInv, AckedEach, AcksKeepPace
<1> DEFINE Each(u, q) == Only(u, AckFrames) = IF AutoAcks THEN AcksFor(Only(q, Downstream)) ELSE <<>>
           Due(q) == IF AutoAcks THEN AcksFor(Only(q, Asking)) ELSE <<>>
           Pace(u, q) ==
             /\ ~config.ack_error => Only(u, AskedFrames) = Due(q)
             /\ config.ack_error => Len(Only(u, AckFrames)) >= Len(Due(q))
             /\ ~AutoAcks => Only(u, AckFrames) = <<>>
<1>c. sock = "open" /\ peer # "gone"
  BY <1>0, ClientStep DEF TypeInv, TypeOK
<1>d. Each(up, Seen) /\ Pace(up, Seen)
  BY <1>0, <1>c DEF AckedEach, AcksKeepPace, AcksDue, AskedFrames
<1>e. ASSUME Each(up', Seen'), Pace(up', Seen')
      PROVE  AckedEach' /\ AcksKeepPace'
  <2>1. AcksFor(Only(Seen, Downstream))' = AcksFor(Only(Seen', Downstream))
    BY <1>a DEF AcksFor, AckId
  <2>2. AcksFor(Only(Seen, Asking))' = AcksFor(Only(Seen', Asking))
    BY <1>a DEF AcksFor, AckId
  <2>3. AcksDue' = Due(Seen')
    BY <1>a, <2>2 DEF AcksDue
  <2>4. QED
    BY <1>a, <1>e, <2>1, <2>3 DEF AckedEach, AcksKeepPace, AskedFrames
<1> SUFFICES Each(up', Seen') /\ Pace(up', Seen')
  BY <1>e
<1>g. Downstream \in SUBSET Messages /\ Asking \in SUBSET Downstream /\ Asking \in SUBSET Messages
  BY ClientAssumption
<1>1. CASE SendAck
  <2>1. /\ thread = "ack" /\ thread' = "put" /\ hand' = hand
        /\ hand \in Messages /\ AutoAcks /\ hand \in Downstream
    BY <1>0, <1>1, ClientAssumption DEF SendAck, TypeInv, TypeOK
  <2>2. Seen = Got /\ Seen' = Append(Got, hand)
    BY <1>0, <2>1, SeenStep
  <2> DEFINE ack == AckFrame(AckId(hand))
  <2>3. /\ ack \in Frames /\ ack \in AckFrames /\ Sends(ack)
        /\ ~config.ack_error => (ack \in AskedFrames <=> hand \in Asking)
    BY <1>1, <2>1 DEF SendAck, AckFrames, AckFrame, Frames, AckId, AskedFrames
  <2> HIDE DEF ack
  <2>4. /\ up \in Seq(Frames) /\ up' = Append(up, ack)
    BY <1>0, <1>c, <2>3 DEF TypeInv, TypeOK, Sends, Writes, SendFails
  <2>5. /\ Only(up', AckFrames) = Append(Only(up, AckFrames), ack)
        /\ Only(up', AskedFrames) = IF ack \in AskedFrames THEN Append(Only(up, AskedFrames), ack)
                                    ELSE Only(up, AskedFrames)
    BY <2>3, <2>4, OnlyAppend
  <2>6. AcksFor(Only(Append(Got, hand), Downstream)) = Append(AcksFor(Only(Got, Downstream)), ack)
    BY <1>0, <1>g, <2>1, DueOneMore DEF ack
  <2>7. Due(Seen') = IF hand \in Asking THEN Append(Due(Seen), ack) ELSE Due(Seen)
    BY <1>0, <1>g, <2>1, <2>2, DueOneMore DEF ack
  <2>8. Due(Seen) \in Seq(AckFrames)
    BY <1>0, <1>g, <2>1, <2>2, DueOneMore
  <2>9. Only(up, AckFrames) \in Seq(AckFrames \cap Frames)
    BY <2>4, OnlyType
  <2> HIDE DEF Due
  <2>10. Each(up', Seen')
    BY <1>d, <2>1, <2>2, <2>5, <2>6
  <2>11. ~config.ack_error => Only(up', AskedFrames) = Due(Seen')
    BY <1>d, <2>3, <2>5, <2>7
  <2>12. config.ack_error => Len(Only(up', AckFrames)) >= Len(Due(Seen'))
    <3> DEFINE acks == Only(up, AckFrames)
               due == Due(Seen)
    <3>1. config.ack_error => Len(acks) >= Len(due)
      BY <1>d
    <3>2. acks \in Seq(AckFrames \cap Frames) /\ due \in Seq(AckFrames)
      BY <2>8, <2>9
    <3> HIDE DEF acks, due
    <3>3. Len(Append(acks, ack)) = Len(acks) + 1 /\ Len(Append(due, ack)) = Len(due) + 1
      BY <3>2
    <3>4. Len(acks) \in Nat /\ Len(due) \in Nat
      BY <3>2
    <3>5. QED
      BY <2>5, <2>7, <3>1, <3>3, <3>4 DEF acks, due
  <2>13. QED
    BY <2>1, <2>10, <2>11, <2>12
<1>2. CASE ~SendAck
  <2>1. \A S \in SUBSET AckFrames : Only(up', S) = Only(up, S)
    <3>1. UNCHANGED up \/ \E f \in Frames \ AckFrames : Sends(f)
      BY <1>2, ClientStep DEF RecvData, PutMessage, OtherStep
    <3>2. CASE UNCHANGED up
      BY <3>2
    <3>3. ASSUME NEW f \in Frames \ AckFrames, Sends(f)
          PROVE  \A S \in SUBSET AckFrames : Only(up', S) = Only(up, S)
      <4>1. up \in Seq(Frames) /\ up' = Append(up, f)
        BY <1>0, <1>c, <3>3 DEF TypeInv, TypeOK, Sends, Writes, SendFails
      <4>2. QED
        BY <4>1, OnlyAppend
    <3>4. QED
      BY <3>1, <3>2, <3>3
  <2>2. AskedFrames \in SUBSET AckFrames
    BY <1>g DEF AskedFrames, AckFrames
  <2>3. Only(up', AckFrames) = Only(up, AckFrames) /\ Only(up', AskedFrames) = Only(up, AskedFrames)
    BY <2>1, <2>2
  <2>4. CASE Seen' = Seen
    BY <1>d, <2>3, <2>4
  <2>5. CASE thread # "put" /\ thread' = "put" /\ hand' \in Messages /\ Seen = Got
             /\ Seen' = Append(Got, hand')
    <3>1. RecvData
      BY <1>2, <2>5, ClientStep DEF PutMessage, OtherStep
    <3>2. ~AutoAcks \/ hand' \notin Downstream
      BY <2>5, <3>1 DEF RecvData
    <3>3. AutoAcks => /\ Only(Seen', Downstream) = Only(Seen, Downstream)
                      /\ Only(Seen', Asking) = Only(Seen, Asking)
      BY <1>0, <1>g, <2>5, <3>2, DueOneMore
    <3>4. QED
      BY <1>d, <2>3, <3>3
  <2>6. QED
    BY <1>0, <2>4, <2>5, SeenStep
<1>3. QED
  BY <1>1, <1>2

\* A client that sends ACKs has sent one for each message that asks, in the order of
\* arrival, before the application can see the message; one that leaves them to the
\* application sends none (AcksKeepPace).
THEOREM AcknowledgedBeforeSeen == Spec => []AcksKeepPace
<1>1. AcksInv => AcksKeepPace
  BY DEF AcksInv
<1>2. QED
  BY <1>1, AcksInvInit, AcksInvStep, PTL DEF Spec

-----------------------------------------------------------------------------
(* What is on its way *)

\* The numbers of the messages among the items of w.
OnWire(w) == Numbers(Only(w, DataItems))

LEMMA DataFacts ==
  /\ \A n \in Messages : Data(n) \in DataItems /\ Data(n)[2] = n
  /\ \A x \in DataItems : x[2] \in Messages
  /\ <<"ping">> \notin DataItems /\ <<"garbled">> \notin DataItems /\ <<"close">> \notin DataItems
  /\ <<"eof">> \notin DataItems /\ <<"reset">> \notin DataItems
BY DEF DataItems, Data

LEMMA NumbersConcat ==
  /\ \A q \in Seq(DataItems) : Numbers(q) \in Seq(Messages)
  /\ \A q, r \in Seq(DataItems) : Numbers(q \o r) = Numbers(q) \o Numbers(r)
  /\ \A x \in DataItems : Numbers(<<x>>) = <<x[2]>>
<1>1. ASSUME NEW q \in Seq(DataItems)
      PROVE  Numbers(q) \in Seq(Messages) /\ Len(Numbers(q)) = Len(q)
  BY DataFacts DEF Numbers
<1>2. ASSUME NEW q \in Seq(DataItems), NEW r \in Seq(DataItems)
      PROVE  Numbers(q \o r) = Numbers(q) \o Numbers(r)
  <2>1. q \o r \in Seq(DataItems) /\ Len(q \o r) = Len(q) + Len(r)
    OBVIOUS
  <2>2. Numbers(q \o r) \in Seq(Messages) /\ Len(Numbers(q \o r)) = Len(q) + Len(r)
    BY <1>1, <2>1
  <2>3. /\ Numbers(q) \o Numbers(r) \in Seq(Messages)
        /\ Len(Numbers(q) \o Numbers(r)) = Len(q) + Len(r)
    <3> DEFINE a == Numbers(q)
               b == Numbers(r)
    <3>1. a \in Seq(Messages) /\ Len(a) = Len(q) /\ b \in Seq(Messages) /\ Len(b) = Len(r)
      BY <1>1
    <3> HIDE DEF a, b
    <3>2. a \o b \in Seq(Messages) /\ Len(a \o b) = Len(a) + Len(b)
      BY <3>1, ConcatType, SMTT(60)
    <3>3. QED
      BY <3>1, <3>2 DEF a, b
  <2>4. ASSUME NEW i \in 1..(Len(q) + Len(r))
        PROVE  Numbers(q \o r)[i] = (Numbers(q) \o Numbers(r))[i]
    <3>1. Numbers(q \o r)[i] = (q \o r)[i][2]
      BY <2>1 DEF Numbers
    <3>2. CASE i \in 1..Len(q)
      BY <1>1, <3>1, <3>2 DEF Numbers
    <3>3. CASE i \notin 1..Len(q)
      <4>1. i - Len(q) \in 1..Len(r)
        BY <3>3
      <4>2. (q \o r)[i] = r[i - Len(q)]
        BY <3>3
      <4>3. (Numbers(q) \o Numbers(r))[i] = Numbers(r)[i - Len(q)]
        BY <1>1, <3>3
      <4>4. Numbers(r)[i - Len(q)] = r[i - Len(q)][2]
        BY <4>1 DEF Numbers
      <4>5. QED
        BY <3>1, <4>2, <4>3, <4>4
    <3>4. QED
      BY <3>2, <3>3
  <2>5. QED
    BY <2>2, <2>3, <2>4
<1>3. ASSUME NEW x \in DataItems
      PROVE  Numbers(<<x>>) = <<x[2]>>
  BY DataFacts DEF Numbers
<1>4. QED
  BY <1>1, <1>2, <1>3

LEMMA OnWireConcat ==
  /\ \A w \in Seq(WireItems) : OnWire(w) \in Seq(Messages)
  /\ \A v, w \in Seq(WireItems) : OnWire(v \o w) = OnWire(v) \o OnWire(w)
<1>0. DataItems \cap WireItems = DataItems
  BY DEF WireItems
<1>1. \A w \in Seq(WireItems) : Only(w, DataItems) \in Seq(DataItems)
  BY <1>0, OnlyType
<1>2. ASSUME NEW v \in Seq(WireItems), NEW w \in Seq(WireItems)
      PROVE  OnWire(v \o w) = OnWire(v) \o OnWire(w)
  <2>1. Only(v \o w, DataItems) = Only(v, DataItems) \o Only(w, DataItems)
    BY OnlyConcat
  <2>2. QED
    BY <1>1, <2>1, NumbersConcat DEF OnWire
<1>3. QED
  BY <1>1, <1>2, NumbersConcat DEF OnWire

LEMMA OnWireOne ==
  /\ \A n \in Messages : OnWire(<<Data(n)>>) = <<n>>
  /\ \A x \in WireItems \ DataItems : OnWire(<<x>>) = <<>>
<1> DEFINE e == <<>>
<1>1. e \in Seq(WireItems) /\ Only(e, DataItems) = e
  BY OnlyEmpty
<1> HIDE DEF e
<1>2. ASSUME NEW x \in WireItems
      PROVE  Only(Append(e, x), DataItems) = IF x \in DataItems THEN Append(e, x) ELSE e
  BY <1>1, OnlyAppend
<1>3. ASSUME NEW x \in WireItems
      PROVE  Only(<<x>>, DataItems) = IF x \in DataItems THEN <<x>> ELSE <<>>
  BY <1>2 DEF e
<1>4. \A n \in Messages : OnWire(<<Data(n)>>) = <<n>>
  <2> TAKE n \in Messages
  <2>1. Data(n) \in DataItems /\ Data(n) \in WireItems /\ Data(n)[2] = n
    BY DataFacts DEF WireItems
  <2>2. Only(<<Data(n)>>, DataItems) = <<Data(n)>>
    BY <1>3, <2>1
  <2>3. Numbers(<<Data(n)>>) = <<Data(n)[2]>>
    BY <2>1, NumbersConcat
  <2>4. QED
    BY <2>1, <2>2, <2>3 DEF OnWire
<1>5. Numbers(<<>>) = <<>>
  BY DEF Numbers
<1>6. QED
  BY <1>3, <1>4, <1>5 DEF OnWire

\* One item more at the end, or one less at the head.
LEMMA OnWireEnds ==
  ASSUME NEW w \in Seq(WireItems)
  PROVE  /\ \A n \in Messages : OnWire(Append(w, Data(n))) = Append(OnWire(w), n)
         /\ \A x \in WireItems \ DataItems : OnWire(Append(w, x)) = OnWire(w)
         /\ w # <<>> => /\ \A n \in Messages : Head(w) = Data(n) =>
                             OnWire(w) = <<n>> \o OnWire(Tail(w))
                        /\ Head(w) \notin DataItems => OnWire(w) = OnWire(Tail(w))
<1>0. OnWire(w) \in Seq(Messages)
  BY OnWireConcat
<1>1. ASSUME NEW x \in WireItems
      PROVE  OnWire(Append(w, x)) = OnWire(w) \o OnWire(<<x>>)
  <2>1. <<x>> \in Seq(WireItems) /\ Append(w, x) = w \o <<x>>
    OBVIOUS
  <2>2. QED
    BY <2>1, OnWireConcat
<1>2. \A n \in Messages : OnWire(Append(w, Data(n))) = Append(OnWire(w), n)
  <2> TAKE n \in Messages
  <2>1. Data(n) \in WireItems
    BY DataFacts DEF WireItems
  <2>2. OnWire(Append(w, Data(n))) = OnWire(w) \o <<n>>
    BY <1>1, <2>1, OnWireOne
  <2>3. QED
    BY <1>0, <2>2
<1>3. \A x \in WireItems \ DataItems : OnWire(Append(w, x)) = OnWire(w)
  <2> TAKE x \in WireItems \ DataItems
  <2>1. OnWire(Append(w, x)) = OnWire(w) \o <<>>
    BY <1>1, OnWireOne
  <2>2. QED
    BY <1>0, <2>1
<1>4. ASSUME w # <<>>
      PROVE  /\ \A n \in Messages : Head(w) = Data(n) => OnWire(w) = <<n>> \o OnWire(Tail(w))
             /\ Head(w) \notin DataItems => OnWire(w) = OnWire(Tail(w))
  <2> DEFINE x == Head(w)
             one == <<x>>
             rest == Tail(w)
  <2>1. x \in WireItems /\ one \in Seq(WireItems) /\ rest \in Seq(WireItems) /\ w = one \o rest
    BY <1>4
  <2> HIDE DEF x, rest
  <2>2. OnWire(one) = IF x \in DataItems THEN <<x[2]>> ELSE <<>>
    BY <2>1, DataFacts, OnWireOne DEF DataItems
  <2> HIDE DEF one
  <2>3. OnWire(w) = OnWire(one) \o OnWire(rest) /\ OnWire(rest) \in Seq(Messages)
    BY <2>1, OnWireConcat
  <2>4. x \notin DataItems => OnWire(w) = OnWire(rest)
    BY <2>2, <2>3
  <2>5. \A n \in Messages : x = Data(n) => OnWire(w) = <<n>> \o OnWire(rest)
    BY <2>2, <2>3, DataFacts
  <2>6. QED
    BY <2>4, <2>5 DEF x, rest
<1>5. QED
  BY <1>2, <1>3, <1>4

-----------------------------------------------------------------------------
(* The stream of messages *)

LEMMA StreamParts ==
  TypeInv => /\ Got \in Seq(Messages) /\ InHand \in Seq(Messages) /\ OnTheWire \in Seq(Messages)
             /\ wire \in Seq(WireItems) /\ OnTheWire = OnWire(wire)
<1> SUFFICES ASSUME TypeInv
             PROVE  /\ InHand \in Seq(Messages) /\ OnTheWire \in Seq(Messages)
                    /\ wire \in Seq(WireItems) /\ OnTheWire = OnWire(wire)
  BY GotType
<1>1. wire \in Seq(WireItems) /\ OnTheWire = OnWire(wire)
  BY DEF TypeInv, TypeOK, OnTheWire, OnWire
<1>2. OnWire(wire) \in Seq(Messages)
  BY <1>1, OnWireConcat
<1>3. InHand \in Seq(Messages)
  <2>1. hand \in Messages \cup {0}
    BY DEF TypeInv, TypeOK
  <2>2. QED
    BY <2>1 DEF InHand
<1>4. QED
  BY <1>1, <1>2, <1>3

\* A reset stays at the end of what is on its way: the client reads nothing
\* behind it.
LEMMA ResetStays ==
  ASSUME TypeInv, [Next]_vars, WasReset
  PROVE  WasReset'
<1> USE DEF netVars
<1>0. PICK i \in 1..Len(wire) : wire[i] = <<"reset">>
  BY DEF WasReset, Contains
<1>t. wire \in Seq(WireItems)
  BY DEF TypeInv, TypeOK
<1>1. SUFFICES \E j \in 1..Len(wire') : wire'[j] = <<"reset">>
  BY DEF WasReset, Contains
<1>2. CASE wire' = wire
  BY <1>0, <1>2
<1>3. ASSUME wire # <<>>, Head(wire) # <<"reset">>, wire' = Tail(wire)
      PROVE  \E j \in 1..Len(wire') : wire'[j] = <<"reset">>
  <2>1. i - 1 \in 1..Len(wire') /\ wire'[i - 1] = wire[i]
    BY <1>0, <1>t, <1>3
  <2>2. QED
    BY <1>0, <2>1
<1>4. ASSUME NEW x, wire' = Append(wire, x)
      PROVE  \E j \in 1..Len(wire') : wire'[j] = <<"reset">>
  BY <1>0, <1>t, <1>4
<1>5. CASE ReceiveThread
  <2>1. wire' = wire \/ (wire # <<>> /\ wire' = Tail(wire) /\ Head(wire) # <<"reset">>)
    BY <1>5, DataFacts DEF ReceiveThread, LoopTest, EnterRecv, RecvData, SendAck, PutMessage,
       RecvPing, SendPong, RecvClose, RecvGarbled, RecvEnd, RecvFails, Arrives
  <2>2. QED
    BY <1>2, <1>3, <2>1
<1>6. CASE Application
  <2>1. wire' = wire \/ (wire # <<>> /\ wire' = Tail(wire) /\ Head(wire) # <<"reset">>)
    <3>1. CASE DrainFrame
      BY <3>1, DataFacts DEF DrainFrame, Arrives
    <3>2. CASE EnterDrain \/ DrainEnds \/ CloseNothing \/ CloseConnection
      BY <3>2 DEF EnterDrain, DrainEnds, CloseNothing, CloseConnection, netVars
    <3>3. ASSUME NEW call, NEW n, StartReceive(call, n)
          PROVE  wire' = wire
      BY <3>3 DEF StartReceive, netVars
    <3>4. ASSUME NEW x, SendText(x)
          PROVE  wire' = wire
      BY <3>4 DEF SendText
    <3>5. CASE GetMessage \/ GetOpcode \/ GiveUp
      BY <3>5 DEF GetMessage, GetOpcode, GiveUp, netVars
    <3>6. QED
      BY <1>6, <3>1, <3>2, <3>3, <3>4, <3>5 DEF Application, Closing
  <2>2. QED
    BY <1>2, <1>3, <2>1
<1>7. CASE GatewaySends \/ GatewayPings \/ GatewayGarbles \/ GatewayCloses
  BY <1>4, <1>7 DEF GatewaySends, GatewayPings, GatewayGarbles, GatewayCloses
<1>8. CASE GatewayEnds
  <2>1. CASE wire' = Append(wire, <<"eof">>)
    BY <1>4, <2>1
  <2>2. CASE wire' = wire \o <<<<"close">>, <<"eof">>>>
    <3> DEFINE end == <<<<"close">>, <<"eof">>>>
    <3>1. <<"close">> \in WireItems /\ <<"eof">> \in WireItems
      BY DEF WireItems, Ends
    <3>2. Len(end) = 2 /\ end \in Seq(WireItems)
      BY <3>1
    <3> HIDE DEF end
    <3>3. i \in 1..Len(wire \o end) /\ (wire \o end)[i] = wire[i]
      BY <1>t, <3>2, ConcatFront
    <3>4. QED
      BY <1>0, <2>2, <3>3 DEF end
  <2>3. QED
    BY <1>8, <2>1, <2>2 DEF GatewayEnds
<1>9. CASE ConnectionLost
  <2>1. CASE wire' = Append(wire, <<"eof">>)
    BY <1>4, <2>1
  <2>2. ASSUME NEW k \in 0..Len(wire), wire' = Append(SubSeq(wire, 1, k), <<"reset">>)
        PROVE  \E j \in 1..Len(wire') : wire'[j] = <<"reset">>
    <3> DEFINE kept == SubSeq(wire, 1, k)
               end == <<"reset">>
    <3>1. kept \in Seq(WireItems)
      BY <1>t
    <3> HIDE DEF kept, end
    <3>2. wire' = Append(kept, end)
      BY <2>2 DEF kept, end
    <3>3. Len(kept) + 1 \in 1..Len(wire') /\ wire'[Len(kept) + 1] = end
      BY <3>1, <3>2
    <3>4. QED
      BY <3>3 DEF end
  <2>3. QED
    BY <1>9, <2>1, <2>2 DEF ConnectionLost
<1>10. CASE UNCHANGED vars
  BY <1>2, <1>10 DEF vars
<1>11. QED
  BY <1>5, <1>6, <1>7, <1>8, <1>9, <1>10 DEF Next, Gateway

\* What was lost is not found again.
LEMMA NoneMissingBefore ==
  ASSUME TypeInv, [Next]_vars, NoneMissing'
  PROVE  NoneMissing
<1>1. ~WasReset
  BY ResetStays DEF NoneMissing
<1>2. caller \in {"closing", "drain", "closed"} => caller' \in {"closing", "drain", "closed"}
  BY DEF Next, ReceiveThread, LoopTest, EnterRecv, RecvData, SendAck, PutMessage, RecvPing, SendPong,
     RecvClose, RecvGarbled, RecvEnd, RecvFails, Application, SendText, StartReceive, GetMessage,
     GetOpcode, GiveUp, CloseNothing, CloseConnection, Closing, EnterDrain, DrainFrame, DrainEnds,
     Gateway, GatewaySends, GatewayPings, GatewayGarbles, GatewayCloses, GatewayEnds,
     ConnectionLost, vars, callVars
<1>3. QED
  BY <1>1, <1>2 DEF NoneMissing, TypeInv, TypeOK

LEMMA IncreasingAppend ==
  ASSUME NEW q \in Seq(Nat), NEW n \in Nat, Increasing(q), \A i \in 1..Len(q) : q[i] < n
  PROVE  Increasing(Append(q, n))
BY DEF Increasing

\* Fewer numbers, in the same order, are increasing still.
LEMMA IncreasingFewer ==
  ASSUME NEW a \in Seq(Nat), NEW b \in Seq(Nat), NEW r \in Seq(Nat), Increasing(a \o (r \o b))
  PROVE  /\ Increasing(a \o b)
         /\ \A i \in 1..Len(a \o b) : \E j \in 1..Len(a \o (r \o b)) :
              (a \o b)[i] = (a \o (r \o b))[j]
<1> DEFINE q == a \o (r \o b)
           p == a \o b
           at(i) == IF i \in 1..Len(a) THEN i ELSE i + Len(r)
<1>1. /\ Len(a) \in Nat /\ Len(b) \in Nat /\ Len(r) \in Nat /\ r \o b \in Seq(Nat)
      /\ Len(r \o b) = Len(r) + Len(b)
  OBVIOUS
<1>2. Len(q) = Len(a) + (Len(r) + Len(b)) /\ Len(p) = Len(a) + Len(b)
  BY <1>1
<1>3. ASSUME NEW i \in 1..Len(p)
      PROVE  at(i) \in 1..Len(q) /\ p[i] = q[at(i)]
  <2>1. CASE i \in 1..Len(a)
    <3>1. p[i] = a[i] /\ q[i] = a[i]
      BY <1>1, <2>1
    <3>2. QED
      BY <1>1, <1>2, <2>1, <3>1
  <2>2. CASE i \notin 1..Len(a)
    <3>1. i - Len(a) \in 1..Len(b)
      BY <1>1, <1>2, <2>2
    <3>2. p[i] = b[i - Len(a)]
      BY <1>1, <2>2, <3>1
    <3>3. (r \o b)[(i - Len(a)) + Len(r)] = b[i - Len(a)]
      BY <1>1, <3>1
    <3>4. q[i + Len(r)] = (r \o b)[(i + Len(r)) - Len(a)]
      BY <1>1, <3>1
    <3>5. /\ (i + Len(r)) - Len(a) = (i - Len(a)) + Len(r)
          /\ i + Len(r) \in 1..(Len(a) + (Len(r) + Len(b)))
      BY <1>1, <1>2, <3>1
    <3>6. QED
      BY <1>2, <2>2, <3>2, <3>3, <3>4, <3>5
  <2>3. QED
    BY <2>1, <2>2
<1>4. ASSUME NEW i \in 1..Len(p), NEW j \in 1..Len(p), i < j
      PROVE  at(i) < at(j)
  BY <1>1, <1>2, <1>4
<1> HIDE DEF at, p, q
<1>5. Increasing(q)
  BY DEF q
<1>6. Increasing(p)
  BY <1>3, <1>4, <1>5 DEF Increasing
<1>7. QED
  BY <1>3, <1>6 DEF p, q

\* A step leaves the stream as it is, or adds the next message at its end; only a
\* reset, or close() reading on by itself, takes messages out of it.
LEMMA StreamStep ==
  ASSUME TypeInv, [Next]_vars
  PROVE  \/ Stream' = Stream /\ sent' = sent
         \/ Stream' = Append(Stream, sent') /\ sent' = sent + 1
         \/ /\ sent' = sent /\ ~NoneMissing'
            /\ \E a, r, b \in Seq(Messages) : Stream = a \o (r \o b) /\ Stream' = a \o b
<1> DEFINE Keeps == Stream' = Stream /\ sent' = sent
           Adds == Stream' = Append(Stream, sent') /\ sent' = sent + 1
           Loses == /\ sent' = sent /\ ~NoneMissing'
                    /\ \E a, r, b \in Seq(Messages) : Stream = a \o (r \o b) /\ Stream' = a \o b
<1> SUFFICES Keeps \/ Adds \/ Loses
  OBVIOUS
<1> USE DEF netVars
<1>p. /\ Got \in Seq(Messages) /\ InHand \in Seq(Messages) /\ wire \in Seq(WireItems)
      /\ OnWire(wire) \in Seq(Messages)
      /\ Stream = Got \o InHand \o OnWire(wire) /\ Stream' = Got' \o InHand' \o OnWire(wire')
  BY StreamParts DEF Stream, OnTheWire, OnWire
<1>g. ~PutMessage => Got' = Got
  BY GotStep
<1>h. hand' = hand => InHand' = InHand
  BY DEF InHand
<1> HIDE DEF Keeps, Adds, Loses
<1>k. ASSUME ~PutMessage, hand' = hand, sent' = sent, OnWire(wire') = OnWire(wire)
      PROVE  Keeps
  BY <1>k, <1>p, <1>g, <1>h DEF Keeps
<1>r. ASSUME ~PutMessage, hand' = hand, sent' = sent,
             wire # <<>>, Head(wire) \notin DataItems, wire' = Tail(wire)
      PROVE  Keeps
  BY <1>k, <1>r, <1>p, OnWireEnds
<1>1. CASE RecvData
  <2>1. PICK n \in Messages : /\ wire # <<>> /\ Head(wire) = Data(n) /\ wire' = Tail(wire)
                              /\ thread \in {"recv", "brief"} /\ hand' = n /\ sent' = sent
                              /\ n # 0
    BY <1>1, ClientAssumption DEF RecvData, Receiving, Arrives, Messages
  <2>2. Got' = Got /\ InHand = <<>> /\ InHand' = <<n>>
    BY <1>g, <2>1 DEF PutMessage, InHand, TypeInv, TypeOK
  <2>3. OnWire(wire) = <<n>> \o OnWire(wire')
    BY <1>p, <2>1, OnWireEnds
  <2>4. OnWire(wire') \in Seq(Messages)
    <3>1. wire' \in Seq(WireItems)
      BY <1>p, <2>1
    <3>2. QED
      BY <3>1, OnWireConcat
  <2> DEFINE rest == OnWire(wire')
  <2>5. Got \o <<>> \o (<<n>> \o rest) = Got \o <<n>> \o rest
    <3> HIDE DEF rest
    <3>1. /\ Got \o <<>> = Got /\ Got \in Seq(Messages)
          /\ rest \in Seq(Messages) /\ <<n>> \in Seq(Messages)
      BY <1>p, <2>4 DEF rest
    <3>2. Got \o (<<n>> \o rest) = Got \o <<n>> \o rest
      BY <3>1, SMTT(60)
    <3>3. QED
      BY <3>1, <3>2
  <2>6. QED
    BY <1>p, <2>1, <2>2, <2>3, <2>5 DEF Keeps
<1>2. CASE PutMessage
  <2>1. /\ hand \in Messages /\ hand # 0 /\ hand' = 0 /\ Got' = Append(Got, hand)
        /\ wire' = wire /\ sent' = sent
    BY <1>2, GotStep, ClientAssumption DEF PutMessage, Messages
  <2>2. InHand = <<hand>> /\ InHand' = <<>>
    BY <2>1 DEF InHand
  <2>3. Append(Got, hand) \o <<>> = Got \o <<hand>>
    BY <1>p, <2>1
  <2>4. QED
    BY <1>p, <2>1, <2>2, <2>3 DEF Keeps
<1>3. CASE RecvPing \/ RecvClose \/ RecvGarbled
  <2>1. thread \in {"recv", "brief"}
    BY <1>3 DEF RecvPing, RecvClose, RecvGarbled, Receiving
  <2>2. /\ hand' = hand /\ sent' = sent
        /\ wire # <<>> /\ Head(wire) \notin DataItems /\ wire' = Tail(wire)
    BY <1>3, DataFacts DEF RecvPing, RecvClose, RecvGarbled, Arrives
  <2>3. QED
    BY <1>r, <2>1, <2>2 DEF PutMessage
<1>4. CASE LoopTest \/ EnterRecv \/ SendAck \/ SendPong \/ RecvEnd \/ RecvFails
  BY <1>4, <1>k DEF LoopTest, EnterRecv, SendAck, SendPong, RecvEnd, RecvFails, PutMessage
<1>5. CASE Application /\ ~DrainFrame
  <2>1. thread' = thread /\ hand' = hand /\ sent' = sent /\ wire' = wire
    BY <1>5 DEF Application, SendText, StartReceive, GetMessage, GetOpcode, GiveUp, CloseNothing,
       CloseConnection, Closing, EnterDrain, DrainEnds
  <2>2. QED
    BY <1>k, <2>1 DEF PutMessage
<1>6. CASE DrainFrame
  <2>1. /\ wire # <<>> /\ wire' = Tail(wire) /\ hand' = hand /\ thread' = thread /\ sent' = sent
        /\ Head(wire) \in DataItems \cup {<<"ping">>} /\ caller' \in {"closing", "closed"}
    BY <1>6 DEF DrainFrame, Arrives
  <2>2. ~PutMessage
    BY <2>1 DEF PutMessage
  <2>3. CASE Head(wire) \notin DataItems
    BY <1>r, <2>1, <2>2, <2>3
  <2>4. CASE Head(wire) \in DataItems
    <3>1. PICK n \in Messages : Head(wire) = Data(n)
      BY <2>4 DEF DataItems
    <3>2. OnWire(wire) = <<n>> \o OnWire(wire')
      BY <1>p, <2>1, <3>1, OnWireEnds
    <3>3. OnWire(wire') \in Seq(Messages)
      <4>1. wire' \in Seq(WireItems)
        BY <1>p, <2>1
      <4>2. QED
        BY <4>1, OnWireConcat
    <3> DEFINE a == Got \o InHand
    <3>4. a \in Seq(Messages) /\ <<n>> \in Seq(Messages)
      BY <1>p
    <3>5. Stream = a \o (<<n>> \o OnWire(wire')) /\ Stream' = a \o OnWire(wire')
      BY <1>p, <1>g, <1>h, <2>1, <2>2, <3>2
    <3> HIDE DEF a
    <3>6. ~NoneMissing'
      BY <2>1 DEF NoneMissing
    <3>7. QED
      BY <2>1, <3>3, <3>4, <3>5, <3>6 DEF Loses
  <2>5. QED
    BY <2>3, <2>4
<1>7. CASE GatewaySends
  <2>1. /\ hand' = hand /\ sent' = sent + 1 /\ wire' = Append(wire, Data(sent'))
        /\ thread' = thread /\ sent' \in Messages
    BY <1>7, ClientAssumption DEF GatewaySends, Messages, TypeInv, TypeOK
  <2>2. Got' = Got
    BY <1>g, <2>1 DEF PutMessage
  <2>3. OnWire(wire') = Append(OnWire(wire), sent')
    BY <1>p, <2>1, OnWireEnds
  <2> DEFINE a == Got \o InHand
             w == OnWire(wire)
  <2>4. a \in Seq(Messages) /\ w \in Seq(Messages)
    BY <1>p
  <2> HIDE DEF a, w
  <2>5. a \o Append(w, sent') = Append(a \o w, sent')
    BY <2>1, <2>4
  <2>6. QED
    BY <1>p, <1>h, <2>1, <2>2, <2>3, <2>5 DEF Adds, a, w
<1>8. CASE GatewayPings \/ GatewayGarbles \/ GatewayCloses \/ GatewayEnds
  <2>1. hand' = hand /\ sent' = sent /\ thread' = thread
    BY <1>8 DEF GatewayPings, GatewayGarbles, GatewayCloses, GatewayEnds
  <2>2. /\ <<"ping">> \in WireItems \ DataItems /\ <<"garbled">> \in WireItems \ DataItems
        /\ <<"close">> \in WireItems \ DataItems /\ <<"eof">> \in WireItems \ DataItems
    BY DataFacts DEF WireItems, Ends
  <2>3. \/ \E x \in WireItems \ DataItems : wire' = Append(wire, x)
        \/ wire' = wire \o <<<<"close">>, <<"eof">>>>
    BY <1>8, <2>2 DEF GatewayPings, GatewayGarbles, GatewayCloses, GatewayEnds
  <2>4. ASSUME NEW x \in WireItems \ DataItems, NEW y \in WireItems \ DataItems
        PROVE  OnWire(wire \o <<x, y>>) = OnWire(wire)
    <3> DEFINE wx == Append(wire, x)
    <3>1. wx \in Seq(WireItems) /\ wire \o <<x, y>> = Append(wx, y)
      BY <1>p
    <3>2. OnWire(wx) = OnWire(wire)
      BY <1>p, OnWireEnds
    <3> HIDE DEF wx
    <3>3. OnWire(Append(wx, y)) = OnWire(wx)
      BY <3>1, OnWireEnds
    <3>4. QED
      BY <3>1, <3>2, <3>3
  <2>5. OnWire(wire') = OnWire(wire)
    <3>1. CASE \E x \in WireItems \ DataItems : wire' = Append(wire, x)
      BY <1>p, <3>1, OnWireEnds
    <3>2. CASE wire' = wire \o <<<<"close">>, <<"eof">>>>
      BY <2>2, <2>4, <3>2
    <3>3. QED
      BY <2>3, <3>1, <3>2
  <2>6. QED
    BY <1>k, <2>1, <2>5 DEF PutMessage
<1>9. CASE ConnectionLost
  <2>1. hand' = hand /\ sent' = sent /\ thread' = thread
    BY <1>9 DEF ConnectionLost
  <2>2. ~PutMessage
    BY <2>1 DEF PutMessage
  <2>3. CASE wire' = Append(wire, <<"eof">>)
    <3>1. <<"eof">> \in WireItems \ DataItems
      BY DataFacts DEF WireItems, Ends
    <3>2. OnWire(wire') = OnWire(wire)
      BY <1>p, <2>3, <3>1, OnWireEnds
    <3>3. QED
      BY <1>k, <2>1, <2>2, <3>2
  <2>4. ASSUME NEW k \in 0..Len(wire), wire' = Append(SubSeq(wire, 1, k), <<"reset">>)
        PROVE  Loses
    <3> DEFINE kept == SubSeq(wire, 1, k)
               lost == SubSeq(wire, k + 1, Len(wire))
               end == <<"reset">>
    <3>1. /\ kept \in Seq(WireItems) /\ lost \in Seq(WireItems) /\ wire = kept \o lost
          /\ end \in WireItems \ DataItems
      <4>1. kept \in Seq(WireItems) /\ lost \in Seq(WireItems)
        BY <1>p
      <4>2. wire = kept \o lost
        BY <1>p, SplitAt
      <4>3. end \in WireItems \ DataItems
        BY DataFacts DEF WireItems, Ends
      <4>4. QED
        BY <4>1, <4>2, <4>3
    <3>2. wire' = Append(kept, end)
      BY <2>4
    <3> HIDE DEF kept, lost
    <3>3. wire'[Len(kept) + 1] = end /\ Len(kept) + 1 \in 1..Len(wire')
      BY <3>1, <3>2
    <3>4. ~NoneMissing'
      BY <3>3 DEF NoneMissing, WasReset, Contains
    <3> HIDE DEF end
    <3> DEFINE a == (Got \o InHand) \o OnWire(kept)
               r == OnWire(lost)
               b == <<>>
    <3>5. OnWire(wire') = OnWire(kept)
      BY <3>1, <3>2, OnWireEnds
    <3>6. OnWire(wire) = OnWire(kept) \o OnWire(lost)
      BY <3>1, OnWireConcat
    <3>7. OnWire(kept) \in Seq(Messages) /\ r \in Seq(Messages)
      BY <3>1, OnWireConcat
    <3>8. a \in Seq(Messages) /\ b \in Seq(Messages) /\ Got \o InHand \in Seq(Messages)
      BY <1>p, <3>7
    <3>9. Stream' = a
      BY <1>p, <1>g, <1>h, <2>1, <2>2, <3>5
    <3>10. Stream = a \o r
      <4> DEFINE gi == Got \o InHand
                 ok == OnWire(kept)
      <4>1. gi \in Seq(Messages) /\ ok \in Seq(Messages) /\ r \in Seq(Messages)
        BY <3>7, <3>8
      <4>2. Stream = gi \o (ok \o r)
        BY <1>p, <3>6
      <4> HIDE DEF gi, ok, r
      <4>3. gi \o (ok \o r) = (gi \o ok) \o r
        BY <4>1, SMTT(60)
      <4>4. QED
        BY <4>2, <4>3 DEF gi, ok
    <3> HIDE DEF a, r
    <3>11. r \o b = r /\ a \o b = a
      BY <3>7, <3>8
    <3> HIDE DEF b
    <3>12. QED
      BY <2>1, <3>4, <3>7, <3>8, <3>9, <3>10, <3>11 DEF Loses
  <2>5. QED
    BY <1>9, <2>3, <2>4 DEF ConnectionLost
<1>10. CASE UNCHANGED vars
  BY <1>10, <1>k DEF vars, PutMessage
<1>11. QED
  BY <1>1, <1>2, <1>3, <1>4, <1>5, <1>6, <1>7, <1>8, <1>9, <1>10
     DEF Next, ReceiveThread, Application, Closing, Gateway

LEMMA MessagesAreNumbers == \A q \in Seq(Messages) : q \in Seq(Nat)
<1>1. \A m \in Messages : m \in Nat
  BY DEF Messages
<1>2. QED
  BY <1>1, SeqMono

LEMMA StreamInvInit == Init => StreamInv
<1> SUFFICES ASSUME Init PROVE StreamInv
  OBVIOUS
<1>1. TypeInv
  BY TypeInvInit
<1> DEFINE e == <<>>
<1>2. wire = e /\ hand = 0 /\ sent = 0 /\ returned = e /\ results = e /\ messages = e
  BY DEF Init
<1>3. \A S : Only(e, S) = e
  BY OnlyEmpty
<1>4. e \o e = e /\ Numbers(e) = e /\ Len(e) = 0
  BY DEF Numbers
<1> HIDE DEF e
<1>5. Stream = e
  BY <1>2, <1>3, <1>4 DEF Stream, Got, OnTheWire, InHand, e
<1>6. [i \in 1..0 |-> i] = e
  BY DEF e
<1>7. QED
  BY <1>1, <1>2, <1>4, <1>5, <1>6 DEF StreamInv, Increasing

LEMMA StreamInvStep == StreamInv /\ [Next]_vars => StreamInv'
<1> SUFFICES ASSUME StreamInv, [Next]_vars PROVE StreamInv'
  OBVIOUS
<1>0. /\ TypeInv /\ Increasing(Stream) /\ \A i \in 1..Len(Stream) : Stream[i] <= sent
      /\ NoneMissing => Stream = [i \in 1..sent |-> i]
  BY DEF StreamInv
<1>1. TypeInv'
  BY <1>0, TypeInvStep
<1>2. Stream \in Seq(Nat) /\ sent \in Nat
  <2>1. Got \in Seq(Messages) /\ InHand \in Seq(Messages) /\ OnTheWire \in Seq(Messages)
    BY <1>0, StreamParts
  <2>2. Got \in Seq(Nat) /\ InHand \in Seq(Nat) /\ OnTheWire \in Seq(Nat)
    BY <2>1, MessagesAreNumbers
  <2>3. QED
    BY <1>0, <2>2 DEF Stream, TypeInv, TypeOK
<1>3. SUFFICES /\ Increasing(Stream') /\ \A i \in 1..Len(Stream') : Stream'[i] <= sent'
               /\ NoneMissing' => Stream' = [i \in 1..sent' |-> i]
  BY <1>1 DEF StreamInv, Increasing
<1>4. CASE Stream' = Stream /\ sent' = sent
  BY <1>0, <1>4, NoneMissingBefore
<1>5. CASE Stream' = Append(Stream, sent') /\ sent' = sent + 1
  <2> DEFINE q == Stream
             n == sent + 1
  <2>1. q \in Seq(Nat) /\ n \in Nat /\ Increasing(q) /\ \A i \in 1..Len(q) : q[i] < n
    BY <1>0, <1>2
  <2>2. NoneMissing' => q = [i \in 1..sent |-> i]
    BY <1>0, NoneMissingBefore
  <2>3. Stream' = Append(q, n) /\ sent' = n
    BY <1>5
  <2> HIDE DEF q
  <2>4. Increasing(Append(q, n))
    BY <2>1, IncreasingAppend
  <2>5. \A i \in 1..Len(Append(q, n)) : Append(q, n)[i] <= n
    BY <2>1
  <2>6. q = [i \in 1..sent |-> i] => Append(q, n) = [i \in 1..n |-> i]
    BY <1>2, <2>1
  <2>7. QED
    BY <2>2, <2>3, <2>4, <2>5, <2>6
<1>6. ASSUME sent' = sent, ~NoneMissing',
             NEW a \in Seq(Messages), NEW r \in Seq(Messages), NEW b \in Seq(Messages),
             Stream = a \o (r \o b), Stream' = a \o b
      PROVE  Increasing(Stream') /\ \A i \in 1..Len(Stream') : Stream'[i] <= sent'
  <2>1. a \in Seq(Nat) /\ r \in Seq(Nat) /\ b \in Seq(Nat)
    BY MessagesAreNumbers
  <2>2. Increasing(a \o (r \o b))
    BY <1>0, <1>6
  <2>3. /\ Increasing(a \o b)
        /\ \A i \in 1..Len(a \o b) : \E j \in 1..Len(a \o (r \o b)) :
             (a \o b)[i] = (a \o (r \o b))[j]
    BY <2>1, <2>2, IncreasingFewer
  <2>4. QED
    BY <1>0, <1>6, <2>3
<1>7. QED
  BY <1>0, <1>4, <1>5, <1>6, StreamStep

\* No message is received twice or out of order, whichever thread reads the last
\* frames; and until close() is called, and unless the stream is reset, everything
\* the gateway has sent is with the application, in the receive thread's hand or
\* on its way, whatever calls have timed out in between (ReceivedExactly).
THEOREM ReceivedInOrder == Spec => []ReceivedExactly
<1>1. StreamInv => ReceivedExactly
  <2> SUFFICES ASSUME StreamInv PROVE ReceivedExactly
    OBVIOUS
  <2> DEFINE q == Got \o InHand
             w == OnTheWire
  <2>1. q \in Seq(Messages) /\ w \in Seq(Messages)
    BY StreamParts DEF StreamInv
  <2>2. Stream = q \o w
    BY DEF Stream
  <2> HIDE DEF q, w
  <2>3. ASSUME NEW i \in 1..Len(q), NEW j \in 1..Len(q), i < j
        PROVE  q[i] < q[j]
    <3>1. /\ i \in 1..Len(Stream) /\ j \in 1..Len(Stream)
          /\ Stream[i] = q[i] /\ Stream[j] = q[j]
      BY <2>1, <2>2
    <3>2. QED
      BY <2>3, <3>1 DEF StreamInv, Increasing
  <2>4. NoneMissing => q \o w = [i \in 1..sent |-> i]
    BY <2>2 DEF StreamInv
  <2>5. QED
    BY <2>3, <2>4 DEF ReceivedExactly, NoneMissing, q, w
<1>2. QED
  BY <1>1, StreamInvInit, StreamInvStep, PTL DEF Spec
===============================================================================
