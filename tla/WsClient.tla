------------------------------- MODULE WsClient -------------------------------
(***************************************************************************)
(* The WebSocket client of client/ws_client.py: the application's thread,  *)
(* which sends, collects messages and closes, and the receive thread that  *)
(* every client starts, which reads the frames, sends ACKs and pongs and   *)
(* fills two queues.  Both use one connection, which was created with      *)
(* enable_multithread=False.                                               *)
(*                                                                         *)
(* The connection is websocket-client's.  Its recv_frame holds a lock of   *)
(* its own while it waits for a frame, and its close() sends CLOSE and     *)
(* then reads frames itself until the other side's CLOSE; so the two       *)
(* threads compete for the last frames.  A frame is written in one piece:  *)
(* frames that do not fit the socket's send buffer are not modelled.       *)
(*                                                                         *)
(* The messages that the gateway sends are numbered.  What the client      *)
(* tells apart is whether a message is a downstream message (Downstream);  *)
(* that some of those ask for an ACK (Asking) it does not look at.         *)
(***************************************************************************)
EXTENDS Integers, Sequences, SequencesExt, Subsequences

CONSTANTS Configs,     \* the ways a client is created
          Downstream,  \* which of the messages are of type downstream
          Asking,      \* which of those have need_ack
          Counts,      \* the message_counts asked for, NoLimit for None
          MaxSent,     \* bound: messages from the gateway
          MaxOdd,      \* bound: pings, and frames that break the protocol
          Texts,       \* what the application's messages say
          MaxTexts     \* bound: messages the application sends

Messages == 1..MaxSent

\* message_count=None: more than can ever come.
NoLimit == MaxSent + MaxOdd + 1

\* In the place of a message: the text of a protocol error in the queue, and
\* the empty message_id of an ACK.
ErrorText == 0
EmptyId == 0

ASSUME ClientAssumption ==
  /\ MaxSent \in Nat /\ MaxOdd \in Nat /\ MaxTexts \in Nat
  /\ Configs \subseteq [timeout : BOOLEAN, has_id : BOOLEAN, ack_return : BOOLEAN,
                        ack_mod : BOOLEAN, ack_error : BOOLEAN]
  /\ Downstream \subseteq Messages /\ Asking \subseteq Downstream
  /\ Counts \subseteq 1..NoLimit

VARIABLES
  config,     \* the arguments of the constructor
  connected,  \* conn.connected
  sock,       \* conn.sock: "open" or "closed"
  peer,       \* the gateway's end: "open", "closing" (CLOSE sent) or "gone"
  wire,       \* what is on its way to the client, the end of the stream last
  sent,       \* how many messages the gateway has sent
  pings, garbled, texts,  \* how many of those there were
  up,         \* the frames the client has written, in order
  thread,     \* _recv_loop: "test" (while conn.connected), "wait" (for the lock
              \* of recv_frame), "recv", "brief" (the same, with the socket timeout
              \* of close()), "ack", "put", "pong" or "done"
  hand,       \* the message that _recv_loop is handling, 0 for none
  messages,   \* _messages
  opcodes,    \* _opcodes
  caller,     \* the application: "idle", "receiving" (messages), "watching"
              \* (opcodes), "closing", "drain" (in recv_frame) or "closed"
  want,       \* the message_count of the call, 0 when there is none
  results,    \* the messages the call has collected
  returned    \* the messages that receive_messages has returned

connVars == <<connected, sock>>
netVars == <<peer, wire, sent, pings, garbled>>
queueVars == <<messages, opcodes>>
callVars == <<caller, want, results, returned, texts>>
vars == <<config, connVars, netVars, up, thread, hand, queueVars, callVars>>

Data(n) == <<"data", n>>
Ends == {<<"eof">>, <<"reset">>}
DataItems == {Data(n) : n \in Messages}
WireItems == DataItems \cup {<<"ping">>, <<"close">>, <<"garbled">>} \cup Ends
AckFrame(id) == <<"ack", id>>
AckFrames == {AckFrame(id) : id \in Messages \cup {EmptyId}}
TextFrame(x) == <<"text", x>>
Frames == {<<"pong">>, <<"close">>} \cup {TextFrame(x) : x \in Texts} \cup AckFrames

\* create_connection has connected, and the receive thread starts.
Init == /\ config \in Configs
        /\ connected = TRUE /\ sock = "open"
        /\ peer = "open" /\ wire = <<>> /\ sent = 0 /\ pings = 0 /\ garbled = 0
        /\ up = <<>>
        /\ thread = "test" /\ hand = 0
        /\ messages = <<>> /\ opcodes = <<>>
        /\ caller = "idle" /\ want = 0 /\ results = <<>> /\ returned = <<>> /\ texts = 0

-----------------------------------------------------------------------------
(* The connection *)

\* conn.send writes frame f.
Writes(f) == sock = "open" /\ up' = Append(up, f)

\* conn.send raises: there is no socket, or the other side has gone.
SendFails == (sock = "closed" \/ peer = "gone") /\ UNCHANGED up

Sends(f) == Writes(f) \/ SendFails

\* The frame that recv_frame returns next.
Arrives(x) == sock = "open" /\ wire # <<>> /\ Head(wire) = x

-----------------------------------------------------------------------------
(* The gateway's end of the connection *)

GatewaySends ==
  /\ peer = "open" /\ sent < MaxSent
  /\ sent' = sent + 1
  /\ wire' = Append(wire, Data(sent'))
  /\ UNCHANGED <<config, connVars, peer, pings, garbled, up, thread, hand, queueVars, callVars>>

GatewayPings ==
  /\ peer = "open" /\ pings + garbled < MaxOdd
  /\ pings' = pings + 1
  /\ wire' = Append(wire, <<"ping">>)
  /\ UNCHANGED <<config, connVars, peer, sent, garbled, up, thread, hand, queueVars, callVars>>

GatewayGarbles ==
  /\ peer = "open" /\ pings + garbled < MaxOdd
  /\ garbled' = garbled + 1
  /\ wire' = Append(wire, <<"garbled">>)
  /\ UNCHANGED <<config, connVars, peer, sent, pings, up, thread, hand, queueVars, callVars>>

GatewayCloses ==
  /\ peer = "open"
  /\ peer' = "closing"
  /\ wire' = Append(wire, <<"close">>)
  /\ UNCHANGED <<config, connVars, sent, pings, garbled, up, thread, hand, queueVars, callVars>>

\* The gateway answers a CLOSE, or has had its own answered or waited for that
\* long enough, and ends the connection.
GatewayEnds ==
  /\ \/ peer = "closing" /\ wire' = Append(wire, <<"eof">>)
     \/ peer = "open" /\ Contains(up, <<"close">>) /\ wire' = wire \o <<<<"close">>, <<"eof">>>>
  /\ peer' = "gone"
  /\ UNCHANGED <<config, connVars, sent, pings, garbled, up, thread, hand, queueVars, callVars>>

\* The gateway's process dies: the stream ends, or is reset and the last of what
\* it sent is lost.
ConnectionLost ==
  /\ peer # "gone"
  /\ peer' = "gone"
  /\ \/ wire' = Append(wire, <<"eof">>)
     \/ \E k \in 0..Len(wire) : wire' = Append(SubSeq(wire, 1, k), <<"reset">>)
  /\ UNCHANGED <<config, connVars, sent, pings, garbled, up, thread, hand, queueVars, callVars>>

-----------------------------------------------------------------------------
(* The receive thread *)

ShouldAutoAck == config.ack_return /\ ~config.ack_mod

\* A downstream message is acknowledged: by a client that sends ACKs and has an id.
AutoAcks == ShouldAutoAck /\ config.has_id

\* The thread is in recv_frame.
Receiving == thread \in {"recv", "brief"}

LoopTest ==
  /\ thread = "test"
  /\ thread' = IF connected THEN "wait" ELSE "done"
  /\ UNCHANGED <<config, connVars, netVars, up, hand, queueVars, callVars>>

\* recv_frame takes its lock.  Once close() has sent CLOSE it sets the timeout of
\* the socket to three seconds, which holds for a recv that starts after that.
EnterRecv ==
  /\ thread = "wait" /\ caller # "drain"
  /\ thread' \in IF caller = "closing" THEN {"recv", "brief"} ELSE {"recv"}
  /\ UNCHANGED <<config, connVars, netVars, up, hand, queueVars, callVars>>

\* Mutant of RecvData: the message is put in the queue before it is acknowledged.
RecvDataEnqueues ==
  \E n \in Messages :
    /\ Receiving /\ Arrives(Data(n))
    /\ wire' = Tail(wire)
    /\ IF AutoAcks /\ n \in Downstream
       THEN thread' = "ack" /\ hand' = n
       ELSE thread' = "test" /\ hand' = 0
    /\ messages' = Append(messages, n)
    /\ UNCHANGED <<config, connVars, peer, sent, pings, garbled, up, opcodes, callVars>>

\* Mutant of RecvData: a message that is not acknowledged is not kept.
RecvDataSkips ==
  \E n \in Messages :
    /\ Receiving /\ Arrives(Data(n))
    /\ wire' = Tail(wire)
    /\ hand' = IF AutoAcks /\ n \in Downstream THEN n ELSE 0
    /\ thread' = IF AutoAcks /\ n \in Downstream THEN "ack" ELSE "test"
    /\ UNCHANGED <<config, connVars, peer, sent, pings, garbled, up, queueVars, callVars>>

\* Mutant of RecvData: whatever comes is acknowledged.
RecvDataAcksAll ==
  \E n \in Messages :
    /\ Receiving /\ Arrives(Data(n))
    /\ wire' = Tail(wire)
    /\ hand' = n
    /\ thread' = IF AutoAcks THEN "ack" ELSE "put"
    /\ UNCHANGED <<config, connVars, peer, sent, pings, garbled, up, queueVars, callVars>>

\* recv_data returns a text or binary message.
RecvData ==
  \E n \in Messages :
    /\ Receiving /\ Arrives(Data(n))
    /\ wire' = Tail(wire)
    /\ hand' = n
    /\ thread' = IF AutoAcks /\ n \in Downstream THEN "ack" ELSE "put"
    /\ UNCHANGED <<config, connVars, peer, sent, pings, garbled, up, queueVars, callVars>>

AckId(n) == IF config.ack_error THEN EmptyId ELSE n

\* After ack_delay the ACK is sent; if that fails nothing is said of it.
SendAck ==
  /\ thread = "ack"
  /\ Sends(AckFrame(AckId(hand)))
  /\ thread' = "put"
  /\ UNCHANGED <<config, connVars, netVars, hand, queueVars, callVars>>

\* Mutant of PutMessage: the queue holds one message.
PutMessageBounded ==
  /\ thread = "put"
  /\ messages = <<>>
  /\ messages' = Append(messages, hand)
  /\ hand' = 0
  /\ thread' = "test"
  /\ UNCHANGED <<config, connVars, netVars, up, opcodes, callVars>>

PutMessage ==
  /\ thread = "put"
  /\ messages' = Append(messages, hand)
  /\ hand' = 0
  /\ thread' = "test"
  /\ UNCHANGED <<config, connVars, netVars, up, opcodes, callVars>>

\* The library answers a ping before recv_data returns it; if that send fails,
\* its exception ends the thread.
RecvPing ==
  /\ Receiving /\ Arrives(<<"ping">>)
  /\ wire' = Tail(wire)
  /\ \/ Writes(<<"pong">>) /\ thread' = "pong"
     \/ SendFails /\ thread' = "done"
  /\ UNCHANGED <<config, connVars, peer, sent, pings, garbled, hand, queueVars, callVars>>

\* _recv_loop answers the ping as well.
SendPong ==
  /\ thread = "pong"
  /\ Sends(<<"pong">>)
  /\ thread' = "test"
  /\ UNCHANGED <<config, connVars, netVars, hand, queueVars, callVars>>

\* The library answers a CLOSE, which disconnects, and recv_data returns it.
RecvClose ==
  /\ Receiving /\ Arrives(<<"close">>)
  /\ wire' = Tail(wire)
  /\ connected' = FALSE
  /\ \/ Writes(<<"close">>) /\ opcodes' = Append(opcodes, "close") /\ thread' = "test"
     \/ SendFails /\ UNCHANGED opcodes /\ thread' = "done"
  /\ UNCHANGED <<config, sock, peer, sent, pings, garbled, hand, messages, callVars>>

\* WebSocketProtocolException, whose text is put in the queue, or, of a text that
\* is no UTF-8, WebSocketPayloadException, which nobody catches.
RecvGarbled ==
  /\ Receiving /\ Arrives(<<"garbled">>)
  /\ wire' = Tail(wire)
  /\ messages' = Append(messages, ErrorText) \/ UNCHANGED messages
  /\ thread' = "done"
  /\ UNCHANGED <<config, connVars, peer, sent, pings, garbled, up, hand, opcodes, callVars>>

\* WebSocketConnectionClosedException: the stream has ended, and the library
\* closes the socket.
RecvEnd ==
  /\ Receiving /\ Arrives(<<"eof">>)
  /\ connected' = FALSE /\ sock' = "closed"
  /\ thread' = "done"
  /\ UNCHANGED <<config, netVars, up, hand, queueVars, callVars>>

\* recv_data raises and the connection stays as it is: the stream was reset
\* (ConnectionResetError, which nobody catches), close() took the socket away
\* (WebSocketConnectionClosedException), or nothing came for the timeout of the
\* socket, the one of the constructor or of close() (WebSocketTimeoutException).
RecvFails ==
  /\ Receiving
  /\ \/ Arrives(<<"reset">>)
     \/ sock = "closed"
     \/ (config.timeout \/ thread = "brief") /\ sock = "open" /\ wire = <<>>
  /\ thread' = "done"
  /\ UNCHANGED <<config, connVars, netVars, up, hand, queueVars, callVars>>

ReceiveThread ==
  \/ LoopTest \/ EnterRecv \/ RecvData \/ SendAck \/ PutMessage \/ RecvPing \/ SendPong
  \/ RecvClose \/ RecvGarbled \/ RecvEnd \/ RecvFails

-----------------------------------------------------------------------------
(* The application's thread *)

\* send_hello, send_upstream and the like; a send that fails raises.
SendText(x) ==
  /\ caller = "idle" /\ texts < MaxTexts
  /\ texts' = texts + 1
  /\ Sends(TextFrame(x))
  /\ UNCHANGED <<config, connVars, netVars, thread, hand, queueVars, caller, want, results, returned>>

StartReceive(kind, n) ==
  /\ caller = "idle"
  /\ caller' = kind
  /\ want' = n
  /\ UNCHANGED <<config, connVars, netVars, up, thread, hand, queueVars, results, returned, texts>>

\* Mutant of Collected: one message more than was asked for.
CollectedOneMore(r) ==
  IF Len(r) <= want
  THEN results' = r /\ UNCHANGED <<caller, want, returned>>
  ELSE results' = <<>> /\ caller' = "idle" /\ want' = 0 /\ returned' = returned \o r

\* The call has collected r and goes on, or returns r when that is enough.
Collected(r) ==
  IF Len(r) < want
  THEN results' = r /\ UNCHANGED <<caller, want, returned>>
  ELSE results' = <<>> /\ caller' = "idle" /\ want' = 0 /\ returned' = returned \o r

GetMessage ==
  /\ caller = "receiving" /\ messages # <<>>
  /\ messages' = Tail(messages)
  /\ Collected(Append(results, Head(messages)))
  /\ UNCHANGED <<config, connVars, netVars, up, thread, hand, opcodes, texts>>

\* A call for control frames reads the other queue; one will do.
GetOpcode ==
  /\ caller = "watching" /\ opcodes # <<>>
  /\ opcodes' = Tail(opcodes)
  /\ caller' = "idle" /\ want' = 0
  /\ UNCHANGED <<config, connVars, netVars, up, thread, hand, messages, results, returned, texts>>

\* Mutant of GiveUp: the exception of the empty queue is not caught.
GiveUpRaises ==
  /\ caller \in {"receiving", "watching"}
  /\ caller' = "idle" /\ want' = 0
  /\ results' = <<>>
  /\ UNCHANGED <<config, connVars, netVars, up, thread, hand, queueVars, returned, texts>>

\* The call has lasted for its timeout and returns what it has.
GiveUp ==
  /\ caller \in {"receiving", "watching"}
  /\ caller' = "idle" /\ want' = 0
  /\ returned' = returned \o results
  /\ results' = <<>>
  /\ UNCHANGED <<config, connVars, netVars, up, thread, hand, queueVars, texts>>

\* close() of a connection that the library knows to be closed does nothing.
CloseNothing ==
  /\ caller = "idle" /\ ~connected
  /\ caller' = "closed"
  /\ UNCHANGED <<config, connVars, netVars, up, thread, hand, queueVars, want, results, returned, texts>>

\* Mutant of CloseConnection: it waits for the other side to close.
CloseConnectionSilently ==
  /\ caller = "idle" /\ connected
  /\ connected' = FALSE
  /\ caller' = "closing"
  /\ UNCHANGED <<config, sock, netVars, up, thread, hand, queueVars, want, results, returned, texts>>

\* Mutant of CloseConnection: it tells the loop to stop, and nobody else.
CloseConnectionMarks ==
  /\ caller = "idle" /\ connected
  /\ connected' = FALSE
  /\ caller' = "closed"
  /\ UNCHANGED <<config, sock, netVars, up, thread, hand, queueVars, want, results, returned, texts>>

\* close() sends CLOSE; if that fails it closes the socket at once.
CloseConnection ==
  /\ caller = "idle" /\ connected
  /\ connected' = FALSE
  /\ \/ Writes(<<"close">>) /\ caller' = "closing" /\ UNCHANGED sock
     \/ SendFails /\ caller' = "closed" /\ sock' = "closed"
  /\ UNCHANGED <<config, netVars, thread, hand, queueVars, want, results, returned, texts>>

\* Its recv_frame takes the lock, as soon as the receive thread is not in there.
EnterDrain ==
  /\ caller = "closing" /\ ~Receiving
  /\ caller' = "drain"
  /\ UNCHANGED <<config, connVars, netVars, up, thread, hand, queueVars, want, results, returned, texts>>

\* A frame that is no CLOSE is dropped, and unless three seconds have passed the
\* next one is read.
DrainFrame ==
  /\ caller = "drain"
  /\ \E x \in DataItems \cup {<<"ping">>} : Arrives(x)
  /\ wire' = Tail(wire)
  /\ \/ caller' = "closing" /\ UNCHANGED sock
     \/ caller' = "closed" /\ sock' = "closed"
  /\ UNCHANGED <<config, connected, peer, sent, pings, garbled, up, thread, hand, queueVars,
                 want, results, returned, texts>>

\* CLOSE, an exception, or nothing for three seconds: the socket is closed.
DrainEnds ==
  /\ caller = "drain"
  /\ \/ sock = "closed" \/ wire = <<>>
     \/ \E x \in {<<"close">>, <<"garbled">>} \cup Ends : Arrives(x)
  /\ caller' = "closed"
  /\ sock' = "closed"
  /\ UNCHANGED <<config, connected, netVars, up, thread, hand, queueVars, want, results, returned, texts>>

Closing == EnterDrain \/ DrainFrame \/ DrainEnds

Application ==
  \/ \E x \in Texts : SendText(x)
  \/ \E n \in Counts : StartReceive("receiving", n)
  \/ StartReceive("watching", 1)
  \/ GetMessage \/ GetOpcode \/ GiveUp \/ CloseNothing \/ CloseConnection \/ Closing

Gateway == \/ GatewaySends \/ GatewayPings \/ GatewayGarbles \/ GatewayCloses
           \/ GatewayEnds \/ ConnectionLost

Next == ReceiveThread \/ Application \/ Gateway

Spec == Init /\ [][Next]_vars

\* Both threads run, time passes, and the gateway's library answers a CLOSE and
\* does not wait for ever for the answer to its own.  The application need not
\* call anything, and the gateway need not send.
Fairness == WF_vars(ReceiveThread) /\ WF_vars(Closing) /\ WF_vars(GatewayEnds)
FairSpec == Spec /\ Fairness

-----------------------------------------------------------------------------
(* Properties *)

\* The state is made of the frames, queues and thread positions of the code, and
\* a call that goes on has less than it was asked for.
TypeOK ==
  /\ config \in Configs
  /\ connected \in BOOLEAN /\ sock \in {"open", "closed"}
  /\ peer \in {"open", "closing", "gone"}
  /\ wire \in Seq(WireItems)
  /\ sent \in 0..MaxSent /\ pings \in Nat /\ garbled \in Nat /\ pings + garbled <= MaxOdd
  /\ texts \in 0..MaxTexts
  /\ up \in Seq(Frames)
  /\ thread \in {"test", "wait", "recv", "brief", "ack", "put", "pong", "done"}
  /\ hand \in Messages \cup {0}
  /\ hand # 0 <=> thread \in {"ack", "put"}
  /\ messages \in Seq(Messages \cup {ErrorText})
  /\ opcodes \in Seq({"close"})
  /\ caller \in {"idle", "receiving", "watching", "closing", "drain", "closed"}
  /\ want \in 0..NoLimit
  /\ caller = "receiving" => Len(results) < want
  /\ results \in Seq(Messages \cup {ErrorText})
  /\ returned \in Seq(Messages \cup {ErrorText})

\* What the application has or can have: returned, collected, or in the queue.
Got == Only(returned \o results \o messages, Messages)

InHand == IF hand = 0 THEN <<>> ELSE <<hand>>

Numbers(data) == [i \in 1..Len(data) |-> data[i][2]]
OnTheWire == Numbers(Only(wire, DataItems))

WasReset == Contains(wire, <<"reset">>)

\* No message is received twice or out of order, whichever thread reads the last
\* frames; and until close() is called none is lost between the gateway and the
\* application, whatever calls time out in between (a reset may lose what was
\* still under way).
ReceivedExactly ==
  /\ \A i, j \in 1..Len(Got \o InHand) : i < j => (Got \o InHand)[i] < (Got \o InHand)[j]
  /\ caller \in {"idle", "receiving", "watching"} /\ ~WasReset =>
       Got \o InHand \o OnTheWire = [i \in 1..sent |-> i]

\* The messages that the application can see, and the one that is about to be put
\* in its queue.
Seen == Got \o (IF thread = "put" THEN InHand ELSE <<>>)

AcksFor(q) == [i \in 1..Len(q) |-> AckFrame(AckId(q[i]))]

AcksDue == IF AutoAcks THEN AcksFor(Only(Seen, Asking)) ELSE <<>>

\* By the time the application can see a message that asks for an ACK, it has been
\* acknowledged, once, and in the order of arrival (with ack_error the ACKs name no
\* message, and there are enough of them); a client that leaves ACKs to the
\* application sends none.  (When the connection is gone an ACK may be lost.)
AcksKeepPace ==
  sock = "open" /\ peer # "gone" =>
    /\ ~config.ack_error => Only(up, {AckFrame(n) : n \in Asking}) = AcksDue
    /\ config.ack_error => Len(Only(up, AckFrames)) >= Len(AcksDue)
    /\ ~AutoAcks => Only(up, AckFrames) = <<>>

\* A message is acknowledged only if it asks for that: "whether the client
\* automatically sends ACKs when it receives downstream messages that request one"
\* (client/ws_client.py, of ack_return).
AcksOnlyAsked == \A n \in Messages : Contains(up, AckFrame(n)) => n \in Asking

\* A client that was closed leaves no socket open to a gateway that still talks
\* to it, in whatever state the receive thread had left the connection.  (Once the
\* gateway has closed, close() does nothing and the socket stays.)
NoLiveSocketLeft == caller = "closed" /\ sock = "open" => peer # "open"

\* close() returns, though the receive thread may be holding the lock that it
\* needs, as long as the gateway answers the CLOSE.
CloseReturns == (caller = "closing") ~> (caller = "closed")

\* No receive thread outlives its client: after close() it ends, wherever it was.
ThreadEnds == (caller = "closed") ~> (thread = "done")

\* What the gateway sends comes out of the client, without a call that asks for
\* it, unless the client is closed, was created with a timeout, or the stream
\* broke.  (If the gateway has gone, a pong that cannot be sent ends the receive
\* thread before it has read what came after the ping.)
MessagesComeOut ==
  \A n \in Messages :
    (n <= sent) ~> \/ Contains(Got, n)
                   \/ caller \in {"closing", "drain", "closed"}
                   \/ config.timeout \/ WasReset \/ garbled > 0
                   \/ pings > 0 /\ peer = "gone"

\* While the connection is up and the application has not closed it, somebody
\* receives what comes.
ReceivesWhileConnected ==
  connected /\ peer = "open" /\ garbled = 0 /\ caller \in {"idle", "receiving", "watching"}
    => thread # "done"
=============================================================================
