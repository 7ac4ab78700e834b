------------------------------- MODULE EndToEnd -------------------------------
(***************************************************************************)
(* A WsClient and the gateway that serves it: the client library of        *)
(* client/ws_client.py on the one connection of the gateway of WsGateway,  *)
(* with the application's script of messages on one end and the registry   *)
(* on the other.                                                           *)
(*                                                                         *)
(* The two directions of the connection are `up`, of which the handler has *)
(* taken the first `taken` frames, and `wire`.  Both hold only as much as  *)
(* the sockets and the libraries do: conn.send blocks while `up` is full,  *)
(* and a send of the gateway awaits its drain while `wire` is.             *)
(***************************************************************************)
EXTENDS WsGateway, ControlClient, Functions, Subsequences

CONSTANTS Me,        \* the connection of the client
          Self,      \* its client_id
          Scripts,   \* the sequences of messages the application may send
          Configs,   \* the ways the client is created
          UpCap,     \* how many frames `up` holds that the handler has not taken
          DownCap,   \* with more frames than that on `wire`, a drain waits
          MaxTexts   \* bound: the length of a script

VARIABLES
  \* as in WsClient:
  config, connected, sock, peer, wire, sent, pings, garbled, up, thread, hand,
  messages, opcodes, caller, want, results, returned, texts,
  script,  \* what the application sends
  taken    \* how many frames of `up` the handler has taken

\* The message of order n is Data(n) to the client, the answer to a query_online
\* is Data(Reply).
Reply == MaxIssued + 1

Client == INSTANCE WsClient
            WITH Downstream <- 1..MaxIssued, Asking <- 1..MaxIssued, Counts <- {},
                 MaxSent <- Reply, MaxOdd <- 0, Texts <- UNION {Range(s) : s \in Scripts}

ASSUME EndAssumption ==
  /\ Conns = {Me} /\ Self \in Ids
  /\ UpCap \in Nat \ {0} /\ DownCap \in Nat /\ MaxTexts \in Nat
  /\ Configs \subseteq [timeout : BOOLEAN, has_id : BOOLEAN, ack_return : BOOLEAN,
                        ack_mod : BOOLEAN, ack_error : BOOLEAN]
  /\ \A s \in Scripts : s \in Seq(Range(s)) /\ Len(s) <= MaxTexts
  /\ None = NoId
  /\ Now \in DOMAIN Float /\ Float[Now] = Now

\* The ids in a script are those of the clients and groups there are, or none (None
\* also stands for an empty one), or no keys.
ASSUME ScriptAssumption ==
  \A s \in Scripts : \A v \in Range(s) :
    Parses(v, Now) =>
      LET msg == FromJson(v, Now) IN
      /\ msg["client_id"] \in Ids \cup {None, NoKey}
      /\ msg["type"] = "hello" => msg["client_id"] \in HelloIds[Me]
      /\ msg["type"] = "upstream" /\ HasOp(msg) =>
           /\ msg["payload"].object["op"] \in DOMAIN OpName
           /\ TargetClient(msg) \in Ids \cup {None, NoKey}
           /\ TargetGroup(msg) \in Groups \cup {None, NoKey}

\* What the client alone uses, and what is on the way.
insideVars == <<config, connected, sock, sent, pings, garbled, thread, hand, messages,
                opcodes, caller, want, results, returned, texts, script>>
linkVars == <<up, taken, wire, peer>>
endVars == <<vars, insideVars, linkVars>>

EndInit == /\ Init /\ Client!Init
           /\ script \in Scripts
           /\ taken = 0

\* create_connection returns, and the gateway's library starts the handler.
Connected == Connect(Me) /\ UNCHANGED <<insideVars, linkVars>>

-----------------------------------------------------------------------------
(* The client *)

\* A step of the client; conn.send returns only when there is room for its frame.
ClientStep(A) ==
  /\ socket[Me] # "none"
  /\ A
  /\ Len(up') - taken <= UpCap
  /\ UNCHANGED <<vars, script, taken>>

\* The application sends the next message of its script.
SendNext == texts < Len(script) /\ Client!SendText(script[texts + 1])

ClientNext == \/ ClientStep(Client!ReceiveThread)
              \/ ClientStep(SendNext)
              \/ ClientStep(Client!CloseNothing)
              \/ ClientStep(Client!CloseConnection)
              \/ ClientStep(Client!Closing)

-----------------------------------------------------------------------------
(* The connection *)

\* It is over for the gateway, if it was not already.
Over == /\ socket[Me] # "none"
        /\ IF socket[Me] = "open" THEN ConnectionCloses(Me) ELSE UNCHANGED vars
        /\ UNCHANGED <<script, taken>>

\* The gateway's library answers CLOSE, or has its own answered.
HandshakeEnds == Client!GatewayEnds /\ Over

LinkBreaks == Client!ConnectionLost /\ Over

\* A handler has ended with its connection open, and the library closes it.
GatewayFails ==
  /\ handler[Me] = "done"
  /\ Client!GatewayCloses
  /\ ConnectionCloses(Me)
  /\ UNCHANGED <<script, taken>>

-----------------------------------------------------------------------------
(* The gateway *)

\* An upstream message: without an op it is for everybody.  An op that is not known,
\* a push without a client, and a group without a group do nothing (nor does the
\* task of an order whose target is no key: it raises when it looks it up).
Upstream(msg) ==
  \/ ~HasOp(msg) /\ Broadcast(Me)
  \/ /\ HasOp(msg)
     /\ LET op == Op(msg)
            c == TargetClient(msg)
            g == TargetGroup(msg)
        IN \/ op = "push" /\ c \in Ids /\ Push(Me, c)
           \/ op = "group" /\ g \in Groups /\ GroupPush(Me, g)
           \/ op = "broadcast" /\ Broadcast(Me)
           \/ op = "query_online" /\ QueryOnline(Me)
           \/ /\ op \notin {"broadcast", "query_online"}
              /\ op = "push" => c \notin Ids
              /\ op = "group" => g \notin Groups
              /\ UNCHANGED vars

\* A text.  What does not parse is dropped, and what only calls heartbeat, or has no
\* client_id to do it for, changes nothing.
HandleText(v) ==
  \/ ~Parses(v, Now) /\ UNCHANGED vars
  \/ /\ Parses(v, Now)
     /\ LET msg == FromJson(v, Now)
            type == msg["type"]
            id == msg["client_id"]
        IN \/ type = "hello" /\ id # NoKey /\ Hello(Me, id)
           \/ type = "hello" /\ id = NoKey /\ HelloRaises(Me)
           \/ type = "ack" /\ id \in Ids /\ Ack(Me, id)
           \/ type = "upstream" /\ id # NoKey /\ Upstream(msg)
           \/ type # "hello" /\ id = NoKey /\ (FrameRaises(Me) \/ Finish(Me))
           \/ /\ type \notin {"hello", "upstream"} /\ id # NoKey
              /\ type = "ack" => id \notin Ids
              /\ UNCHANGED vars

\* The text of a frame; an ACK of the client is one as well.
TextOf(f) == IF f[1] = "ack" THEN ToJson(AckMessage(Self, f[2], Now)) ELSE f[2]

\* What the handler does with a frame; CLOSE never gets to it.
Handle(f) == f[1] \in {"text", "ack"} /\ HandleText(TextOf(f))

\* The handler takes the next frame, and writes its answer to a query_online.
TakeFrame ==
  /\ handler[Me] = "loop" /\ taken < Len(up)
  /\ Handle(up[taken + 1])
  /\ taken' = taken + 1
  /\ wire' = IF handler'[Me] = "reply" /\ socket[Me] = "open"
             THEN Append(wire, Client!Data(Reply)) ELSE wire
  /\ UNCHANGED <<insideVars, up, peer>>

\* A step of the gateway; what it writes to Me is on its way.
GatewayStep(A) ==
  /\ A
  /\ LET new == SubSeq(out'[Me], Len(out[Me]) + 1, Len(out'[Me]))
     IN wire' = wire \o [i \in 1..Len(new) |-> Client!Data(new[i].n)]
  /\ UNCHANGED <<insideVars, up, taken, peer>>

HasRoom == Len(wire) <= DownCap

\* A handler that ends leaves the frames that it has not taken.
GatewayNext == \/ GatewayStep(RunTask)
               \/ GatewayStep(HasRoom /\ ReplySent(Me))
               \/ \E s \in Sends : \/ GatewayStep(HasRoom /\ SendReturns(s))
                                   \/ GatewayStep(SendRaises(s))
               \/ GatewayStep(Finish(Me))

EndNext == \/ Connected \/ ClientNext \/ HandshakeEnds \/ LinkBreaks \/ GatewayFails
           \/ TakeFrame \/ GatewayNext

EndSpec == EndInit /\ [][EndNext]_endVars

\* The threads of the client and the gateway's loop run, and the library reads the
\* frames of an open connection, answers CLOSE and closes what a handler left.  The
\* application need not send anything nor close.
EndFairness ==
  /\ WF_endVars(ClientStep(Client!ReceiveThread))
  /\ WF_endVars(ClientStep(Client!Closing))
  /\ WF_endVars(HandshakeEnds)
  /\ WF_endVars(GatewayFails)
  /\ WF_endVars(TakeFrame)
  /\ WF_endVars(GatewayStep(RunTask))
  /\ WF_endVars(GatewayStep(HasRoom /\ ReplySent(Me)))
  /\ \A s \in Sends : WF_endVars(GatewayStep(HasRoom /\ SendReturns(s)))
  /\ WF_endVars(GatewayStep(Finish(Me)))
EndFairSpec == EndSpec /\ EndFairness

-----------------------------------------------------------------------------
(* Properties *)

\* The ACKs that the application writes itself, with send_message.
OwnAcks ==
  {f \in {Client!TextFrame(v) : v \in UNION {Range(s) : s \in Scripts}} :
     /\ Parses(f[2], Now)
     /\ FromJson(f[2], Now)["type"] = "ack" /\ FromJson(f[2], Now)["client_id"] = Self}

\* acks_received counts nothing but frames that were written to the client, apart
\* from the ACKs that the application writes itself: at any time, with ACKs still on
\* their way or being written, and though an ACK can be counted before the send it
\* answers is (so that acks_received is ahead of messages_sent and ack_rate above 1).
AcksBackedByFrames ==
  Self \in DOMAIN sessions =>
    sessions[Self].acks_received
      + Len(Only(SubSeq(up, taken + 1, Len(up)), Client!AckFrames))
      + (IF thread = "ack" THEN 1 ELSE 0)
        <= Len(out[Me]) + Len(Only(SubSeq(up, 1, taken), OwnAcks))

\* Until it closes, the application has, or still gets, exactly the orders that the
\* gateway wrote to it, in the order written, whatever answers to its own queries
\* come in between: what the one side takes for sent is what the other receives.
\* (A reset loses the last of them.)
ReceivedAsWritten ==
  caller = "idle" /\ ~Client!WasReset =>
    Only(Client!Got \o Client!InHand \o Client!OnTheWire, 1..MaxIssued)
      = [i \in 1..Len(out[Me]) |-> out[Me][i].n]

\* The handler waits for the client to take its answer, the receive thread of the
\* client for the handler to take its ACK.
StandStill ==
  /\ handler[Me] = "reply" /\ ~HasRoom
  /\ thread = "ack" /\ Len(up) - taken >= UpCap

\* The client is still there, as far as both ends know.
Together == caller = "idle" /\ peer = "open"

\* The two counts that ack_rate divides settle: each frame that was written is
\* counted as sent and as acknowledged, in either order, if the client stays.
CountsSettle ==
  \A k \in 1..MaxIssued :
    (Len(out[Me]) >= k) ~>
      \/ /\ Self \in DOMAIN sessions
         /\ sessions[Self].messages_sent >= k
         /\ sessions[Self].acks_received >= k
      \/ ~Together
      \/ StandStill

\* The only thing that can hold a handler in the reply to query_online for ever is
\* that standstill, however little the application receives.
OnlyAcksStandStill ==
  (handler[Me] = "reply") ~> (handler[Me] # "reply" \/ StandStill)

\* A client whose application has closed it goes offline, for good, though frames
\* it wrote before, hello among them, may not have been taken yet.
ClosedClientLeaves == (caller = "closed") ~> [](Self \notin DOMAIN sessions)

\* A control signal that the gateway takes becomes an order: a push, a broadcast
\* to a group or to all.
SignalTaken(op) ==
  /\ taken' = taken + 1 /\ up[taken'][1] = "text"
  /\ Parses(up[taken'][2], Now)
  /\ LET msg == FromJson(up[taken'][2], Now)
     IN msg["type"] = "upstream" /\ HasOp(msg) /\ Op(msg) = op
SignalsBecomeOrders ==
  [][\A op \in {"push", "group", "broadcast"} : SignalTaken(op) => issued' = issued + 1]_endVars
=============================================================================
