------------------------------ MODULE TcpGateway ------------------------------
(***************************************************************************)
(* The TCP gateway of gateway/server.py next to the WebSocket gateway: the *)
(* two servers run on one event loop and share the registry and the        *)
(* dispatcher, which run_gateway_for_demo takes as arguments.              *)
(*                                                                         *)
(* A stream is a connection of WsGateway whose client speaks JSON lines.   *)
(* Its handler says hello, counts ACKs and orders nothing; what a line     *)
(* raises is caught, and the handler goes on.  It ends when readline does: *)
(* at the end of the stream, which leaves the stream writable, when the    *)
(* connection is lost, or on a line over the reader's limit.               *)
(*                                                                         *)
(* write never fails.  drain raises once the connection is lost, and waits *)
(* only while the transport's buffer is full; a send that does not wait is *)
(* one whose SendReturns comes next.  A stream that is closed with data in *)
(* its buffer is "closing" until that is sent; what is written to it then, *)
(* by a send to an id that its handler did not take along, is sent as well.*)
(***************************************************************************)
EXTENDS WsGateway

CONSTANTS Streams,        \* the connections that are TCP streams
          WaitsForClients \* wait_closed waits for open streams (Python 3.12)

ASSUME StreamAssumption ==
  /\ Streams \subseteq Conns
  /\ WaitsForClients \in BOOLEAN

VARIABLES
  eof,      \* the streams whose client has ended its side
  server    \* "up", "closing" (close awaits wait_closed) or "closed"

streamVars == <<eof, server>>
tcpVars == <<vars, streamVars>>

TcpInit == Init /\ eof = {} /\ server = "up"

-----------------------------------------------------------------------------
(* Streams *)

Accept(w) ==
  /\ server = "up"
  /\ Connect(w)
  /\ UNCHANGED streamVars

\* The client shuts down its side; what is written to it is still sent.
PeerEnds(w) ==
  /\ socket[w] = "open" /\ w \notin eof
  /\ eof' = eof \cup {w}
  /\ UNCHANGED <<vars, server>>

StreamLost(w) == ConnectionCloses(w) /\ UNCHANGED streamVars

\* hello with a client_id that is no key: it is stored before register_client
\* raises, which is caught.
HelloFails(w) ==
  /\ Takes(w)
  /\ NoKey \in HelloIds[w]
  /\ clientId' = [clientId EXCEPT ![w] = NoKey]
  /\ UNCHANGED <<socket, handler, coreVars, taskVars, owed>>

\* A line.  Any type but hello and ack calls heartbeat, if anything.
Line(w) ==
  /\ \/ \E c \in HelloIds[w] \ {NoKey} : Hello(w, c)
     \/ HelloFails(w)
     \/ \E c \in Ids : Ack(w, c)
  /\ UNCHANGED streamVars

\* Mutant of Leave: the transport is left to itself.
LeaveOpen(w) == Ends(w) /\ UNCHANGED streamVars

\* The finally block, up to its await: nothing is owed to w any more.  For a
\* client_id that is no key, detach raises and the rest is not done.
Leave(w) ==
  /\ handler' = [handler EXCEPT ![w] = "done"]
  /\ IF clientId[w] \in Ids THEN CleanUp(clientId[w]) ELSE UNCHANGED coreVars
  /\ IF clientId[w] = NoKey
     THEN UNCHANGED <<socket, owed>>
     ELSE /\ socket' = [socket EXCEPT ![w] = IF @ = "open" /\ out[w] # <<>>
                                            THEN "closing" ELSE "closed"]
          /\ owed' = {o \in owed : o[2] # clientId[w] /\ o[3] # w}
  /\ UNCHANGED <<clientId, taskVars, streamVars>>

\* Mutant of ReadEnds: the end of the stream is taken for an empty line.
ReadEndsWhenLost(w) ==
  /\ Live(w)
  /\ socket[w] = "closed"
  /\ Leave(w)

\* readline returns nothing, or raises because the connection is lost.
ReadEnds(w) ==
  /\ Live(w)
  /\ w \in eof \/ socket[w] = "closed"
  /\ Leave(w)

\* Mutant of ReadOverruns: the exception of readline ends the handler at once.
ReadOverrunsAbruptly(w) ==
  /\ Live(w) /\ socket[w] = "open"
  /\ handler' = [handler EXCEPT ![w] = "done"]
  /\ socket' = [socket EXCEPT ![w] = "closed"]
  /\ UNCHANGED <<clientId, coreVars, taskVars, owed, streamVars>>

\* readline raises because the line is too long.
ReadOverruns(w) ==
  /\ Live(w) /\ socket[w] = "open"
  /\ Leave(w)

\* wait_closed returns: what was written has been sent, or the client is lost.
HandlerEnds(w) ==
  /\ socket[w] = "closing"
  /\ socket' = [socket EXCEPT ![w] = "closed"]
  /\ UNCHANGED <<handler, clientId, coreVars, taskVars, owed, streamVars>>

-----------------------------------------------------------------------------
(* The server *)

\* close() stops listening; the streams there are stay.
ServerCloses ==
  /\ server = "up"
  /\ server' = "closing"
  /\ UNCHANGED <<vars, eof>>

\* Its wait_closed returns.
ServerClosed ==
  /\ server = "closing"
  /\ WaitsForClients => \A w \in Streams : socket[w] \notin {"open", "closing"}
  /\ server' = "closed"
  /\ UNCHANGED <<vars, eof>>

TcpNext ==
  \/ \E w \in Streams : \/ Accept(w) \/ PeerEnds(w) \/ StreamLost(w) \/ Line(w)
                        \/ ReadEnds(w) \/ ReadOverruns(w) \/ HandlerEnds(w)
  \/ ServerCloses \/ ServerClosed
  \/ /\ \/ \E w \in Conns \ Streams : Connect(w) \/ ConnectionCloses(w) \/ HandlerStep(w)
        \/ RunTask
        \/ \E s \in Sends : SendReturns(s) \/ SendRaises(s)
        \/ \E j \in OnlineJoins : JoinGroup(j[1], j[2])
     /\ UNCHANGED streamVars

TcpSpec == TcpInit /\ [][TcpNext]_tcpVars

\* The loop runs its tasks and resumes a handler whose stream or connection has
\* ended and a close() that has nothing to wait for.  Nothing makes a client end
\* its stream, nor read what it was sent.
TcpFairness ==
  /\ WF_tcpVars(RunTask /\ UNCHANGED streamVars)
  /\ \A w \in Conns \ Streams : WF_tcpVars(Finish(w) /\ UNCHANGED streamVars)
  /\ \A w \in Streams : WF_tcpVars(ReadEnds(w))
  /\ WF_tcpVars(ServerClosed)
TcpFairSpec == TcpSpec /\ TcpFairness

-----------------------------------------------------------------------------
(* Properties *)

\* A client whose connection is gone goes offline for good, and so does one that
\* has only ended its side of a stream: the gateway could still write to it, and
\* orders for it may be under way.
EndedConnectionLeaves ==
  \A w \in Conns :
    (w \in eof \/ socket[w] = "closed") ~> [](\A c \in DOMAIN writers : writers[c] # w)

\* close() returns once every client has ended its stream, unless one of them
\* does not take what it was sent.  (With a client that stays connected it never
\* does when wait_closed waits for clients: nothing tells the handlers to end.)
ServerStops ==
  (server = "closing") ~> \/ server = "closed"
                          \/ \E w \in Streams : \/ socket[w] = "open" /\ w \notin eof
                                                \/ socket[w] = "closing"
=============================================================================
