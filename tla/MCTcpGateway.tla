----------------------------- MODULE MCTcpGateway -----------------------------
(* Instances of TcpGateway for TLC. *)
EXTENDS TcpGateway, TLC

CONSTANTS s1, s2, w3, ann, bob, g1

\* s1 and s2 are the streams of one client before and after it reconnects, w3 is
\* another client's WebSocket.
Reconnecting == (s1 :> {ann}) @@ (s2 :> {ann}) @@ (w3 :> {bob})

\* s1 is a stream that says hello under two ids, one of them for want of a client_id,
\* and under one that is no key, w3 a WebSocket that shares an id with it.
Shifty == (s1 :> {ann, NoId, NoKey}) @@ (w3 :> {ann, NoKey})

AllJoin == {<<ann, g1>>, <<bob, g1>>}
=============================================================================
