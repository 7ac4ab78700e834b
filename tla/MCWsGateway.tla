----------------------------- MODULE MCWsGateway -----------------------------
(***************************************************************************)
(* Instances of WsGateway for TLC: which ids the connections say hello     *)
(* with.                                                                   *)
(***************************************************************************)
EXTENDS WsGateway, TLC

CONSTANTS w1, w2, w3, ann, bob, g1

\* w1 and w2 are one client before and after it reconnects, w3 is another.
Reconnecting == (w1 :> {ann}) @@ (w2 :> {ann}) @@ (w3 :> {bob})

\* w1 is ann; w2 is ann too, who takes the id over, or says hello without an id or
\* with one that is no key, or each in turn.
Turncoat == (w1 :> {ann}) @@ (w2 :> {ann, NoId, NoKey})
=============================================================================
