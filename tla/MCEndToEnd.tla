------------------------------ MODULE MCEndToEnd ------------------------------
(* Instances of EndToEnd for TLC. *)
EXTENDS EndToEnd, TLC

CONSTANTS me, ann, bob, g1

AnnsHello == me :> {ann, NoKey}

\* The demo's configuration, which leaves ACKs to the client.
DemoConfig == {[timeout |-> FALSE, has_id |-> TRUE, ack_return |-> TRUE, ack_mod |-> FALSE,
                ack_error |-> FALSE]}

\* Only 0 stands for a number.
Zero == 0 :> 0
False == {FALSE, None}
Lowered == [op \in {"push", "group", "broadcast", "query_online", "wave", ""} |-> op]
             @@ ("PUSH" :> "push") @@ (None :> "")

Upstreams(payload) == UpstreamJson(ann, Object(payload))
Plain == Upstreams([text |-> "hello"])
Signal(op, target, group) == ControlSignal(ann, op, Object([text |-> "hello"]), target, group)
RawGroup == Upstreams([op |-> "group", group_id |-> g1])
NoOp == Upstreams([op |-> None])
Query == Signal("query_online", None, None)
OwnAck == ToJson(AckMessage(ann, 1, Stamp))
Array == [array |-> <<>>]
NoObject == UpstreamJson(NoKey, Array)

\* A controller whose push comes back to it and whose second message, without an
\* op, goes to everybody; a broadcast and more queries than the connection holds;
\* a group named by hand, and ops that the gateway does not know or that are empty;
\* an ACK of the application's own, and a push in capitals; and a message whose
\* client_id no registry takes, a hello with one after a text that is no object.
SixScripts ==
  { <<HelloJson(ann), Signal("push", None, None), Plain>>,
    <<HelloJson(ann), Plain, Query, Query>>,
    <<HelloJson(ann), RawGroup, Signal("wave", None, None), NoOp>>,
    <<HelloJson(ann), OwnAck, Signal("PUSH", None, None)>>,
    <<HelloJson(ann), Signal("broadcast", None, None), NoObject>>,
    <<Array, HelloJson(NoKey), Plain>> }

\* A controller that signals a group.
GroupScript == {<<HelloJson(ann), Signal("group", None, g1)>>}
=============================================================================
