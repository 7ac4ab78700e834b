----------------------------- MODULE ControlClient -----------------------------
(***************************************************************************)
(* What clients write, as the JSON objects of client/ws_client.py and      *)
(* client/control_client.py, and how gateway/ws_server.py reads an         *)
(* upstream message.  No times: every timestamp is Stamp.                  *)
(***************************************************************************)
EXTENDS Message

\* str(op or "").lower(), for whatever stands in an op field
CONSTANT OpName

ASSUME OpAssumption ==
  /\ {None, "", "push", "group", "broadcast", "query_online"} \subseteq DOMAIN OpName
  /\ OpName[None] = ""
  /\ \A op \in {"", "push", "group", "broadcast", "query_online"} : OpName[op] = op

Stamp == 0

HelloJson(id) == Object([type |-> "hello", client_id |-> id, timestamp |-> Stamp])
UpstreamJson(id, payload) ==
  Object([type |-> "upstream", client_id |-> id, payload |-> payload, timestamp |-> Stamp])

\* send_control_signal of the client self; None for a target that is not given.
\* target_group_id goes nowhere.
ControlSignal(self, op, inner, target_client_id, target_group_id) ==
  UpstreamJson(self, Object(
    [op |-> op, payload |-> inner,
     client_id |-> IF target_client_id # None THEN target_client_id ELSE self]))

\* The payload of an upstream message has an op field, and the operation it names.
HasOp(msg) ==
  msg["payload"] # None /\ IsObject(msg["payload"]) /\ "op" \in DOMAIN msg["payload"].object
Op(msg) == OpName[msg["payload"].object["op"]]

\* Whom it is for: the client its payload names or else the sender, and the group.
TargetClient(msg) == LET c == Get(msg["payload"].object, "client_id", None)
                     IN IF c # None THEN c ELSE msg["client_id"]
TargetGroup(msg) == Get(msg["payload"].object, "group_id", None)
=============================================================================
