-------------------------------- MODULE Message --------------------------------
(***************************************************************************)
(* The message model of models/message.py: which keys a message has as a   *)
(* JSON object and what a receiver makes of a text.                        *)
(*                                                                         *)
(* A JSON object is [object |-> f], f a function on its keys; whatever has *)
(* no such field is a text that json.loads refuses, or a value that is no  *)
(* object.  Of Python's conversions the model has what they tell apart:    *)
(* which values are false, and for which values float() returns what.      *)
(***************************************************************************)
EXTENDS TLAPS

CONSTANTS None,   \* Python's None, and JSON's null
          Falsy,  \* the values that bool() makes False
          Float   \* float(), on the values that it accepts

Types == {"hello", "downstream", "upstream", "ack", "heartbeat", "system"}

ASSUME ConversionAssumption ==
  /\ None \notin BOOLEAN /\ None \notin Types
  /\ FALSE \in Falsy /\ TRUE \notin Falsy
  /\ None \notin DOMAIN Float

Fields == {"type", "client_id", "group_id", "message_id", "need_ack", "payload", "timestamp"}

\* A message as the constructors and the annotations of the class have it.  (Its
\* payload is one that JSON gives back as it is.)
IsMessage(m) ==
  /\ m = [f \in Fields |-> m[f]]
  /\ m["type"] # None
  /\ m["need_ack"] \in BOOLEAN
  /\ m["timestamp"] \in DOMAIN Float /\ Float[m["timestamp"]] = m["timestamp"]

\* Message.ack, and the ACK of the client
AckMessage(id, message, now) ==
  [[f \in Fields |-> None] EXCEPT !["type"] = "ack", !["client_id"] = id,
     !["message_id"] = message, !["need_ack"] = FALSE, !["timestamp"] = now]

Object(f) == [object |-> f]
IsObject(v) == "object" \in DOMAIN v

\* Keys whose value is None are left out.
ToJson(m) == Object([f \in {g \in DOMAIN m : m[g] # None} |-> m[f]])

\* obj.get(k, default)
Get(obj, k, default) == IF k \in DOMAIN obj THEN obj[k] ELSE default

\* from_json_line returns a message: the text is an object, and its timestamp, if
\* it has one, is something that float() accepts.
Parses(v, now) == IsObject(v) /\ Get(v.object, "timestamp", now) \in DOMAIN Float

\* The message it returns.  Keys that are no fields are ignored, and those that are
\* missing have their defaults.
FromJson(v, now) ==
  [f \in Fields |->
     CASE f = "type"      -> Get(v.object, f, "")
       [] f = "need_ack"  -> Get(v.object, f, FALSE) \notin Falsy
       [] f = "timestamp" -> Float[Get(v.object, f, now)]
       [] OTHER           -> Get(v.object, f, None)]

-----------------------------------------------------------------------------
\* A message whose fields are what their annotations say arrives as it was sent,
\* though to_json drops the keys that are None, and from_json_line fills in
\* defaults that are not and converts what it reads: it is not dropped as
\* unparsable, and no default or conversion takes the place of a value.
THEOREM RoundTrip ==
  ASSUME NEW m, IsMessage(m), NEW now
  PROVE  Parses(ToJson(m), now) /\ FromJson(ToJson(m), now) = m
<1> DEFINE obj == ToJson(m).object
<1>1. /\ m = [f \in Fields |-> m[f]] /\ DOMAIN m = Fields
      /\ m["type"] # None /\ m["need_ack"] # None /\ m["timestamp"] # None
  BY ConversionAssumption DEF IsMessage
<1>2. IsObject(ToJson(m)) /\ obj = [f \in {g \in Fields : m[g] # None} |-> m[f]]
  BY <1>1 DEF ToJson, Object, IsObject
<1> HIDE DEF obj
<1>3. ASSUME NEW f \in Fields, NEW default, m[f] # None \/ default = None
      PROVE  Get(obj, f, default) = m[f]
  BY <1>2, <1>3 DEF Get
<1>4. Parses(ToJson(m), now)
  <2>1. Get(obj, "timestamp", now) = m["timestamp"]
    BY <1>1, <1>3 DEF Fields
  <2>2. QED
    BY <1>2, <2>1 DEF Parses, IsMessage, obj
<1>5. ASSUME NEW f \in Fields
      PROVE  FromJson(ToJson(m), now)[f] = m[f]
  <2>1. CASE f = "type"
    BY <1>1, <1>3, <2>1 DEF FromJson, obj
  <2>2. CASE f = "need_ack"
    <3>1. Get(obj, f, FALSE) = m["need_ack"] /\ m["need_ack"] \in BOOLEAN
      BY <1>1, <1>3, <2>2 DEF IsMessage
    <3>2. (m["need_ack"] \notin Falsy) = m["need_ack"]
      BY <3>1, ConversionAssumption
    <3>3. FromJson(ToJson(m), now)[f] = (Get(obj, f, FALSE) \notin Falsy)
      BY <2>2 DEF FromJson, obj
    <3>4. QED
      BY <2>2, <3>1, <3>2, <3>3
  <2>3. CASE f = "timestamp"
    <3>1. Get(obj, f, now) = m["timestamp"]
      BY <1>1, <1>3, <2>3
    <3>2. FromJson(ToJson(m), now)[f] = Float[Get(obj, f, now)]
      BY <2>3 DEF FromJson, obj
    <3>3. QED
      BY <2>3, <3>1, <3>2 DEF IsMessage
  <2>4. CASE f \notin {"type", "need_ack", "timestamp"}
    BY <1>3, <2>4 DEF FromJson, obj
  <2>5. QED
    BY <2>1, <2>2, <2>3, <2>4
<1>6. FromJson(ToJson(m), now) = [f \in Fields |-> FromJson(ToJson(m), now)[f]]
  BY DEF FromJson
<1>7. QED
  BY <1>1, <1>4, <1>5, <1>6
=============================================================================
