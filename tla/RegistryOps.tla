----------------------------- MODULE RegistryOps -----------------------------
(***************************************************************************)
(* What each method of ConnectionRegistry (core/registry.py) does to its   *)
(* two dictionaries, as operators from their old value to their new one:   *)
(*                                                                         *)
(*   sessions   the dict _clients: the online ids, each with its session   *)
(*   groups     the dict _groups: the known groups, each with its members  *)
(*                                                                         *)
(* A dict is a function on the set of its keys.  The modules with state    *)
(* (ConnectionRegistry, WsGateway) take their primed variables from here,  *)
(* so the registry is translated once.  A session leaves out client_id,    *)
(* which is its key, and connected_at, which nothing reads.                *)
(***************************************************************************)
EXTENDS Integers, FiniteSets

\* d[k] = v
Assign(d, k, v) == [x \in DOMAIN d \cup {k} |-> IF x = k THEN v ELSE d[x]]

\* The dict without the keys in K: d.pop(k, None) for each of them.
PopAll(d, K) == [x \in DOMAIN d \ K |-> d[x]]

\* d.get(k, default)
GetOr(d, k, default) == IF k \in DOMAIN d THEN d[k] ELSE default

Session(Groups) == [group_ids : SUBSET Groups, last_heartbeat : Nat,
                    messages_sent : Nat, acks_received : Nat]

\* ClientSession(client_id) at time t.
NewSession(t) == [group_ids |-> {}, last_heartbeat |-> t,
                  messages_sent |-> 0, acks_received |-> 0]

\* Mutant of Registered: a client that registers again gets a new session.
RegisteredAnew(sessions, c, t) == Assign(sessions, c, NewSession(t))

\* register_client without its optional group: an online client keeps its
\* session, and either way the session has just been heard of.
Registered(sessions, c, t) ==
  Assign(sessions, c,
         [GetOr(sessions, c, NewSession(t)) EXCEPT !.last_heartbeat = t])

\* unregister_client on _clients.
Unregistered(sessions, c) == PopAll(sessions, {c})

\* Mutant of GroupsWithout: the groups the client empties are kept.
GroupsKeptEmpty(sessions, groups, c) ==
  IF c \notin DOMAIN sessions
  THEN groups
  ELSE [g \in DOMAIN groups |-> groups[g] \ {c}]

\* unregister_client on _groups: nothing for an unknown client, else the
\* client leaves every group and the groups it empties are dropped.
GroupsWithout(sessions, groups, c) ==
  IF c \notin DOMAIN sessions
  THEN groups
  ELSE [g \in {h \in DOMAIN groups : groups[h] \ {c} # {}} |-> groups[g] \ {c}]

\* heartbeat
HeardOf(sessions, c, t) ==
  IF c \in DOMAIN sessions
  THEN [sessions EXCEPT ![c].last_heartbeat = t]
  ELSE sessions

\* add_client_to_group on _clients: setdefault makes a session for a client
\* that has none, which puts it online.
SessionsJoined(sessions, c, g, t) ==
  Assign(sessions, c,
         [GetOr(sessions, c, NewSession(t)) EXCEPT !.group_ids = @ \cup {g}])

\* Mutant of GroupsJoined: the group and the client are swapped.
GroupsJoinedSwapped(groups, c, g) == Assign(groups, c, GetOr(groups, c, {}) \cup {g})

\* add_client_to_group on _groups.
GroupsJoined(groups, c, g) == Assign(groups, g, GetOr(groups, g, {}) \cup {c})

\* remove_client_from_group on _clients.
SessionsLeft(sessions, c, g) ==
  IF c \in DOMAIN sessions
  THEN [sessions EXCEPT ![c].group_ids = @ \ {g}]
  ELSE sessions

\* Mutant of GroupsLeft: the group goes, whoever else is in it.
GroupsLeftByAll(groups, c, g) == PopAll(groups, {g})

\* remove_client_from_group on _groups: the group goes with its last member.
GroupsLeft(groups, c, g) ==
  IF GetOr(groups, g, {}) = {} THEN groups
  ELSE IF groups[g] \ {c} = {} THEN PopAll(groups, {g})
  ELSE [groups EXCEPT ![g] = @ \ {c}]

\* Mutant of CountedSent: setdefault, as in add_client_to_group.
CountedSentAnyway(sessions, c) ==
  Assign(sessions, c, [GetOr(sessions, c, NewSession(0)) EXCEPT !.messages_sent = @ + 1])

\* record_message_sent
CountedSent(sessions, c) ==
  IF c \in DOMAIN sessions
  THEN [sessions EXCEPT ![c].messages_sent = @ + 1]
  ELSE sessions

\* record_ack_received
CountedAck(sessions, c) ==
  IF c \in DOMAIN sessions
  THEN [sessions EXCEPT ![c].acks_received = @ + 1]
  ELSE sessions

\* get_group_members
Members(groups, g) == GetOr(groups, g, {})

-----------------------------------------------------------------------------
\* The two dicts hold sessions of Clients and members of Groups.
IsSessionMap(sessions, Clients, Groups) ==
  DOMAIN sessions \subseteq Clients /\ sessions \in [DOMAIN sessions -> Session(Groups)]

IsGroupMap(groups, Clients, Groups) ==
  DOMAIN groups \subseteq Groups /\ groups \in [DOMAIN groups -> SUBSET Clients]

\* The two views of membership agree: c is in _groups[g] exactly when g is in
\* the group_ids of c's session, and no group is kept without members.
IndexAgrees(sessions, groups, Clients, Groups) ==
  /\ \A c \in Clients, g \in Groups :
       c \in Members(groups, g) <=> c \in DOMAIN sessions /\ g \in sessions[c].group_ids
  /\ \A g \in DOMAIN groups : groups[g] # {}

\* From ss to next, no session that is in both is set back: its heartbeat and
\* its counts only grow.
OnlyForward(ss, next) ==
  \A c \in DOMAIN ss \cap DOMAIN next :
    /\ next[c].last_heartbeat >= ss[c].last_heartbeat
    /\ next[c].messages_sent >= ss[c].messages_sent
    /\ next[c].acks_received >= ss[c].acks_received
=============================================================================
