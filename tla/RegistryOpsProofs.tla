-------------------------- MODULE RegistryOpsProofs --------------------------
(***************************************************************************)
(* Facts about the registry's methods, for every set of clients and of     *)
(* groups: each of them yields well-formed dictionaries from well-formed   *)
(* ones, keeps the group index in agreement with the sessions, and never   *)
(* sets a session back.  The proofs about the modules that use RegistryOps *)
(* cite them by name.                                                      *)
(***************************************************************************)
EXTENDS RegistryOps, TLAPS

\* register_client keeps both dictionaries well formed and in agreement, and
\* moves the session it finds only forward.
LEMMA RegisteredFacts ==
  ASSUME NEW Clients, NEW Groups, NEW ss, NEW gs, NEW c \in Clients, NEW t \in Nat,
         IsSessionMap(ss, Clients, Groups)
  PROVE  /\ IsSessionMap(Registered(ss, c, t), Clients, Groups)
         /\ DOMAIN Registered(ss, c, t) = DOMAIN ss \cup {c}
         /\ IndexAgrees(ss, gs, Clients, Groups)
              => IndexAgrees(Registered(ss, c, t), gs, Clients, Groups)
<1> DEFINE s == [GetOr(ss, c, NewSession(t)) EXCEPT !.last_heartbeat = t]
<1>1. s \in Session(Groups) /\ s.group_ids = IF c \in DOMAIN ss THEN ss[c].group_ids ELSE {}
  BY DEF GetOr, NewSession, Session, IsSessionMap
<1>2. Registered(ss, c, t) = [x \in DOMAIN ss \cup {c} |-> IF x = c THEN s ELSE ss[x]]
  BY DEF Registered, Assign
<1> HIDE DEF s
<1>3. IsSessionMap(Registered(ss, c, t), Clients, Groups)
  BY <1>1, <1>2 DEF IsSessionMap
<1>4. ASSUME IndexAgrees(ss, gs, Clients, Groups)
      PROVE  IndexAgrees(Registered(ss, c, t), gs, Clients, Groups)
  BY <1>1, <1>2, <1>4 DEF IndexAgrees
<1>5. QED
  BY <1>2, <1>3, <1>4

\* unregister_client keeps both dictionaries well formed and in agreement: the
\* client it drops is in no group afterwards, and no group is left empty.
LEMMA UnregisteredFacts ==
  ASSUME NEW Clients, NEW Groups, NEW ss, NEW gs, NEW c \in Clients,
         IsSessionMap(ss, Clients, Groups), IsGroupMap(gs, Clients, Groups)
  PROVE  /\ IsSessionMap(Unregistered(ss, c), Clients, Groups)
         /\ IsGroupMap(GroupsWithout(ss, gs, c), Clients, Groups)
         /\ IndexAgrees(ss, gs, Clients, Groups)
              => IndexAgrees(Unregistered(ss, c), GroupsWithout(ss, gs, c), Clients, Groups)
<1>1. Unregistered(ss, c) = [x \in DOMAIN ss \ {c} |-> ss[x]]
  BY DEF Unregistered, PopAll
<1>2. IsSessionMap(Unregistered(ss, c), Clients, Groups)
  BY <1>1 DEF IsSessionMap
<1>3. IsGroupMap(GroupsWithout(ss, gs, c), Clients, Groups)
  BY DEF GroupsWithout, IsGroupMap
<1>4. ASSUME IndexAgrees(ss, gs, Clients, Groups)
      PROVE  IndexAgrees(Unregistered(ss, c), GroupsWithout(ss, gs, c), Clients, Groups)
  <2>1. CASE c \notin DOMAIN ss
    <3>1. Unregistered(ss, c) = ss
      BY <1>1, <2>1 DEF IsSessionMap
    <3>2. QED
      BY <1>4, <2>1, <3>1 DEF GroupsWithout
  <2>2. CASE c \in DOMAIN ss
    BY <1>1, <1>4, <2>2 DEF IndexAgrees, GroupsWithout, Members, GetOr, IsGroupMap
  <2>3. QED
    BY <2>1, <2>2
<1>5. QED
  BY <1>2, <1>3, <1>4

\* heartbeat, record_message_sent and record_ack_received touch one session and
\* leave its groups alone.
LEMMA TouchedFacts ==
  ASSUME NEW Clients, NEW Groups, NEW ss, NEW gs, NEW c \in Clients, NEW t \in Nat,
         IsSessionMap(ss, Clients, Groups),
         NEW next \in {HeardOf(ss, c, t), CountedSent(ss, c), CountedAck(ss, c)}
  PROVE  /\ IsSessionMap(next, Clients, Groups)
         /\ DOMAIN next = DOMAIN ss
         /\ IndexAgrees(ss, gs, Clients, Groups) => IndexAgrees(next, gs, Clients, Groups)
<1>1. /\ DOMAIN next = DOMAIN ss
      /\ next \in [DOMAIN ss -> Session(Groups)]
      /\ \A x \in DOMAIN ss : next[x].group_ids = ss[x].group_ids
  BY DEF IsSessionMap, Session, HeardOf, CountedSent, CountedAck
<1>2. QED
  BY <1>1 DEF IsSessionMap, IndexAgrees

\* add_client_to_group keeps both dictionaries well formed and in agreement.
LEMMA JoinedFacts ==
  ASSUME NEW Clients, NEW Groups, NEW ss, NEW gs, NEW c \in Clients, NEW g \in Groups,
         NEW t \in Nat,
         IsSessionMap(ss, Clients, Groups), IsGroupMap(gs, Clients, Groups)
  PROVE  /\ IsSessionMap(SessionsJoined(ss, c, g, t), Clients, Groups)
         /\ IsGroupMap(GroupsJoined(gs, c, g), Clients, Groups)
         /\ IndexAgrees(ss, gs, Clients, Groups)
              => IndexAgrees(SessionsJoined(ss, c, g, t), GroupsJoined(gs, c, g), Clients, Groups)
<1> DEFINE old == GetOr(ss, c, NewSession(t))
           s == [old EXCEPT !.group_ids = @ \cup {g}]
<1>1. /\ s \in Session(Groups)
      /\ s.group_ids = (IF c \in DOMAIN ss THEN ss[c].group_ids ELSE {}) \cup {g}
  BY DEF GetOr, NewSession, Session, IsSessionMap
<1>2. SessionsJoined(ss, c, g, t) = [x \in DOMAIN ss \cup {c} |-> IF x = c THEN s ELSE ss[x]]
  BY DEF SessionsJoined, Assign
<1> HIDE DEF s
<1>3. GroupsJoined(gs, c, g)
        = [x \in DOMAIN gs \cup {g} |-> IF x = g THEN Members(gs, g) \cup {c} ELSE gs[x]]
  BY DEF GroupsJoined, Assign, Members
<1>4. IsSessionMap(SessionsJoined(ss, c, g, t), Clients, Groups)
  BY <1>1, <1>2 DEF IsSessionMap
<1>5. IsGroupMap(GroupsJoined(gs, c, g), Clients, Groups)
  BY <1>3 DEF IsGroupMap, Members, GetOr
<1>6. ASSUME IndexAgrees(ss, gs, Clients, Groups)
      PROVE  IndexAgrees(SessionsJoined(ss, c, g, t), GroupsJoined(gs, c, g), Clients, Groups)
  BY <1>1, <1>2, <1>3, <1>6 DEF IndexAgrees, Members, GetOr
<1>7. QED
  BY <1>4, <1>5, <1>6

\* remove_client_from_group keeps both dictionaries well formed and in agreement.
LEMMA LeftFacts ==
  ASSUME NEW Clients, NEW Groups, NEW ss, NEW gs, NEW c \in Clients, NEW g \in Groups,
         IsSessionMap(ss, Clients, Groups), IsGroupMap(gs, Clients, Groups)
  PROVE  /\ IsSessionMap(SessionsLeft(ss, c, g), Clients, Groups)
         /\ IsGroupMap(GroupsLeft(gs, c, g), Clients, Groups)
         /\ DOMAIN SessionsLeft(ss, c, g) = DOMAIN ss
         /\ IndexAgrees(ss, gs, Clients, Groups)
              => IndexAgrees(SessionsLeft(ss, c, g), GroupsLeft(gs, c, g), Clients, Groups)
<1> DEFINE next == SessionsLeft(ss, c, g)
<1>1. /\ DOMAIN next = DOMAIN ss
      /\ next \in [DOMAIN ss -> Session(Groups)]
      /\ \A x \in DOMAIN ss :
            next[x].group_ids = IF x = c THEN ss[x].group_ids \ {g} ELSE ss[x].group_ids
  BY DEF IsSessionMap, Session, SessionsLeft
<1>2. IsGroupMap(GroupsLeft(gs, c, g), Clients, Groups)
  BY DEF GroupsLeft, IsGroupMap, GetOr, PopAll
<1>3. ASSUME IndexAgrees(ss, gs, Clients, Groups)
      PROVE  IndexAgrees(next, GroupsLeft(gs, c, g), Clients, Groups)
  <2>1. \A h \in Groups : Members(GroupsLeft(gs, c, g), h)
                            = IF h = g THEN Members(gs, h) \ {c} ELSE Members(gs, h)
    BY DEF GroupsLeft, Members, GetOr, PopAll, IsGroupMap
  <2>2. \A h \in DOMAIN GroupsLeft(gs, c, g) : GroupsLeft(gs, c, g)[h] # {}
    BY <1>3 DEF IndexAgrees, GroupsLeft, GetOr, PopAll, IsGroupMap
  <2>3. QED
    BY <1>1, <1>3, <2>1, <2>2 DEF IndexAgrees
<1>4. QED
  BY <1>1, <1>2, <1>3 DEF IsSessionMap

\* No method sets the session of a client that stays online back, when the time
\* it stores is not before the heartbeats already there.
LEMMA ForwardFacts ==
  ASSUME NEW Groups, NEW Clients, NEW ss, NEW c \in Clients, NEW g, NEW t \in Nat,
         IsSessionMap(ss, Clients, Groups),
         \A x \in DOMAIN ss : ss[x].last_heartbeat <= t,
         NEW next \in {ss, Registered(ss, c, t), Unregistered(ss, c), HeardOf(ss, c, t),
                       SessionsJoined(ss, c, g, t), SessionsLeft(ss, c, g),
                       CountedSent(ss, c), CountedAck(ss, c)}
  PROVE  /\ OnlyForward(ss, next)
         /\ \A x \in DOMAIN next : next[x].last_heartbeat <= t
<1> DEFINE Fine(n) == /\ OnlyForward(ss, n)
                      /\ \A x \in DOMAIN n : n[x].last_heartbeat <= t
<1> USE DEF OnlyForward, IsSessionMap, Session
<1>1. Fine(ss) /\ Fine(Unregistered(ss, c))
  BY DEF Unregistered, PopAll
<1>2. Fine(Registered(ss, c, t)) /\ Fine(SessionsJoined(ss, c, g, t))
  <2> DEFINE old == GetOr(ss, c, NewSession(t))
             heard == [old EXCEPT !.last_heartbeat = t]
             joined == [old EXCEPT !.group_ids = @ \cup {g}]
             Put(s) == [x \in DOMAIN ss \cup {c} |-> IF x = c THEN s ELSE ss[x]]
             Later(s) == /\ s.last_heartbeat <= t
                         /\ c \in DOMAIN ss => /\ s.last_heartbeat >= ss[c].last_heartbeat
                                               /\ s.messages_sent >= ss[c].messages_sent
                                               /\ s.acks_received >= ss[c].acks_received
  <2>1. Later(heard) /\ Later(joined)
    <3>1. /\ old = IF c \in DOMAIN ss THEN ss[c] ELSE NewSession(t)
          /\ old \in [group_ids : SUBSET Groups, last_heartbeat : Nat,
                      messages_sent : Nat, acks_received : Nat]
      BY DEF GetOr, NewSession
    <3>2. Later(old) /\ (c \in DOMAIN ss => ss[c].last_heartbeat <= t)
      BY <3>1 DEF NewSession
    <3> HIDE DEF old
    <3>3. QED
      BY <3>1, <3>2
  <2>2. Registered(ss, c, t) = Put(heard) /\ SessionsJoined(ss, c, g, t) = Put(joined)
    BY DEF Registered, SessionsJoined, Assign
  <2> HIDE DEF heard, joined
  <2>3. \A s : Later(s) => Fine(Put(s))
    OBVIOUS
  <2> HIDE DEF Later, Put, Fine
  <2>4. QED
    BY <2>1, <2>2, <2>3
<1>3. Fine(HeardOf(ss, c, t)) /\ Fine(SessionsLeft(ss, c, g))
  BY DEF HeardOf, SessionsLeft
<1>4. Fine(CountedSent(ss, c)) /\ Fine(CountedAck(ss, c))
  BY DEF CountedSent, CountedAck
<1>5. QED
  BY <1>1, <1>2, <1>3, <1>4
-----------------------------------------------------------------------------
\* The membership relation that a value of _groups stands for.
MembershipOf(gs, Clients, Groups) == {m \in Clients \X Groups : m[1] \in Members(gs, m[2])}

\* What unregister_client does to _groups is what leaving the directory does to
\* the relation: for an offline client nothing, since it is in no group.
LEMMA DepartMaps ==
  ASSUME NEW Clients, NEW Groups, NEW ss, NEW gs, NEW c \in Clients,
         IsGroupMap(gs, Clients, Groups), IndexAgrees(ss, gs, Clients, Groups)
  PROVE  MembershipOf(GroupsWithout(ss, gs, c), Clients, Groups)
           = {m \in MembershipOf(gs, Clients, Groups) : m[1] # c}
<1>1. \A g \in Groups : Members(GroupsWithout(ss, gs, c), g) = Members(gs, g) \ {c}
  BY DEF IsGroupMap, IndexAgrees, GroupsWithout, Members, GetOr
<1>2. QED
  BY <1>1 DEF MembershipOf

\* What add_client_to_group and remove_client_from_group do to _groups.
LEMMA JoinLeaveMap ==
  ASSUME NEW Clients, NEW Groups, NEW gs, NEW c \in Clients, NEW g \in Groups,
         IsGroupMap(gs, Clients, Groups)
  PROVE  /\ MembershipOf(GroupsJoined(gs, c, g), Clients, Groups)
              = MembershipOf(gs, Clients, Groups) \cup {<<c, g>>}
         /\ MembershipOf(GroupsLeft(gs, c, g), Clients, Groups)
              = MembershipOf(gs, Clients, Groups) \ {<<c, g>>}
<1>1. \A h \in Groups :
        /\ Members(GroupsJoined(gs, c, g), h)
             = IF h = g THEN Members(gs, h) \cup {c} ELSE Members(gs, h)
        /\ Members(GroupsLeft(gs, c, g), h)
             = IF h = g THEN Members(gs, h) \ {c} ELSE Members(gs, h)
  BY DEF IsGroupMap, GroupsJoined, GroupsLeft, Assign, PopAll, Members, GetOr
<1>2. QED
  BY <1>1 DEF MembershipOf
=============================================================================
