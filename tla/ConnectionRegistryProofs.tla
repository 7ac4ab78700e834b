----------------------- MODULE ConnectionRegistryProofs -----------------------
(***************************************************************************)
(* What ConnectionRegistry guarantees for any number of threads, clients   *)
(* and groups, with or without callers that pass a group to                *)
(* register_client.  Every theorem rests on IInv, which is inductive.      *)
(***************************************************************************)
EXTENDS ConnectionRegistry, RegistryOpsProofs

IInv == TypeOK /\ LockProtects /\ GroupIndexAgrees /\ HeartbeatsArePast

\* The clients, groups and times of a call are those the methods are given.
LEMMA CallArguments ==
  ASSUME TypeOK, NEW t \in Threads, pc[t] = "inside"
  PROVE  /\ call[t] \in Calls
         /\ call[t].client \in Clients
         /\ call[t].name \in {"add_client_to_group", "remove_client_from_group"}
              => call[t].group \in Groups
         /\ call[t].name = "register_client"
              => call[t].group \in GroupArgs \cup {NoGroup}
  BY RegistryAssumption DEF TypeOK, Calls, Call, Idle, PlainMethods, Queries

\* Every body keeps the dictionaries well formed, in agreement, not ahead of
\* the clock, and sets no session back.
LEMMA BodyKeepsDictionaries ==
  ASSUME IInv, NEW t \in Threads, Body(t)
  PROVE  /\ IsSessionMap(sessions', Clients, Groups)
         /\ IsGroupMap(groups', Clients, Groups)
         /\ IndexAgrees(sessions', groups', Clients, Groups)
         /\ OnlyForward(sessions, sessions')
         /\ \A c \in DOMAIN sessions' : sessions'[c].last_heartbeat <= now
<1> DEFINE c == call[t].client
           g == call[t].group
           Good(ss, gs) == /\ IsSessionMap(ss, Clients, Groups)
                           /\ IsGroupMap(gs, Clients, Groups)
                           /\ IndexAgrees(ss, gs, Clients, Groups)
           Onward(ss) == /\ OnlyForward(sessions, ss)
                         /\ \A x \in DOMAIN ss : ss[x].last_heartbeat <= now
<1>1. /\ Good(sessions, groups)
      /\ now \in Nat
      /\ \A x \in DOMAIN sessions : sessions[x].last_heartbeat <= now
  BY DEF IInv, TypeOK, GroupIndexAgrees, HeartbeatsArePast
<1>2. /\ c \in Clients
      /\ call[t].name \in {"add_client_to_group", "remove_client_from_group"} => g \in Groups
  BY CallArguments DEF IInv, Body, Inside, Register, RegisterIntoGroup, Unregister, Heartbeat,
     AddToGroup, RemoveFromGroup, RecordMessageSent, RecordAckReceived, Query
<1>3. Onward(sessions) /\ Onward(Registered(sessions, c, now)) /\ Onward(Unregistered(sessions, c))
      /\ Onward(HeardOf(sessions, c, now)) /\ Onward(SessionsJoined(sessions, c, g, now))
      /\ Onward(SessionsLeft(sessions, c, g))
      /\ Onward(CountedSent(sessions, c)) /\ Onward(CountedAck(sessions, c))
  BY <1>1, <1>2, ForwardFacts
<1>4. Good(sessions', groups') /\ Onward(sessions')
  <2>1. CASE Register(t) \/ RegisterIntoGroup(t)
    <3>1. Good(Registered(sessions, c, now), groups)
      BY <1>1, <1>2, RegisteredFacts
    <3>2. sessions' = Registered(sessions, c, now) /\ groups' = groups
      BY <2>1 DEF Register, RegisterIntoGroup
    <3>3. QED
      BY <1>3, <3>1, <3>2
  <2>2. CASE Unregister(t)
    BY <1>1, <1>2, <1>3, <2>2, UnregisteredFacts DEF Unregister
  <2>3. CASE Heartbeat(t) \/ RecordMessageSent(t) \/ RecordAckReceived(t)
    <3>1. /\ sessions' \in {HeardOf(sessions, c, now), CountedSent(sessions, c),
                           CountedAck(sessions, c)}
          /\ groups' = groups
      BY <2>3 DEF Heartbeat, RecordMessageSent, RecordAckReceived
    <3>2. ASSUME NEW next \in {HeardOf(sessions, c, now), CountedSent(sessions, c),
                              CountedAck(sessions, c)}
          PROVE  Good(next, groups)
      BY <1>1, <1>2, TouchedFacts
    <3>3. QED
      BY <1>3, <3>1, <3>2
  <2>4. CASE AddToGroup(t)
    BY <1>1, <1>2, <1>3, <2>4, JoinedFacts DEF AddToGroup, Inside
  <2>5. CASE RemoveFromGroup(t)
    BY <1>1, <1>2, <1>3, <2>5, LeftFacts DEF RemoveFromGroup, Inside
  <2>6. CASE Query(t)
    BY <1>1, <1>3, <2>6 DEF Query
  <2>7. QED
    BY <2>1, <2>2, <2>3, <2>4, <2>5, <2>6 DEF Body
<1>5. QED
  BY <1>4

\* A body that ends frees the lock; register_client with a group keeps it and
\* leaves its thread in front of it.
LEMMA BodyReleases ==
  ASSUME NEW t \in Threads, Body(t)
  PROVE  /\ pc[t] = "inside"
         /\ now' = now
         /\ \/ Release(t)
            \/ /\ lock' = lock
               /\ pc' = [pc EXCEPT ![t] = "blocked"]
               /\ call[t].name = "register_client" /\ call[t].group # NoGroup
               /\ call' = [call EXCEPT ![t] = Call("add_client_to_group", call[t].client, @.group)]
  BY DEF Body, Inside, Release, Register, RegisterIntoGroup, Unregister, Heartbeat, AddToGroup,
     RemoveFromGroup, RecordMessageSent, RecordAckReceived, Query

LEMMA InitIInv == Init => IInv
  BY RegistryAssumption DEF Init, IInv, TypeOK, LockProtects, GroupIndexAgrees, HeartbeatsArePast, IsSessionMap,
     IsGroupMap, IndexAgrees, Members, GetOr, Idle

\* One step of any thread, or of the clock, keeps IInv.
LEMMA StepIInv == IInv /\ [Next]_vars => IInv'
<1> SUFFICES ASSUME IInv, [Next]_vars
             PROVE  IInv'
  OBVIOUS
<1>1. ASSUME NEW t \in Threads, NEW op \in Calls, Invoke(t, op)
      PROVE  IInv'
  <2>1. op # Idle
    BY DEF Calls, Call, Idle
  <2>2. QED
    BY <1>1, <2>1 DEF IInv, TypeOK, LockProtects, GroupIndexAgrees, HeartbeatsArePast, Invoke
<1>2. ASSUME NEW t \in Threads, Acquire(t)
      PROVE  IInv'
  BY RegistryAssumption, <1>2 DEF IInv, TypeOK, LockProtects, GroupIndexAgrees, HeartbeatsArePast, Acquire
<1>3. ASSUME NEW t \in Threads, Body(t)
      PROVE  IInv'
  <2>1. /\ IsSessionMap(sessions', Clients, Groups)
        /\ IsGroupMap(groups', Clients, Groups)
        /\ GroupIndexAgrees'
        /\ HeartbeatsArePast'
    BY <1>3, BodyKeepsDictionaries, BodyReleases DEF GroupIndexAgrees, HeartbeatsArePast
  <2>2. CASE Release(t)
    BY RegistryAssumption, <1>3, <2>1, <2>2, BodyReleases DEF IInv, TypeOK, LockProtects, Release
  <2>3. CASE ~Release(t)
    <3>1. /\ call[t].client \in Clients /\ call[t].group \in Groups
          /\ lock' = lock /\ now' = now
          /\ pc' = [pc EXCEPT ![t] = "blocked"]
          /\ call' = [call EXCEPT ![t] = Call("add_client_to_group", call[t].client, @.group)]
      BY RegistryAssumption, <1>3, <2>3, BodyReleases, CallArguments DEF IInv
    <3> DEFINE nested == Call("add_client_to_group", call[t].client, call[t].group)
    <3>2. nested \in Calls /\ nested # Idle /\ nested.name = "add_client_to_group"
      BY <3>1 DEF Calls, Call, Idle
    <3> HIDE DEF nested
    <3>3. TypeOK'
      BY <2>1, <3>1, <3>2 DEF IInv, TypeOK, nested
    <3>4. LockProtects'
      BY <1>3, <3>1, <3>2 DEF IInv, TypeOK, LockProtects, nested
    <3>5. QED
      BY <2>1, <3>3, <3>4 DEF IInv
  <2>4. QED
    BY <2>2, <2>3
<1>4. CASE Tick
  BY <1>4 DEF IInv, TypeOK, LockProtects, GroupIndexAgrees, HeartbeatsArePast, Tick,
     IsSessionMap, Session
<1>5. CASE UNCHANGED vars
  BY <1>5 DEF IInv, TypeOK, LockProtects, GroupIndexAgrees, HeartbeatsArePast, vars
<1>6. QED
  BY <1>1, <1>2, <1>3, <1>4, <1>5 DEF Next

\* The registry's state stays made of well-formed sessions, groups and calls.
THEOREM RegistryTypeCorrect == Spec => []TypeOK
<1>1. IInv => TypeOK
  BY DEF IInv
<1>2. QED
  BY <1>1, InitIInv, StepIInv, PTL DEF Spec

\* The lock does what `with self._lock:` is there for: no two threads are inside
\* a body together, and the only thread that keeps the lock without being inside
\* is one that register_client led to wait for itself.
THEOREM RegistryLockProtects == Spec => []LockProtects
<1>1. IInv => LockProtects
  BY DEF IInv
<1>2. QED
  BY <1>1, InitIInv, StepIInv, PTL DEF Spec

\* _groups and the sessions' group_ids agree in every reachable state, so a
\* broadcast to a group never addresses a client that is offline.
THEOREM RegistryGroupIndexAgrees == Spec => []GroupIndexAgrees
<1>1. IInv => GroupIndexAgrees
  BY DEF IInv
<1>2. QED
  BY <1>1, InitIInv, StepIInv, PTL DEF Spec

\* No step sets back the heartbeat or the counts of a client that stays online.
THEOREM RegistrySessionNeverRegresses == Spec => SessionNeverRegresses
<1>1. IInv /\ [Next]_vars => [OnlyForward(sessions, sessions')]_vars
  <2> SUFFICES ASSUME IInv, Next
               PROVE  OnlyForward(sessions, sessions')
    OBVIOUS
  <2>1. ASSUME NEW t \in Threads, Body(t)
        PROVE  OnlyForward(sessions, sessions')
    BY <2>1, BodyKeepsDictionaries
  <2>2. ASSUME sessions' = sessions
        PROVE  OnlyForward(sessions, sessions')
    BY <2>2 DEF OnlyForward, IInv, TypeOK, IsSessionMap, Session
  <2>3. QED
    BY <2>1, <2>2 DEF Next, Invoke, Acquire, Tick
<1>2. QED
  BY <1>1, InitIInv, StepIInv, PTL DEF Spec, SessionNeverRegresses

-----------------------------------------------------------------------------
\* The registry implements the directory: seen through its online set and its
\* group index, every call is one atomic step of OnlineDirectory or none at all.
THEOREM RegistryImplementsDirectory == Spec => ImplementsDirectory
<1> DEFINE online == DOMAIN sessions
           member == MembershipOf(groups, Clients, Groups)
<1> USE DEF Directory!dirVars, Directory!DirNext, MembershipOf
<1>1. Init => Directory!DirInit
  BY DEF Init, Directory!DirInit, Members, GetOr
<1>2. IInv /\ [Next]_vars => [Directory!DirNext]_(Directory!dirVars)
  <2> SUFFICES ASSUME IInv, [Next]_vars
               PROVE  Directory!DirNext \/ (online' = online /\ member' = member)
    OBVIOUS
  <2>1. ASSUME NEW t \in Threads, Register(t) \/ RegisterIntoGroup(t)
        PROVE  Directory!DirNext
    <3>1. call[t].client \in Clients /\ groups' = groups
          /\ sessions' = Registered(sessions, call[t].client, now)
      BY <2>1, CallArguments DEF IInv, Register, RegisterIntoGroup, Inside
    <3>2. online' = online \cup {call[t].client}
      BY <3>1 DEF Registered, Assign
    <3>3. QED
      BY <3>1, <3>2 DEF Directory!Arrive
  <2>2. ASSUME NEW t \in Threads, Unregister(t)
        PROVE  Directory!DirNext
    <3>1. /\ call[t].client \in Clients
          /\ sessions' = Unregistered(sessions, call[t].client)
          /\ groups' = GroupsWithout(sessions, groups, call[t].client)
      BY <2>2, CallArguments DEF IInv, Unregister, Inside
    <3>2. online' = online \ {call[t].client}
      BY <3>1 DEF Unregistered, PopAll
    <3>3. member' = {m \in member : m[1] # call[t].client}
      BY <3>1, DepartMaps DEF IInv, TypeOK, GroupIndexAgrees
    <3>4. QED
      BY <3>1, <3>2, <3>3 DEF Directory!Depart
  <2>3. ASSUME NEW t \in Threads, AddToGroup(t)
        PROVE  Directory!DirNext
    <3> DEFINE c == call[t].client
               g == call[t].group
    <3>1. /\ c \in Clients /\ g \in Groups
          /\ sessions' = SessionsJoined(sessions, c, g, now)
          /\ groups' = GroupsJoined(groups, c, g)
      BY <2>3, CallArguments DEF IInv, AddToGroup, Inside
    <3>2. online' = online \cup {c}
      BY <3>1 DEF SessionsJoined, Assign
    <3>3. member' = member \cup {<<c, g>>}
      BY <3>1, JoinLeaveMap DEF IInv, TypeOK
    <3>4. QED
      BY <3>1, <3>2, <3>3 DEF Directory!Join
  <2>4. ASSUME NEW t \in Threads, RemoveFromGroup(t)
        PROVE  Directory!DirNext
    <3> DEFINE c == call[t].client
               g == call[t].group
    <3>1. /\ c \in Clients /\ g \in Groups
          /\ sessions' = SessionsLeft(sessions, c, g)
          /\ groups' = GroupsLeft(groups, c, g)
      BY <2>4, CallArguments DEF IInv, RemoveFromGroup, Inside
    <3>2. online' = online
      BY <3>1 DEF SessionsLeft
    <3>3. member' = member \ {<<c, g>>}
      BY <3>1, JoinLeaveMap DEF IInv, TypeOK
    <3>4. QED
      BY <3>1, <3>2, <3>3 DEF Directory!Leave
  <2>5. ASSUME NEW t \in Threads,
               Heartbeat(t) \/ RecordMessageSent(t) \/ RecordAckReceived(t) \/ Query(t)
        PROVE  online' = online /\ member' = member
    BY <2>5 DEF Heartbeat, RecordMessageSent, RecordAckReceived, Query,
       HeardOf, CountedSent, CountedAck
  <2>6. QED
    BY <2>1, <2>2, <2>3, <2>4, <2>5 DEF Next, Body, Invoke, Acquire, Tick, vars
<1>3. QED
  BY <1>1, <1>2, InitIInv, StepIInv, PTL DEF Spec, ImplementsDirectory, Directory!DirSpec
=============================================================================
