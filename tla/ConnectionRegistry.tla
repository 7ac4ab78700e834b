-------------------------- MODULE ConnectionRegistry --------------------------
(***************************************************************************)
(* ConnectionRegistry of core/registry.py as an object that several        *)
(* threads call.  A method is `with self._lock:` around a body, so a call  *)
(* is three steps of its thread: Invoke, Acquire (blocks while the lock is *)
(* taken) and the body, which ends by releasing the lock.                  *)
(*                                                                         *)
(* One method is different: register_client with a group_id calls          *)
(* add_client_to_group while it holds the lock, and add_client_to_group    *)
(* takes the same lock.  threading.Lock is not reentrant.                  *)
(***************************************************************************)
EXTENDS RegistryOps

CONSTANTS Threads,    \* the threads that call the registry
          Clients,    \* the client ids they use
          Groups,     \* the group ids they use
          GroupArgs,  \* the groups some caller passes to register_client
          NoThread,   \* the lock is free
          NoGroup,    \* the argument group_id=None
          MaxTime,    \* bound: the clock stops here
          MaxCount    \* bound: message and ACK counts per client

ASSUME RegistryAssumption ==
  /\ GroupArgs \subseteq Groups
  /\ NoThread \notin Threads
  /\ NoGroup \notin Groups
  /\ MaxTime \in Nat
  /\ MaxCount \in Nat

VARIABLES sessions,   \* _clients
          groups,     \* _groups
          lock,       \* _lock: the thread that holds it, or NoThread
          pc,         \* thread -> "idle", "blocked" on the lock, or "inside"
          call,       \* thread -> the call it is executing
          now         \* time.time(), as it passes between the calls

vars == <<sessions, groups, lock, pc, call, now>>

Call(name, c, g) == [name |-> name, client |-> c, group |-> g]
PlainMethods == {"unregister_client", "heartbeat",
                 "record_message_sent", "record_ack_received"}
Counting == {"record_message_sent", "record_ack_received"}

\* list_online_clients, get_group_members and get_stats: they hold the lock
\* and change nothing.
Queries == {"query"}

Calls ==
  {Call(m, c, NoGroup) : m \in PlainMethods \cup Queries, c \in Clients}
    \cup {Call("register_client", c, g) : c \in Clients, g \in GroupArgs \cup {NoGroup}}
    \cup {Call(m, c, g) : m \in {"add_client_to_group", "remove_client_from_group"},
                          c \in Clients, g \in Groups}

Idle == [name |-> "none"]

-----------------------------------------------------------------------------
Init == /\ sessions = <<>>
        /\ groups = <<>>
        /\ lock = NoThread
        /\ pc = [t \in Threads |-> "idle"]
        /\ call = [t \in Threads |-> Idle]
        /\ now = 0

\* The counts of c, with the calls in progress that may still raise them.
CountsOf(c) ==
  LET s == GetOr(sessions, c, NewSession(0))
  IN  s.messages_sent + s.acks_received
        + Cardinality({t \in Threads : call[t].name \in Counting})

\* A thread calls a method and is in front of `with self._lock:`.
Invoke(t, op) ==
  /\ pc[t] = "idle"
  /\ op.name \in Counting => CountsOf(op.client) < MaxCount
  /\ pc' = [pc EXCEPT ![t] = "blocked"]
  /\ call' = [call EXCEPT ![t] = op]
  /\ UNCHANGED <<sessions, groups, lock, now>>

\* Mutant of Acquire: no lock.
AcquireAlways(t) ==
  /\ pc[t] = "blocked"
  /\ lock' = t
  /\ pc' = [pc EXCEPT ![t] = "inside"]
  /\ UNCHANGED <<sessions, groups, call, now>>

\* threading.Lock lets a thread in when nobody holds it, its holder included.
Acquire(t) ==
  /\ pc[t] = "blocked"
  /\ lock = NoThread
  /\ lock' = t
  /\ pc' = [pc EXCEPT ![t] = "inside"]
  /\ UNCHANGED <<sessions, groups, call, now>>

\* The end of the with block.
Release(t) ==
  /\ lock' = NoThread
  /\ pc' = [pc EXCEPT ![t] = "idle"]
  /\ call' = [call EXCEPT ![t] = Idle]
  /\ UNCHANGED now

Inside(t, name) == pc[t] = "inside" /\ call[t].name = name

-----------------------------------------------------------------------------
\* Mutant of Register: the time is stored by a call of heartbeat.
RegisterThenHeartbeat(t) ==
  LET c == call[t].client IN
  /\ Inside(t, "register_client")
  /\ call[t].group = NoGroup
  /\ sessions' = Registered(sessions, c, now)
  /\ pc' = [pc EXCEPT ![t] = "blocked"]
  /\ call' = [call EXCEPT ![t] = Call("heartbeat", c, NoGroup)]
  /\ UNCHANGED <<groups, lock, now>>

Register(t) ==
  LET c == call[t].client IN
  /\ Inside(t, "register_client")
  /\ call[t].group = NoGroup
  /\ sessions' = Registered(sessions, c, now)
  /\ UNCHANGED groups
  /\ Release(t)

\* With a group: the session is there, and the thread is now in front of the
\* lock of add_client_to_group, which it holds itself.
RegisterIntoGroup(t) ==
  LET c == call[t].client IN
  /\ Inside(t, "register_client")
  /\ call[t].group # NoGroup
  /\ sessions' = Registered(sessions, c, now)
  /\ pc' = [pc EXCEPT ![t] = "blocked"]
  /\ call' = [call EXCEPT ![t] = Call("add_client_to_group", c, @.group)]
  /\ UNCHANGED <<groups, lock, now>>

Unregister(t) ==
  LET c == call[t].client IN
  /\ Inside(t, "unregister_client")
  /\ sessions' = Unregistered(sessions, c)
  /\ groups' = GroupsWithout(sessions, groups, c)
  /\ Release(t)

Heartbeat(t) ==
  /\ Inside(t, "heartbeat")
  /\ sessions' = HeardOf(sessions, call[t].client, now)
  /\ UNCHANGED groups
  /\ Release(t)

AddToGroup(t) ==
  LET c == call[t].client  g == call[t].group IN
  /\ Inside(t, "add_client_to_group")
  /\ sessions' = SessionsJoined(sessions, c, g, now)
  /\ groups' = GroupsJoined(groups, c, g)
  /\ Release(t)

RemoveFromGroup(t) ==
  LET c == call[t].client  g == call[t].group IN
  /\ Inside(t, "remove_client_from_group")
  /\ sessions' = SessionsLeft(sessions, c, g)
  /\ groups' = GroupsLeft(groups, c, g)
  /\ Release(t)

RecordMessageSent(t) ==
  /\ Inside(t, "record_message_sent")
  /\ sessions' = CountedSent(sessions, call[t].client)
  /\ UNCHANGED groups
  /\ Release(t)

RecordAckReceived(t) ==
  /\ Inside(t, "record_ack_received")
  /\ sessions' = CountedAck(sessions, call[t].client)
  /\ UNCHANGED groups
  /\ Release(t)

Query(t) ==
  /\ Inside(t, "query")
  /\ UNCHANGED <<sessions, groups>>
  /\ Release(t)

\* Time passes, whatever the threads do.
Tick == /\ now < MaxTime
        /\ now' = now + 1
        /\ UNCHANGED <<sessions, groups, lock, pc, call>>

Body(t) == \/ Register(t) \/ RegisterIntoGroup(t) \/ Unregister(t)
           \/ Heartbeat(t) \/ AddToGroup(t) \/ RemoveFromGroup(t)
           \/ RecordMessageSent(t) \/ RecordAckReceived(t) \/ Query(t)

Next == \/ \E t \in Threads : \/ \E op \in Calls : Invoke(t, op)
                              \/ Acquire(t)
                              \/ Body(t)
        \/ Tick

Spec == Init /\ [][Next]_vars

\* A thread that is not blocked keeps running, so it ends what it began inside
\* the lock.  Getting the lock is not fair between threads, so all that weak
\* fairness of Acquire says is that a free lock does not stay free for ever
\* with a thread waiting.  Nothing makes a caller call.
Fairness == \A t \in Threads : WF_vars(Body(t)) /\ WF_vars(Acquire(t))
FairSpec == Spec /\ Fairness

-----------------------------------------------------------------------------
\* The state is made of the dictionaries and the calls of the code.
TypeOK ==
  /\ IsSessionMap(sessions, Clients, Groups)
  /\ IsGroupMap(groups, Clients, Groups)
  /\ lock \in Threads \cup {NoThread}
  /\ pc \in [Threads -> {"idle", "blocked", "inside"}]
  /\ call \in [Threads -> Calls \cup {Idle}]
  /\ \A t \in Threads : (pc[t] = "idle") <=> (call[t] = Idle)
  /\ now \in Nat

\* Only the holder of the lock is inside a body, whatever the threads do, and
\* a thread that holds the lock without being inside is one that stopped in
\* register_client's nested call.
LockProtects ==
  \A t \in Threads :
    /\ pc[t] = "inside" => lock = t
    /\ lock = t => \/ pc[t] = "inside"
                   \/ pc[t] = "blocked" /\ call[t].name = "add_client_to_group"

\* An id is listed in a group exactly when its own session says so, between any
\* two calls and in the middle of any of them.  So no offline client is left in
\* a group, no session names a group that was dropped, and no group is kept
\* empty (get_stats counts the groups there are).
GroupIndexAgrees == IndexAgrees(sessions, groups, Clients, Groups)

\* No heartbeat is ahead of the clock.
HeartbeatsArePast ==
  \A c \in DOMAIN sessions : sessions[c].last_heartbeat <= now

\* As long as a client stays online its session only goes forward: no call, a
\* second register_client least of all, resets its counts or sets its heartbeat
\* back.  The time is read inside the lock, so two racing heartbeats cannot
\* store their times in the wrong order.
SessionNeverRegresses == [][OnlyForward(sessions, sessions')]_vars

\* The dictionaries implement the directory: _clients its online set and
\* _groups, the index get_group_members reads, its membership relation.
Directory == INSTANCE OnlineDirectory
               WITH online <- DOMAIN sessions,
                    member <- {m \in Clients \X Groups : m[1] \in Members(groups, m[2])}

ImplementsDirectory == Directory!DirSpec

\* The lock is released again and again, whatever methods the threads call: none
\* keeps it, except register_client with a group, whose nested call waits for it.
LockComesFree ==
  []<>( \/ lock = NoThread
        \/ \E t \in Threads : /\ lock = t /\ pc[t] = "blocked"
                              /\ call[t].name = "add_client_to_group" )

\* register_client(c, group_id=g), once it is inside the lock, makes c a member
\* of g.
GroupArgTakesEffect ==
  \A t \in Threads, c \in Clients, g \in GroupArgs :
    (pc[t] = "inside" /\ call[t] = Call("register_client", c, g))
      ~> (c \in Members(groups, g))
=============================================================================
