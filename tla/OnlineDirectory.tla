--------------------------- MODULE OnlineDirectory ---------------------------
(***************************************************************************)
(* What the registry promises ("tracks online clients and groups",         *)
(* core/registry.py:40), with no dictionaries, no lock and no threads: a   *)
(* set of online clients and a membership relation over them.  Every       *)
(* operation is one step.                                                  *)
(***************************************************************************)
CONSTANTS Clients, Groups

VARIABLES online,   \* the clients that are online
          member    \* the pairs <<client, group>>

dirVars == <<online, member>>

DirInit == online = {} /\ member = {}

\* A client comes online, or is heard of again.
Arrive(c) == online' = online \cup {c} /\ UNCHANGED member

\* A client goes offline: it is in no group any more.
Depart(c) == /\ online' = online \ {c}
             /\ member' = {m \in member : m[1] # c}

\* A client joins a group, which puts it online if it was not.
Join(c, g) == /\ online' = online \cup {c}
              /\ member' = member \cup {<<c, g>>}

\* A client leaves one group and stays as it was otherwise.
Leave(c, g) == member' = member \ {<<c, g>>} /\ UNCHANGED online

DirNext == \E c \in Clients :
             \/ Arrive(c)
             \/ Depart(c)
             \/ \E g \in Groups : Join(c, g) \/ Leave(c, g)

DirSpec == DirInit /\ [][DirNext]_dirVars
=============================================================================
