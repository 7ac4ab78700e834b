\* Two threads, two clients, two groups, every method, register_client with and
\* without a group.  A thread that registers into a group stops for ever, and
\* the others with it: the system really may stop.
SPECIFICATION FairSpec
CONSTANTS
  Threads = {t1, t2}
  Clients = {c1, c2}
  Groups = {g1, g2}
  GroupArgs = {g1}
  NoThread = NoThread
  NoGroup = NoGroup
  MaxTime = 1
  MaxCount = 1
CHECK_DEADLOCK FALSE
INVARIANTS
  TypeOK
  LockProtects
  GroupIndexAgrees
PROPERTIES
  SessionNeverRegresses
  ImplementsDirectory
  LockComesFree
