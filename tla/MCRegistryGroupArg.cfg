\* register_client with its optional group: the thread waits for the lock it
\* holds, and then so does every other thread, so the system really stops.
SPECIFICATION FairSpec
CONSTANTS
  Threads = {t1, t2}
  Clients = {c1}
  Groups = {g1}
  GroupArgs = {g1}
  NoThread = NoThread
  NoGroup = NoGroup
  MaxTime = 0
  MaxCount = 0
CHECK_DEADLOCK FALSE
PROPERTY
  GroupArgTakesEffect
