\* A stream and a WebSocket that say hello again and again, under an id that they
\* share, under none or under one that is no key, with groups, ACKs and an order.
\* No connection is opened after the last, so the system really may stop.
SPECIFICATION TcpSpec
CONSTANTS
  s1 = s1
  s2 = s2
  w3 = w3
  ann = ann
  bob = bob
  g1 = g1
  Conns = {s1, w3}
  Streams = {s1}
  WaitsForClients = TRUE
  Ids = {ann, bob}
  Anonymous = bob
  NoId = NoId
  NoKey = NoKey
  Groups = {g1}
  HelloIds <- Shifty
  Overlapping = TRUE
  JoinCalls <- AllJoin
  MaxIssued = 1
  MaxAcks = 1
CHECK_DEADLOCK FALSE
INVARIANTS
  TypeOK
  TablesAgree
  OwedIsPending
PROPERTIES
  HandlersDecideWhoIsOnline
