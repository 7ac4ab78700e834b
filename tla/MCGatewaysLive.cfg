\* A client that reconnects over TCP once its old stream is gone, the first one in
\* a group, and a client on a WebSocket that gives an order.
\* No connection is opened after the last, so the system really may stop.
SPECIFICATION TcpFairSpec
CONSTANTS
  s1 = s1
  s2 = s2
  w3 = w3
  ann = ann
  bob = bob
  g1 = g1
  Conns = {s1, s2, w3}
  Streams = {s1, s2}
  WaitsForClients = TRUE
  Ids = {ann, bob}
  Anonymous = bob
  NoId = NoId
  NoKey = NoKey
  Groups = {}
  HelloIds <- Reconnecting
  Overlapping = FALSE
  JoinCalls = {}
  MaxIssued = 1
  MaxAcks = 0
CHECK_DEADLOCK FALSE
INVARIANTS
  LiveConnectionTracked
  OnlineHasHandler
PROPERTIES
  OrdersAreCarriedOut
  EndedConnectionLeaves
  ServerStops
