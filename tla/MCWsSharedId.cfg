\* A client reconnects before its old connection is gone.
\* No connection is opened after the last, so the system really may stop.
SPECIFICATION Spec
CONSTANTS
  w1 = w1
  w2 = w2
  w3 = w3
  ann = ann
  bob = bob
  g1 = g1
  Conns = {w1, w2, w3}
  Ids = {ann, bob}
  Anonymous = bob
  NoId = NoId
  NoKey = NoKey
  Groups = {}
  HelloIds <- Reconnecting
  Overlapping = TRUE
  JoinCalls = {}
  MaxIssued = 0
  MaxAcks = 0
CHECK_DEADLOCK FALSE
PROPERTY
  EndTakesItsOwn
