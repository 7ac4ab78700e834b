\* Orders in flight while clients come, go and come back.  The group is empty:
\* MCGatewayTables.cfg has members.
\* No connection is opened after the last, so the system really may stop.
SPECIFICATION Spec
CONSTANTS
  w1 = w1
  w2 = w2
  w3 = w3
  ann = ann
  bob = bob
  g1 = g1
  Conns = {w1, w2}
  Ids = {ann, bob}
  Anonymous = bob
  NoId = NoId
  NoKey = NoKey
  Groups = {g1}
  HelloIds <- Turncoat
  Overlapping = TRUE
  JoinCalls = {}
  MaxIssued = 2
  MaxAcks = 0
CHECK_DEADLOCK FALSE
INVARIANTS
  OwedIsPending
  DeliveredOnce
  SameKindInOrder
  SentWasWritten
