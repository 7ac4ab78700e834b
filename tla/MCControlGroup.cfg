\* ControlClient's signal to a group.  The client is used once, so the system
\* really may stop.
SPECIFICATION EndSpec
CONSTANTS
  me = me
  ann = ann
  bob = bob
  g1 = g1
  None = None
  Falsy <- False
  Float <- Zero
  OpName <- Lowered
  Conns = {me}
  Me = me
  Self = ann
  Ids = {ann, bob}
  Anonymous = bob
  NoId = None
  NoKey = NoKey
  Groups = {g1}
  HelloIds <- AnnsHello
  Overlapping = FALSE
  JoinCalls = {}
  MaxIssued = 1
  MaxAcks = 1
  Scripts <- GroupScript
  Configs <- DemoConfig
  UpCap = 1
  DownCap = 0
  MaxTexts = 4
CHECK_DEADLOCK FALSE
PROPERTY
  SignalsBecomeOrders
