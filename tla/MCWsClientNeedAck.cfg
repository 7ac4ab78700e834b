\* The client of the test, to which a message comes that asks for no ACK.
SPECIFICATION Spec
CONSTANTS
  Configs <- TestConfig
  Downstream = {1, 2}
  Asking = {2}
  Counts <- TwoOrAll
  MaxSent = 2
  MaxOdd = 0
  Texts = {hello}
  MaxTexts = 1
INVARIANT AcksOnlyAsked
CHECK_DEADLOCK FALSE
