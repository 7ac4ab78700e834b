\* A client that was created with a timeout, as the test of the repository does.
SPECIFICATION Spec
CONSTANTS
  Configs <- TestConfig
  Downstream = {1}
  Asking = {1}
  Counts <- TwoOrAll
  MaxSent = 2
  MaxOdd = 1
  Texts = {hello}
  MaxTexts = 1
INVARIANT ReceivesWhileConnected
CHECK_DEADLOCK FALSE
