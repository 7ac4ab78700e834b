\* Two downstream messages, of which the second asks for an ACK, and one ping or
\* garbled frame, to three kinds of client.  A client that was closed does nothing
\* any more, so the system really may stop.
SPECIFICATION FairSpec
CONSTANTS
  Configs <- ThreeConfigs
  Downstream = {1, 2}
  Asking = {2}
  Counts <- TwoOrAll
  MaxSent = 2
  MaxOdd = 1
  Texts = {hello}
  MaxTexts = 1
INVARIANTS
  TypeOK
  ReceivedExactly
  AcksKeepPace
  NoLiveSocketLeft
PROPERTIES
  CloseReturns
  ThreadEnds
  MessagesComeOut
CHECK_DEADLOCK FALSE
