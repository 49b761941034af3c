SPECIFICATION FairSpec
CONSTANTS
  h1 = h1
  h2 = h2
  Handler <- OneHandler
  Command <- StopOnly
  NumCands = 1
  Signals = FALSE
  MaxFails = 0
  MaxDrifts = 0
CHECK_DEADLOCK FALSE
PROPERTIES
  StopIsFinal
