SPECIFICATION FairSpec
CONSTANTS
  h1 = h1
  h2 = h2
  Handler <- OneHandler
  Command <- AllCommands
  NumCands = 2
  Signals = TRUE
  MaxFails = 1
  MaxDrifts = 1
CHECK_DEADLOCK FALSE
INVARIANTS Stoppable ExitClean NoLostWakeup
PROPERTIES CommandsTakeEffect DriftRepaired
