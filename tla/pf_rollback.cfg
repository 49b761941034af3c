SPECIFICATION Spec
CONSTANTS
  d1 = d1
  d2 = d2
  g1 = g1
  t1 = t1
  t2 = t2
  t3 = t3
  Daemon <- MCDaemon
  Guard <- MCGuard
  r1 = r1
  Repairer = {}
  Token <- MCToken
  NoToken = NoToken
  NoProc = NoProc
  RulesRecord = RulesRecord
  MainMode = "apple"
  PfctlFails = FALSE
  DiskFails = FALSE
  ReadFails = FALSE
  MaxCrashes = 2
SYMMETRY Symmetry
PROPERTIES
  RecordKeptUntilReverted
