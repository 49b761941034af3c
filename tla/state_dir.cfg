SPECIFICATION StateSpec
CHECK_DEADLOCK FALSE
CONSTANTS
  d1 = d1
  d2 = d2
  g1 = g1
  t1 = t1
  t2 = t2
  t3 = t3
  Daemon <- MCDaemon
  Guard <- MCGuard
  r1 = r1
  Repairer <- MCRepairer
  Token <- MCToken
  NoToken = NoToken
  NoProc = NoProc
  RulesRecord = RulesRecord
  MainMode = "apple"
  PfctlFails = TRUE
  DiskFails = TRUE
  ReadFails = TRUE
  MaxCrashes = 2
  Subject = {"hosts", "pf.conf"}
  Handle = {"pf", "hosts", "cli", "cliHosts"}
  LoadFails = TRUE
  WritesFail = TRUE
  Uninstalls = TRUE
  Beside = FALSE
  MaxEdits = 1
  MaxLosses = 1
SYMMETRY Symmetry
INVARIANTS RunningIsRecoverable FilesBacked EditsKept
PROPERTIES DropMeansReverted
