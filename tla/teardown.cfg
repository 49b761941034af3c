SPECIFICATION TeardownSpec
CONSTANTS
  c1 = c1
  c2 = c2
  r1 = r1
  k1 = k1
  k2 = k2
  d1 = d1
  g1 = g1
  t1 = t1
  t2 = t2
  t3 = t3
  Closer <- TwoClosers
  Reloader <- OneReloader
  StepFails = TRUE
  Last = 1
  Conn <- TwoClients
  MaxConns = 1
  ProxyReloader <- OneReloader
  ProxyFails = TRUE
  Daemon <- OneDaemon
  Guard <- OneGuard
  Repairer = {}
  Token <- ThreeTokens
  MainMode = "apple"
  PfctlFails = FALSE
  DiskFails = TRUE
  ReadFails = FALSE
  MaxCrashes = 2
  NoOne = NoOne
  NoToken = NoToken
  NoProc = NoProc
  RulesRecord = RulesRecord
INVARIANTS RulesHaveReader NothingLeft ProxyUndoes CleanupUndoes
PROPERTIES TokensAccounted TransportsEnd OrphansUndone
