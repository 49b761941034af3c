SPECIFICATION Spec
CONSTANTS
  k1 = k1
  h1 = h1
  h2 = h2
  stun = stun
  auto = auto
  f1 = f1
  f2 = f2
  r1 = r1
  r2 = r2
  Key <- OneKey
  Handler <- TwoHandlers
  Entry <- Entries
  Host <- TwoHosts
  NoHost = NoHost
  L7 <- OneProtocol
  NoL7 = NoL7
  List <- OneList
  NoList = NoList
  None = None
  Strategies <- Plain
  Threshold = 2
  MaxSent = 2
  MaxCount = 3
  MaxReloads = 1
SYMMETRY Symmetry
CHECK_DEADLOCK FALSE
INVARIANTS VerdictSound RunsWhatWasShown FastPathEarned
