SPECIFICATION MCSpec
CONSTANTS
  Server <- Daemons
  Client <- Calls
  NoOne = "none"
  Foreign = "file"
  Asks <- CallsAsk
  OneDataDir = TRUE
  History = 1
  Follow = TRUE
  Want = 3
  RingCap = 4
  SubCap = 2
  ChunkLines = 2
  MaxLogged = 6
  MaxBlockLines = 4
  MaxLines = 2
  MaxForeign = 2
  Windows <- ThreeWindows
  Ports = {22, 80, 443}
  Excluded = {"x"}
  Others = {"o"}
  Uplink = "en0"
  Vpn = "utun3"
  MaxFails = 1
  MaxReloads = 3
  Host <- SomeHosts
  FailThreshold = 2
  FailTime = 1
  RetransThreshold = 2
  MaxTracked = 2
  MaxTime = 2
  MaxReports = 4
  MaxTurns = 2
  Width = 2
  Contents <- TwoFiles
  Reader = {1}
  MaxAdds = 3
  MaxLooks = 2
  Caller = {1}
  MaxSwitches = 4
  MaxFaults = 2
INVARIANTS SocketServes PatchesApply RulesSteer ListsHold
PROPERTIES ForeignKept ListsLearn InterfacesProgress
CHECK_DEADLOCK FALSE
