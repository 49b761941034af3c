SPECIFICATION MCSpec
CONSTANTS
    Strategy = {"a", "b"}
    Window <- Windows
    Handler = {1}
    First = "a"
    MaxCommands = 2
    MaxFails = 1
    MaxEdits = 1
    NumJobs = 2
    App = 0
    KeepAlive = {1}
    MaxCalls = 2
    Probes <- Tests
    Concurrency = 2
    Loaded <- Menu
    Wanted <- Asked
    MaxCandidates = 3
    Missing <- Lacks
    SkipUnsupported = TRUE
    NoEarlyStop = FALSE
    Rounds = 2
    Other = 9
    Controls = 1
    Targets = 1
    Answers <- Replies
    MaxFake = 9216
    MaxSeg = 9316
    FakeLen = 3
    MaxRepeats = 1024
    MaxPayload = 1472
    Touched = 65536
    Entry = {"x", "y"}
    List = {"l", "m", "u"}
    User = {"u"}
    Contents <- FileContents
    Texts <- AllTexts
    LoadCaps <- ProxyCaps
    Trials <- Packets
    MaxSaves = 1
INVARIANTS LastWordHolds CompiledAsWritten StopRecords ProbesReported PickLeaves
PROPERTIES VpnHonest CommandsEnd
CHECK_DEADLOCK FALSE
