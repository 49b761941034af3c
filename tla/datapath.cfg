SPECIFICATION SpecDatapath
CONSTANTS
    MaxFake = 10
    MaxSeg = 11
    FakeLen = 3
    MaxRepeats = 3
    MaxPayload = 8
    Touched = 100
    Contexts <- MCContexts
    Profiles <- MCProfiles
    Mtu = 51
    MaxReadErrors = 1
    MaxFails = 1
    Clients = {r1, r2}
    Requests <- MCRequests
    Plans <- MCPlans
    Readable = {TRUE, FALSE}
    MaxConns = 1
    IdleTicks = 1
    MaxChunks = 1
INVARIANTS PayloadArrives DecoysDeceive RelaysFaithful
PROPERTIES PlansTile RelaysEnd
CHECK_DEADLOCK FALSE
