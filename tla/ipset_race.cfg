SPECIFICATION IpsetSpec
CONSTANTS
    Caller = {1, 2}
    MaxSwitches = 4
    MaxFaults = 0
INVARIANT RealListKept
CHECK_DEADLOCK FALSE
