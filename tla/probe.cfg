SPECIFICATION SpecProbe
CONSTANT MaxFaults = 1
INVARIANTS ProbeCleansUp
PROPERTIES ProbeWindsUp
