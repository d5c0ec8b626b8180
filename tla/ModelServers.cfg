SPECIFICATION Spec
CONSTANTS
    r1 = r1
    s1 = s1
    Requests <- MCRequests
    Sessions <- MCSessions
    MaxSwaps = 1
    MaxFaults = 1
    MaxEvents = 1
    MaxServers = 3
    StartAttempts = 2
INVARIANTS HeldIsUsable NoOrphans
PROPERTY RequestEnds
CHECK_DEADLOCK FALSE
