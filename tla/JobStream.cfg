SPECIFICATION Spec
CONSTANTS
    Sessions = {s1}
    NoSession = NoSession
    Clients = {c1, c2}
    MaxJobs = 2
    MaxCreated = 2
INVARIANTS StreamInv
PROPERTIES StreamEnds
