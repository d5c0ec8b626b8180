SPECIFICATION Spec
CONSTANTS
    Sessions = {s1, s2}
    NoSession = NoSession
    Requests = {r1}
    MaxJobs = 2
    MaxCreated = 2
    PassLimit = 1
    StoreFails = TRUE
    BuildFails = TRUE
    MaxCrashes = 0
SYMMETRY SessionSymmetry
INVARIANTS RefinedIsWhole SlotAccounting QueueAccounting OnePassPerSession NoPassWhileRecording NoResurrection
CHECK_DEADLOCK FALSE
