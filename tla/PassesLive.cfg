SPECIFICATION FairSpec
CONSTANTS
    Sessions = {s1, s2}
    NoSession = NoSession
    Requests = {}
    MaxJobs = 2
    MaxCreated = 2
    PassLimit = 1
    StoreFails = FALSE
    BuildFails = FALSE
    MaxCrashes = 1
INVARIANTS TypeOK InFlightHasJob ProcessingIsWorking StatusIsTrue
PROPERTIES EverythingSettles
CHECK_DEADLOCK FALSE
