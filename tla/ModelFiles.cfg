SPECIFICATION Spec
CONSTANTS
    hashed = hashed
    plain = plain
    j1 = j1
    j2 = j2
    Models <- MCModels
    Hashed <- MCHashed
    Jobs <- MCJobs
    Size = 2
    MaxFaults = 1
    MaxDeletes = 1
INVARIANTS DownloadsAreSound
PROPERTIES JobEnds AtomicallyInstalled
CHECK_DEADLOCK FALSE
