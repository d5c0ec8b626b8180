SPECIFICATION Spec
CONSTANTS
    cuda = cuda
    cpu = cpu
    i1 = i1
    i2 = i2
    Packs <- MCPacks
    Ranking <- MCRanking
    Builtin = cpu
    Installs <- MCInstalls
    Size = 2
    MaxFaults = 2
    MaxRequests = 2
INVARIANTS PacksAreSound ChoiceIsTrue
PROPERTIES EverythingEnds
CHECK_DEADLOCK FALSE
