SPECIFICATION Spec
CONSTANTS
    MaxChunks = 3
    MaxPartials = 1
    AudioCap = 1
    SttCap = 1
    FinalCap = 1
    ClientCap = 1
    MinSilence = 1
    ExtendedSilence = 2
    MaxSegment = 2
    MaxFaults = 1
INVARIANTS EveryWordOnceInOrder SentFinalIsStored FlushIsSound
PROPERTIES WrittenStays
