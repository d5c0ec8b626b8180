SPECIFICATION Spec
CONSTANTS
    FrameBytes = 6
    TailFrames = 3
    MinRowChars = 5
    MaxRowChars = 11
    MaxRowS = 9
    Budget = 10
    MinRun = 4
    MinCoverage = 20
    MinDominance = 55
    unknown = unknown
    None = None
    LargeRam = 16
    MediumRam = 8
    GpuLift = 6
    Override = 60
    Accelerated <- MCAccelerated
    Audio <- MCAudio
    Segments <- MCSegments
    Texts <- MCTexts
    Lines <- MCLines
    Replies <- MCReplies
    Interval <- MCInterval
    Labellings <- MCLabellings
    Catalogues <- MCCatalogues
    Machines <- MCMachines
    Sections <- MCSections
    Runtimes <- MCRuntimes
    Sizes <- MCSizes
    Scores <- MCScores
    Versions <- MCVersions
    Files <- MCFiles
    VoiceThreshold = 3
    Meetings <- MCMeetings
    Bundled <- MCBundled
    UserFiles <- MCUserFiles
    Updates <- MCUpdates
    Envs <- MCEnvs
    Keys <- MCKeys
    CheckCalls <- MCCalls
    Ttl = 4
    FailTtl = 2
    MaxStatements = 34
INVARIANTS SpeechIsWrittenInSentences PromptsAreTheTranscript SpeakersAreToldApart
    ChoicesFit UpgradeIsSafe UserIsObeyed
CHECK_DEADLOCK FALSE
