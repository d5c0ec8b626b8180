SPECIFICATION Spec
CONSTANTS
    Actors = {a1, a2}
    None = None
    MaxRequests = 3
    Words <- MCWords
    Spoken <- MCSpoken
    PassHears <- MCPassHears
    Turns = {"-no"}
    Edits = {"edit"}
    Labels = {"Speaker 1"}
    Name = "Anna"
    NoSpeaker = "none"
    MaxDiarizations = 1
    MaxEdits = 2
SYMMETRY Alike
INVARIANTS TextIsGenuine TranslationsFit EditsStay
CHECK_DEADLOCK FALSE
