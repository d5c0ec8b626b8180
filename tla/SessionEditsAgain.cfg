SPECIFICATION Spec
CONSTANTS
    Actors = {a1}
    None = None
    MaxRequests = 3
    Words <- MCWords
    Spoken <- MCSpoken
    PassHears <- MCPassHears
    Turns = {"-no"}
    Edits = {"edit"}
    Labels = {"Speaker 1"}
    Name = "Anna"
    NoSpeaker = "none"
    MaxDiarizations = 2
    MaxEdits = 0
INVARIANT TextIsGenuine
CHECK_DEADLOCK FALSE
