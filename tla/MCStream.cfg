SPECIFICATION FairStreamSpec
CHECK_DEADLOCK FALSE
CONSTANTS
    Protocols = {"anthropic", "openai"}
    Responses <- MCResponses
    Indexes = {1, 2}
    Faults = {"refuse", "cut", "break", "cancel"}
INVARIANTS
    StreamInv
    Prefix
    CleanMeansAll
PROPERTY
    EverybodyEnds
