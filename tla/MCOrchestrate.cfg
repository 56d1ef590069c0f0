SPECIFICATION Spec
CONSTANTS
    Procs = {"p1", "p2"}
    MaxSubagents = 2
    DefaultSamples = 2
    MaxSamples = 2
    Parallel <- Parallel2
    MaxFanouts = 2
    Impatient = {"p1"}
    MaxCrashes = 1
    Scripts <- Files
    MaxRuns = 2
    Author = "p1"
    Kinds = {{"fan"}, {"max"}, {"flow"}}
CHECK_DEADLOCK FALSE
INVARIANTS
    OwnWorktree
    NothingLeft
    BestWasOffered
    ReportTells
    OnlyEndsSpoil
PROPERTY
    EveryJobEnds
