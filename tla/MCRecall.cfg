SPECIFICATION RecallSpec
CONSTANTS
    Procs = {"p1", "p2"}
    MaxEntries = 1
    TopK = 1
    Dims = {1, 2}
    Served <- TwoHosts
    MaxWrites = 3
    MaxDeaths = 1
    Names <- Files
    Mutating = {"write", "edit", "bash"}
    RunSets <- Recorded
    MaxEdits = 3
    MaxFaults = 1
    Parts = {{"turns"}, {"commands"}}
CHECK_DEADLOCK FALSE
INVARIANTS
    CapKept
    SearchFinds
    NothingForgotten
