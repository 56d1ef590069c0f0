SPECIFICATION FairSpec
CHECK_DEADLOCK FALSE
CONSTANTS
    Names = {rel}
    Agent = agent
    Refreshers = {r1}
    Servers = {1, 2}
    None = None
    Calls <- AllCalls
    Broken = {1}
    MaxEdits = 1
    MaxScheduled = 1
    Faults = {"start", "init", "read", "deaf", "die", "close"}
INVARIANTS
    IInv
    NoLostNote
PROPERTIES
    NotedIsTold
    RefreshEnds
