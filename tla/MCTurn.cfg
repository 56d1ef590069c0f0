SPECIFICATION Spec
CONSTANTS
    HasGoal = TRUE
    MaxRounds = 2
    Budget = 9
    SystemCost = 1
    TaskCost = 1
    ProgressCost = 2
    SummaryCost = 1
    Retrievals <- SmallRetrievals
    Mark = 5
    KeepRecent = 2
    Costs = {1, 3}
    MaxMessages = 8
INVARIANTS
    TypeOK
    IInv
    FitsBest
PROPERTY
    DurableFirst
