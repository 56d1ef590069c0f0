SPECIFICATION FairSpec
CONSTANTS
    s1 = s1
    s2 = s2
    Procs = {p1, p2}
    MaxTasks = 1
    Symbols = {s1}
    FileOf <- OneFile
    Faults = {"symbol", "lock", "add", "stray", "commit", "merge", "abort",
              "remove", "release", "crash"}
INVARIANTS
    OneTenant
    QuietIsClean
PROPERTY
    TasksEnd
