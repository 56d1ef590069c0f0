SPECIFICATION Spec
SYMMETRY Symmetry
CONSTANTS
    s1 = s1
    s2 = s2
    Procs = {p1, p2}
    MaxTasks = 2
    Symbols <- MCSymbols
    FileOf <- OneFile
    Faults = {"symbol", "add", "stray", "merge", "abort"}
INVARIANT
    IInv
