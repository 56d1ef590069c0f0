SPECIFICATION FairSpec
CHECK_DEADLOCK FALSE
CONSTANTS
    c1 = c1
    n1 = n1
    k1 = k1
    k2 = k2
    Calls = {c1}
    Notes = {n1}
    Closers = {k1, k2}
    PipeSize = 1
    Quirks = {"ask"}
    NoOne = NoOne
INVARIANTS
    IInv
    ChannelsSafe
    NobodyForgotten
PROPERTY
    CallsEnd
