SPECIFICATION Spec
SYMMETRY Symmetry
CONSTANTS
    TheProc = p1
    Procs <- MCProcs
    Agents = {a1, a2}
    Workers <- MCWorkers
    Symbols = {s1, s2}
    Expiry = 1
    Nobody = Nobody
INVARIANTS
    IInv
    Exclusive
PROPERTIES
    NoTheft
    KeepsPromise
