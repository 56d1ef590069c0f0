SPECIFICATION Spec
CONSTANTS
    p1 = p1
    p2 = p2
    a1 = a1
    a2 = a2
    Procs <- MCProcs
    Agents <- MCAgents
    Workers <- MCWorkers
    Symbols = {s1}
    Expiry = 0
    Nobody = Nobody
INVARIANT
    OneWinner
