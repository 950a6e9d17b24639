CONSTANTS
    t1 = t1
    v1 = v1
    v2 = v2
    c1 = c1
    c2 = c2
    Terminals = {t1}
    Cacs = {v1, v2}
    Server = Server
    None = None
    Calls = {c1, c2}
    MaxExternal = 3
    Bodies <- MCBodies
SYMMETRY MCSymmetry
SPECIFICATION MCSpec
INVARIANTS
    AcceptedIsReturned
    ServerRecordsOfOneVoter
    
CHECK_DEADLOCK FALSE
