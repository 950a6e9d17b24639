CONSTANTS
    t1 = t1
    v1 = v1
    v2 = v2
    Terminals = {t1}
    Cacs = {v1, v2}
    Server = Server
    None = None
    MaxSyncs = 1
    MaxCrashes = 0
    MaxNow = 0
    MaxIds = 1
    IntegrationTest = FALSE
    MockServer = FALSE
    InitialAdmins = {v2}
SPECIFICATION MCSpec
INVARIANTS
    ElectionAssertionHolds
CHECK_DEADLOCK FALSE
