CONSTANTS
    t1 = t1
    v1 = v1
    v2 = v2
    Terminals = {t1}
    Cacs = {v1, v2}
    Server = Server
    None = None
    MaxSyncs = 2
    MaxCrashes = 1
    MaxNow = 1
    MaxIds = 7
    IntegrationTest = TRUE
    MockServer = TRUE
    InitialAdmins = {v2}
SPECIFICATION MCSpec
INVARIANTS
    PendingMeansRunning
CHECK_DEADLOCK FALSE
