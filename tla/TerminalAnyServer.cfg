CONSTANTS
    t1 = t1
    v1 = v1
    v2 = v2
    Terminals = {t1}
    Cacs = {v1, v2}
    Server = Server
    None = None
    MaxSyncs = 2
    MaxCrashes = 1
    MaxNow = 0
    MaxIds = 4
    IntegrationTest = TRUE
    MockServer = FALSE
    InitialAdmins = {v2}
SPECIFICATION MCSpec
INVARIANTS
    TypeOK
    OneRecordPerVoter
    PendingMeansRunning
    
PROPERTIES
    AttemptsMoveForward
    
CHECK_DEADLOCK FALSE
