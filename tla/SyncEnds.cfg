CONSTANTS
    t1 = t1
    t2 = t2
    v1 = v1
    v2 = v2
    Terminals = {t1}
    Cacs = {v1}
    Server = Server
    None = None
    MaxSyncs = 2
    MaxCrashes = 0
    MaxNow = 0
    MaxIds = 2
    IntegrationTest = FALSE
    MockServer = FALSE
    InitialAdmins = {v1}
    MaxExternal = 1
    Calls <- MCCalls
SPECIFICATION FairSpec
INVARIANTS
    StoredIsNotResent

    
CHECK_DEADLOCK FALSE
