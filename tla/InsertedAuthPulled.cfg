SPECIFICATION FairSpec
CONSTANTS
    c1 = c1
    c2 = c2
    j = j
    e = e
    pin = pin
    Jurisdictions = {j}
    Elections = {e}
    None = None
    Cards = {c1, c2}
    NoCard = NoCard
    Calls = {a}
    Reads = {r}
    Pins = {pin, default}
    DEFAULT_PIN = default
    MAX_TRIES = 2
    FirstChips <- MCFirstChips
    MaxInsertions = 1
    MaxKeys = 2
    MaxEvents = 1
    Hurried = TRUE
    Allowed = 1
    StartingDuration = 1
    SessionLength = 1
    MachineElection = e
    MachineJurisdiction = j
    PollWorkerPins = FALSE
    AnyElection = FALSE
    MaxTime = 2
CHECK_DEADLOCK FALSE
PROPERTY RemovalLogsOut
