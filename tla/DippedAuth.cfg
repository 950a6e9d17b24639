SPECIFICATION FairSpec
CONSTANTS
    c1 = c1
    c2 = c2
    j = j
    e = e
    pin = pin
    Jurisdictions = {j}
    Elections = {e}
    None = None
    Cards = {c1, c2}
    NoCard = NoCard
    Calls = {a}
    Reads = {r}
    Pins = {pin, default}
    DEFAULT_PIN = default
    MAX_TRIES = 3
    FirstChips <- MCFirstChips
    MaxInsertions = 2
    MaxKeys = 3
    MaxEvents = 1
    Hurried = FALSE
    Allowed = 1
    StartingDuration = 1
    SessionLength = 1
    MachineElection = e
    MachineJurisdiction = j
    PollWorkerPins = FALSE
    AnyManager = FALSE
    MaxTime = 1
CHECK_DEADLOCK FALSE
INVARIANTS AuthUserIsCardUser SettledStatusIsTrue WholeOrUseless
PROPERTIES AuthIsAJourney ToldPinIsTheCards TakenOutIsIn
