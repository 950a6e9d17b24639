SPECIFICATION MCSpec
CONSTANTS
    Base = 8
    MAX_COMMAND_APDU_DATA_LENGTH = 7
    MAX_RESPONSE_APDU_DATA_LENGTH = 6
    MaxTlv = 13
    CAPACITY = 24
    Documents <- MCDocuments
    MaxCalls = 3
    a = a
    b = b
    Voters = {a, b}
    Admins = {b}
    Registered = {a}
    Contests <- MCContests
    None = None
    MaxLogins = 2
    Jobs = {1}
    Schemas = {1, 2, 3}
    Tables = 2
    Rows = {a, b}
    Restarts = 4
    Absent = Absent
    Election <- MCElection
    Keys = {"A", " "}
    WRITE_IN_CANDIDATE_MAX_LENGTH = 3
    MAXIMUM_WRITE_IN_LENGTH = 3
    WriteInChars <- MCWriteInChars
    DefiniteMark = 2
    Pages <- MCPages
    GroupBys <- MCGroupBys
    MaxRecords = 3
    MaxAfterVoter = 2
    d1 = d1
    d2 = d2
    Drives = {d1, d2}
    NoDrive = NoDrive
    SheetLists <- MCSheetLists
    MaxFileSize = 3
    MaxExports = 2
    MaxPulls = 2
    PollIds = {p1, p2}
    User = User
    NoUsb = NoUsb
    MaxPutIns = 2
    Folders <- MCFolders
    NoFolder = NoFolder
    Unreadable = Unreadable
    NoSignature = NoSignature
    AuthStatuses <- MCAuthStatuses
    MaxTaken = 2
    Values <- MCValues
    Lower <- MCLower
    Numeral <- MCNumeral
    Undefined = Undefined
INVARIANTS
    DocumentsAreWhole
    VotesAreTheVoters ScreensAreOfTheCard
    SchemaIsCurrent
    PaperSaysTheRecord 
    AuthenticIsWhole ExportedIsThere
    EjectedIsUnmounted
    PackageIsTheManagers
    BallotsSurviveCdf
PROPERTIES
    CallEnds PrintedIsDone RowsAreKept
CHECK_DEADLOCK FALSE
