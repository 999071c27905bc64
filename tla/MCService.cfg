SPECIFICATION Spec
CHECK_DEADLOCK FALSE
CONSTANTS
    MAX_EXEC_ARGS = 1
    MAX_EXEC_ENV_VARS = 2
    MIN_WAIT_TIMEOUT_SECS = 1
    MAX_WAIT_TIMEOUT_SECS = 2
    Denied = {"halt", "reboot"}
    c1 = c1
    c2 = c2
    C1 = C1
    Callers = {c1, c2}
    Fingerprints = {c1, c2, C1}
    NoGrants = NoGrants
    Unreadable = Unreadable
    Malformed = Malformed
    LoadError = LoadError
    GrantsFiles <- SomeFiles
    CommandLines <- SomeCommandLines
    Programs <- SomeAllowed
    ExecuteRequests <- SomeExecutes
    CreateRequests <- SomeCreates
    FileRequests <- SomeFileRequests
    WaitTimeouts <- SomeTimeouts
    SessionIds = {s1}
    NoSession = NoSession
    MaxSessions = 1
    MaxPerSession = 1
INVARIANTS
    TypeOK
    UnlistedGetOnlyInfo
    AdvertisedIsWired
    RunsOnlyAllowed
    ForbiddenMeansYou
    ChildEnvironment
    NoOracle
