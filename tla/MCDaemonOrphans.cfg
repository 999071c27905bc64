SPECIFICATION FairSpec
CONSTANTS
    c1 = c1
    c2 = c2
    c3 = c3
    SessionIds = {s1, s2, s3}
    Callers = {c1}
    Legacy = Legacy
    NoSession = NoSession
    IdleTimeout = 0
    MaxLifetime = 0
    MaxSessions = 1
    ProcIds = {p1}
    NoProc = NoProc
    MaxProcesses = 1
    MaxPerSession = 1
    Retention = 0
    Requests = {r1, r2}
    Ops = {"create", "list", "terminate_session", "execute"}
    Permissive = TRUE
    GrantTable <- NoGrants
    CsprngMayFail = FALSE
    MaxTime = 1
INVARIANTS TypeOK NoSilentOrphan CascadeComplete
PROPERTIES OrphansDie
