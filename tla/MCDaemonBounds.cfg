SPECIFICATION Spec
CONSTANTS
    c1 = c1
    c2 = c2
    c3 = c3
    SessionIds = {s1, s2, s3}
    Callers = {c1}
    Legacy = Legacy
    NoSession = NoSession
    IdleTimeout = 0
    MaxLifetime = 0
    MaxSessions = 2
    ProcIds = {p1, p2, p3}
    NoProc = NoProc
    MaxProcesses = 2
    MaxPerSession = 1
    Retention = 0
    Requests = {r1, r2}
    Ops = {"create", "get", "execute", "wait", "terminate_process"}
    Permissive = TRUE
    GrantTable <- NoGrants
    CsprngMayFail = TRUE
    MaxTime = 1
INVARIANTS WithinBounds
PROPERTIES LiveNeverEvicted
SYMMETRY Symmetry
