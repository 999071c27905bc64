SPECIFICATION Spec
CONSTANTS
    c1 = c1
    c2 = c2
    c3 = c3
    SessionIds = {s1, s2}
    Callers = {c1, c2, c3}
    Legacy = Legacy
    NoSession = NoSession
    IdleTimeout = 1
    MaxLifetime = 2
    MaxSessions = 1
    ProcIds = {p1}
    NoProc = NoProc
    MaxProcesses = 1
    MaxPerSession = 1
    Retention = 0
    Requests = {r1, r2}
    Ops = {"create", "list", "execute", "status"}
    Permissive = FALSE
    GrantTable <- TwoKnown
    CsprngMayFail = FALSE
    MaxTime = 3
INVARIANTS OnlyOwnersReach
PROPERTIES OnlyKnownOwnersBump NoEarlyExpiry
SYMMETRY CallerSymmetry
