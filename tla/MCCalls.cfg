SPECIFICATION Spec
CHECK_DEADLOCK FALSE
CONSTANTS
    k1 = k1
    k2 = k2
    Calls = {k1, k2}
    Scripts <- SomeScripts
    SessionIds = {s1}
    NoSession = NoSession
    MaxPayload = 4
    MAX_CLI_CONTENT_BYTES = 4
    Envelope = 1
    Bulk = {1}
INVARIANTS
    TypeOK
    OnlyWholeMessages
    AtMostOnce
    CleanFailures
    NoHandleLost
PROPERTIES
    CallsEnd
