SPECIFICATION Spec
CONSTANTS
    Names = {n1}
    Temps = {t1, t2}
    Contents = {v1, v2}
    Torn = Torn
    NoHash = NoHash
    Slots = {o1, o2}
    Kinds = {"write"}
    DirSyncMayFail = TRUE
PROPERTIES CommitMatchesExpected
