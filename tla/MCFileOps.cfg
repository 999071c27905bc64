SPECIFICATION Spec
CONSTANTS
    Names = {n1, n2}
    Temps = {t1, t2}
    Contents = {v1}
    Torn = Torn
    NoHash = NoHash
    Slots = {o1, o2, o3}
    Kinds = {"write", "rename", "delete", "mkdir"}
    DirSyncMayFail = TRUE
INVARIANTS  TypeOK NoStrays
PROPERTIES NoSilentOverwrite
SYMMETRY Symmetry
