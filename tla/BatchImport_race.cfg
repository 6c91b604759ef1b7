SPECIFICATION Spec
CHECK_DEADLOCK FALSE
CONSTANTS
    Archives = {a1, a2}
    Users = {u1, u2}
    Requests = {r1, r2}
    MaxPrograms = 2
    PreviewTTL = 1
    TaskTTL = 1
    MaxClock = 1
    MaxRestarts = 1
INVARIANTS TypeInv ArchiveKept ImportedOnce TaskTruth NothingLeftBehind
PROPERTIES EndIsFinal
