SPECIFICATION Spec
CHECK_DEADLOCK FALSE
CONSTANTS
    Archives = {a1}
    Users = {u1}
    Requests = {r1}
    MaxPrograms = 1
    PreviewTTL = 1
    TaskTTL = 1
    MaxClock = 1
    MaxRestarts = 0
INVARIANTS ImportedFilesStored
