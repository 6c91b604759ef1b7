SPECIFICATION Spec
CHECK_DEADLOCK FALSE
CONSTANTS
    Archives = {a1, a2}
    Users = {u1}
    Requests = {r1, r2}
    MaxPrograms = 1
    PreviewTTL = 1
    TaskTTL = 1
    MaxClock = 1
    MaxRestarts = 0
PROPERTIES TaskEnds TempCleaned
