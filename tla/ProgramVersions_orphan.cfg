SPECIFICATION Spec
CONSTANTS
  a = a
  b = b
  c = c
  Request = {a, b}
  Version = {v1, v2}
  FileName = {n1}
  NoVersion = NoVersion
  NoRequest = NoRequest
  May <- MayDeleteProgram
  MaxFile = 3
  MaxInit = 2
  MaxBatch = 1
  MaxCrash = 0
  LegacyStart = FALSE
  DiskMayFail = FALSE
INVARIANTS
  DeletedProgramLeavesNothing
