SPECIFICATION Spec
CONSTANTS
  a = a
  b = b
  c = c
  Request = {a, b, c}
  Version = {v1, v2}
  FileName = {n1}
  NoVersion = NoVersion
  NoRequest = NoRequest
  May <- MayDeleteTwice
  MaxFile = 3
  MaxInit = 2
  MaxBatch = 2
  MaxCrash = 0
  LegacyStart = TRUE
  DiskMayFail = FALSE
INVARIANTS
  NoOrphans
PROPERTIES
  ReconcileRepairs
