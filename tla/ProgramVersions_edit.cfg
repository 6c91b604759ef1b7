SPECIFICATION Spec
CONSTANTS
  a = a
  b = b
  c = c
  Request = {a, b, c}
  Version = {v1, v2}
  FileName = {n1}
  NoVersion = NoVersion
  NoRequest = NoRequest
  May <- MayEdit
  MaxFile = 3
  MaxInit = 2
  MaxBatch = 1
  MaxCrash = 1
  LegacyStart = FALSE
  DiskMayFail = TRUE
INVARIANTS
  TypeOK
  SingleCurrent
  CurrentIsPrograms
  VersionsMatchFiles
  FilesStored
PROPERTIES
  ImplementsHistory
