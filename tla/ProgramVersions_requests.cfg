SPECIFICATION FairSpec
CONSTANTS
  a = a
  b = b
  c = c
  Request = {a, b, c}
  Version = {v1, v2}
  FileName = {n1}
  NoVersion = NoVersion
  NoRequest = NoRequest
  May <- MayAll
  MaxFile = 2
  MaxInit = 1
  MaxBatch = 1
  MaxCrash = 1
  LegacyStart = TRUE
  DiskMayFail = TRUE
PROPERTIES
  RequestsEnd
