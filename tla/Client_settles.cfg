SPECIFICATION ClientSpec
CHECK_DEADLOCK FALSE
CONSTANTS
 Areas = {"import","session","editor","table","relations","export","matrix","fields","lists",
          "migration","backups"}
 Workstations = {"w1"}
 MaxOpenings = 1
 MaxImports = 2
 MaxPolls = 2
 MaxRestarts = 1
 Targets = {"a","b"}
 Cells = {"c"}
 Decisions = {"unset","allow"}
 NoTarget = "none"
 MaxMatrixLoads = 1
 MaxElsewhere = 1
 MaxMatrixSaves = 1
 Lines = {"a","b"}
 Names = {"n"}
 MaxIds = 1
 MaxRows = 1
 MaxTokens = 2
 MaxFieldSaves = 1
 Tabs = {"t1","t2"}
 Users = {"a"}
 Roles = {"viewer"}
 Codes <- MCCodes
 Guarded = {"production_lines"}
 AutoLogout = 1
 MaxChanges = 0
 MaxExpired = 0
 MaxLogins = 1
 Programs = {"x"}
 FormLines = {"a"}
 Texts = {""}
 FirstVersions = 1
 MaxVersions = 1
 MaxAsked = 1
 FilterLines = {"a"}
 Keywords = {""}
 Pages = {1}
 MaxLoads = 2
 Relatives = {"x","y"}
 Searches = {""}
 NoSearch = ""
 MaxCalls = 1
 ListKinds = {"departments"}
 Entries = {1,2}
 Narrow = {2}
 MaxRowLoads = 2
 Carried = {"p"}
 MaxViews = 1
 MaxDetails = 1
 MaxEdits = 1
 MaxVisits = 2
 MaxIntervals = 2
 MaxMigrations = 1
 MaxServerRestarts = 0
 MaxAsking = 1
 BackupKinds = {"database"}
 Backups = {"x"}
 MaxListings = 1
 BuiltinColumns = {"name"}
 CustomColumns = {"custom"}
 CenterFilters = {"any"}
 NoFilter = "any"
 CenterKeywords = {""}
 CenterPages = {1}
 MaxCenterLoads = 2
 MaxCenterVisits = 1
 MaxTasks = 1
PROPERTIES IdleEnds ClientSettles
CONSTANTS
 a = a
 b = b
 c = c
 x = x
 y = y
