INIT ClientInit
NEXT ClientNext
INVARIANTS ClientTypeOK SessionIntact StoredUserIsIn OneInterval NoStall ShowsItsImport
           EditorOfCurrent TextOfItsVersion TableShowsQuery RelationsShown ExportShown
           RowsOfTarget SubmitsOnlyChanged DialogInSync ListConsistent FollowsMigration
           BackupsInOrder
CHECK_DEADLOCK FALSE
CONSTANTS
 Areas = {"import","session","editor","table","relations","export","matrix","fields","lists",
          "migration","backups"}
 Workstations = {"w1"}
 MaxOpenings = 2
 MaxImports = 2
 MaxPolls = 2
 MaxRestarts = 1
 Targets = {a,b}
 Cells = {"c","d"}
 Decisions = {"unset","allow"}
 NoTarget = "none"
 MaxMatrixLoads = 2
 MaxElsewhere = 0
 MaxMatrixSaves = 1
 Lines = {a,b}
 Names = {"n"}
 MaxIds = 2
 MaxRows = 2
 MaxTokens = 2
 MaxFieldSaves = 2
 Tabs = {x,y}
 Users = {a,b}
 Roles = {"admin","viewer"}
 Codes <- MCCodes
 Guarded = {"production_lines"}
 AutoLogout = 0
 MaxChanges = 1
 MaxExpired = 1
 MaxLogins = 2
 Programs = {x,y}
 FormLines = {a,b}
 Texts = {"","t"}
 FirstVersions = 1
 MaxVersions = 2
 MaxAsked = 1
 FilterLines = {a,b}
 Keywords = {"","k"}
 Pages = {1}
 MaxLoads = 2
 Relatives = {a,b,c}
 Searches = {"","s"}
 NoSearch = ""
 MaxCalls = 2
 ListKinds = {"production_lines", "vehicle_models"}
 Entries = {1,2}
 Narrow = {2}
 MaxRowLoads = 2
 Carried = {"p","q"}
 MaxViews = 1
 MaxDetails = 2
 MaxEdits = 1
 MaxVisits = 1
 MaxIntervals = 3
 MaxMigrations = 1
 MaxServerRestarts = 1
 MaxAsking = 2
 BackupKinds = {"database"}
 Backups = {a,b}
 MaxListings = 2
 BuiltinColumns = {"name"}
 CustomColumns = {"custom"}
 CenterFilters = {"any","f"}
 NoFilter = "any"
 CenterKeywords = {"","k"}
 CenterPages = {1,2}
 MaxCenterLoads = 2
 MaxCenterVisits = 2
 MaxTasks = 2
CONSTRAINT ClientBound
CONSTANTS
 a = a
 b = b
 c = c
 x = x
 y = y
SYMMETRY Interchangeable
