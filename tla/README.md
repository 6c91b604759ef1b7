# crane-system: a TLA+ model of the program management server

The repository is a web application in which the work programs of production
lines (robot or crane programs, as files) are uploaded, versioned, shared and
guarded by line permissions: a Go server (`src/backend`: Gin handlers over GORM
and MySQL 8, files below an upload directory) and a React client
(`src/frontend`).  This directory holds TLA+ modules for the parts of the server
and of the client whose correctness depends on order and overlap, the TLC
configurations that check them, and TLAPS proofs.

## 1. Inventory

| Component (source) | State | Operations | What makes it correct | What is hard |
|---|---|---|---|---|
| Files and versions (`controllers/file_transfer_controller.go`, `file_version_controller.go`, `program_version_state.go`, `program.go`) | rows of `program_files`, `program_versions`, `programs.version`, bytes on disk | UploadFile, DeleteFile + reconcile, CreateVersion, ActivateVersion, DeleteProgram | one current version, which `programs.version` names; version rows match files; a listed file has its own bytes; no bytes without a row | transactions overlap, lock order, unlocked reads, disk outside the transaction, crashes |
| Batch import (`file_batch_import_controller.go`) | previews and tasks in memory, temporary directories, rows, disk | upload preview, consume, background import, expiry, status | a preview is imported at most once, a finished task's files exist, temporary files go away | background goroutine, expiry against consumption, cleanup after partial failure, crash loses tasks |
| Permissions (`services/permission.go`, `services/authorization.go`, `controllers/permission*.go`, `role.go`, `line_admin.go`, `department_permission.go`) | rule rows, defaults, overrides, cache entry per user (5 min) | resolve, save rules, invalidate, check | an action is allowed iff the rules in the database say so, at most a TTL ago | cache filled from a read older than an invalidation, missing invalidations, role deletion |
| User accounts (`controllers/user.go`, `auth.go`, `middleware/auth.go`) | users rows, token versions | login, create, update, delete, change/reset password | a password change ends old sessions, no update is lost | whole-row saves over stale reads |
| Program mappings (`program_mapping.go`) | `program_mappings` | create, delete, resolve | a child has one parent, uploads reach the program that owns the files | check-then-insert, chains, soft deletion under a unique index |
| Program records and custom fields (`program.go`, `program_custom_field_value.go`, `production_line_custom_field.go`) | programs, field definitions, values | create, update, delete, define | values belong to fields of the program's line | line change against value save, deletion against save |
| File migration (`migration/migrate_files.go`) | paths in rows, files, backups | migrate, roll back | every row's file exists after any stop | move and row update are two steps; name collisions |
| Backup and restore (`controllers/backup.go`) | backup files, upload directory, database | create, restore, delete | restore leaves the old or the new data | renames, failure in between |
| Schema migration (`database/database.go`) | tables, recorded migrations, named lock | AutoMigrate | each backfill happens once and before it is recorded | crash between the two, several servers |
| Timeouts and rate limits (`middleware/timeout.go`, `ratelimit.go`) | response writer, buckets | answer or 504, take a token | one answer; at most the limit per window | handler goes on after the 504 |
| Master data (`production_line.go`, `vehicle_model.go`, `department.go`) | rows | CRUD with dependency checks | nothing in use is deleted | count-then-delete |
| Client: session (`contexts/AuthContext.tsx`, `services/api.ts`, `App.tsx`, `components/Layout.tsx`, `pages/Login.tsx`) | user in the state of each tab, localStorage and cookie of the browser | login, logout, idle timeout, 401, routes, password dialog | a tab acts as the user it shows; an idle one ends | tabs share storage and cookie but not state; answers of an earlier session |
| Client: program page (`pages/ProgramManagement.tsx`, `pages/program-management/*`) | table, filters, editor, viewer, upload, relations, import dialog | load, edit, describe, upload, delete, map, poll | what is shown, saved and polled belongs to what is chosen | requests without tokens, effects, intervals, debounces |
| Client: administration (`DepartmentManagement`, `ProductionLineManagement`, `UserManagement`, `VehicleModelManagement`, `PermissionManagement`, `SystemManagement`, `ProductionLineCustomFieldManager`, `DataExportCenter`) | lists, dialogs, rule matrix, field rows, polling, backups, columns | load, edit, delete, save, migrate, restore, export | the same | the same; one flag for several operations, row-by-row saves |
| Routing, configuration, seed, export, parsing | none that changes while serving | | | |

Components meet in three places: the MySQL rows (through transactions), the
upload directory (outside any transaction), and the permission cache (in the
memory of the server).  Handlers run concurrently, one goroutine per request;
the only background work is the import task and the expiry timers.

## 2. Plan

Modules in order of importance; those marked * exist.

1. `VersionHistory`* (abstract) and `ProgramVersions`* (the handlers), with
   `MCProgramVersions`* and the proofs `ProgramVersionsProofs`*,
   `ProgramVersionsRefinement`*, `ProgramVersionsStorage`*.
2. `BatchImport`* with `BatchImportProofs`*: the life of a preview and its import.
3. `PermissionCache`* with `PermissionCacheProofs`*: loads against writes.
4. `PermissionRules`: the writers of rules and roles (`SavePermissionRuleChanges`,
   `SaveRolePermissions`, `DeleteRole`) and the resolution of rules to decisions,
   checked against a reference definition.
5. `ProgramRecords`: mappings (`resolveProgramTarget`), `UpdateProgram`, custom
   fields and their values, which all meet in the row of the program.
6. `Accounts`: users, passwords, roles, sessions, with the rate limiter and the
   request timeout in front of them.
7. `UploadDirectory`: file migration, backup and restore, which all rearrange the
   directory the versions live in.
8. `SchemaMigration`, `MasterData`.
9. The client: `ImportDialog`*, `ProgramEditor`*, `ProgramTable`*,
   `ProgramRelations`*, `Session`*, `PermissionMatrix`*, `LineFields`*,
   `AdminLists`*, `MigrationPolling`*, `BackupRestore`*, `ExportCenter`*,
   composed by `Client`* and checked by `MCClient`*; `SessionProofs`* about the part
   that several tabs share, `PagesProofs`* about the pages and the whole client,
   `ClientProofs`* about its types and the dialog of custom fields.

Theorems still worth proving: at most burst + rate * t requests pass the limiter;
a decision of the resolution is that of the most specific rule; a child has one
parent.  Of the modules that exist every safety property of a passing run is proved.

## 3. The modules

### ProgramVersions: files and versions of one program

One program, because no handler touches the version rows of two.  The state is
what the handlers share: the row of `programs` (`program`), the live rows of
`program_files` and `program_versions` (`files`, `versions`; soft-deleted rows
are seen by no query and left out), what is on `disk`, the AUTO_INCREMENT
counters, the InnoDB locks (`lock`), and `req`, the request each slot of the
server is running with what its transaction has read.

| Code | Actions |
|---|---|
| `UploadFile` | `StartUpload`, `UploadLockProgram`, `UploadLockVersions`, `UploadWrite` (one file of the form), `UploadWriteFails`, `UploadCommit`, `UploadClean` |
| `DeleteFile`, `reconcileProgramVersionState` | `StartDeleteFile`, `DeleteFileLockProgram`, `DeleteFileCommit` with `Reconcile`, `RemoveFromDisk` |
| `ActivateVersion` | `StartActivate`, `ActivateLockVersion`, `ActivateVersionGone`, `ActivateCommit` |
| `CreateVersion` | `StartCreateVersion`, `CreateCheck`, `CreateInsert`, `CreateInsertFirst`, `CreateCommit` |
| `DeleteProgram` | `StartDeleteProgram`, `DeleteProgramLockVersions`, `DeleteProgramCommit`, `RemoveFromDisk` |
| a statement fails; the process dies | `Rollback`; `Crash` |

A transaction's writes are invisible until it commits, so they are made in the
commit action; the reads are made where the code makes them, from the committed
rows, with the locks the statement takes: `SELECT ... FOR UPDATE` and the
`UPDATE` of all version rows of the program take the locks called "program" and
"versions", both kept until the end.  "versions" stands for the next-key range
of the program's version rows.  Row locks on single file rows are not modelled:
the only requests that update one file row are two deletions of one file, and the
second, which comes to the row when the first has committed, finds nothing to
change.  The bytes of an upload whose write failed half way are the bytes of no
upload (file id 0).  The timestamp that makes a taken name unique is the row's id
(`salt`).

`VersionHistory` is what the page of a program promises: files kept under
version names and one current version; publishing, activating, removing and
dropping happen at once.  `ProgramVersions` implements it (`ImplementsHistory`)
with the version rows, locks and disk hidden.

Left out: change-log edits (`UpdateVersion`) and downloads, which change none of
this state; and a commit whose acknowledgement is lost, which the handler takes for
a failure: an upload then removes the bytes of rows that are there.

### BatchImport: previews, import goroutines and tasks

`archives` is what the upload handler knows of each archive, `temp` the
temporary directories, `previews`, `expiresAt` and `timers` the entries of
`batchPreviews` with their `time.AfterFunc`, `imports` the import requests and
the goroutine each starts, `tasks` and `nextTask` the map `batchTasks` and
`batchTaskSeq`, `rows` and `disk` the programs committed and the directories
written.  One critical section of `batchPreviewMu` or of `batchTaskMu`, one
removal of a directory, one commit is one action:

| Code | Actions |
|---|---|
| `BatchUploadPrograms`, `createBatchPreview` | `ReceiveArchive`, `RefuseArchive`, `CreatePreview` |
| the timer, `expireBatchPreview` | `FireTimer`, `ExpirePreview`, `RemoveExpired` |
| `BatchImportPrograms` | `GetPreview`, `RefuseMappings`, `ConsumePreview`, `CreateTask` |
| `runBatchImportTask` | `OpenArchive`, `OpenFails`, `BeginProgram`, `CountProgram`, `Conclude`, `Finish`, `RemoveTempDir` |
| `importBatchProgramFiles` | `WriteFiles`, `RefuseProgram`, `CommitProgram`, `DeferredRemoval` |
| `GetTaskStatus` | `PollTask` (the clean-up; the answer changes nothing) |
| the process starts again | `Restart` |

A timer that has fired is not stopped by `Stop` any more, which is what makes the
expiry race the import.  The mappings of workstations are one answer, complete and
allowed or not; the branch for a missing mapping inside the goroutine cannot be
taken, because the preview consumed is the preview checked.  `disk` has the
directories of versions; the code removes no more than that, so that the empty
directories above one that was removed stay, which the model leaves out.  A task
carries the request it belongs to (`request`), which the program does not store;
the properties need it.  Task ids start again at 1 after a restart.

### PermissionCache: loads against writes

`account`, `rules` and `managed` are version numbers of what a load reads (the
user's row, the rules, the user's line assignments), `outdated` how long ago a
version of the rules was replaced, `cache` is `permCache` with the ticks an entry
is still valid for, `checks` the requests, of which one holds `permCacheMu`
(`lock`) and loads, `todo` the keys a writer has still to delete.

| Code | Actions |
|---|---|
| `GetUserPermissions` | `Lookup`, `FoundLoaded`, `Store` |
| `loadUserPermissions` | `ReadAccount`, `Stamp`, `ReadRules`, `ReadManaged`, `LoadFails` |
| `SavePermissionRuleChanges` and every write followed by `InvalidateAllCache` | `SaveRules`, `Delete` |
| `Create-`, `DeleteLineAdminAssignment` | `SaveAssignment`, `Delete` |
| `UpdateUser` | `UpdateUser` |

The statements that read the rules are one action; their versions only get newer
from one to the next, and the bound is counted from `Stamp`, before all of them.
The bound is one on what is cached: the request that loads is answered with what
it read, however long it took to read it.
What decisions follow from the rules is not modelled here.  An entry is marked
`late` when it was being loaded while its key was deleted; the program has no
such mark.

### The client

Every page is a React component with its own state; what makes it hard is that a
handler goes on after an `await` with the values of the render it began in, while
the user, effects, timers and other answers have moved on.  In each module the
state of the component is one record, the requests in flight are a set or (where
the order of sending matters to a property) a sequence, an answer takes the page's
reaction to it as a whole, state setters, `finally` and the effects they set off
included, and the server's side of it is an action of its own only where the time
of its reading makes a difference (mappings, rules, backups, the status of a
migration).  A request may always fail, be answered late, or take effect without
its answer coming back: the API client gives up after 10 s, on an upload after ten
minutes.  Two things are left out of these modules that the pages allow: a tab of
the browser is never closed in `Session` (a closed tab takes no step, and what it
would have done the others find undone), and the dialog of mappings adds one child
at a time where the form may send several in one transaction.

| Module | Code | State and what it stands for |
|---|---|---|
| `Session` | `AuthContext.tsx`, `api.ts`, `App.tsx`, `Layout.tsx`, `Login.tsx` | `tabs` with their user, page, login form and profile dialog; `storage` is localStorage with the age of the last activity; `cookie`; `accounts` is the server's |
| `ImportDialog` | `useProgramBatchImport.ts`, the dialog | `dialog`, the intervals `alive`, their `polls`, the tasks of the server and its restart |
| `ProgramEditor` | editor, viewer and upload of `ProgramManagement.tsx`, `loadVersions` | `editor` (one current program, one list of versions for the three), `form`, `described` is what the server has |
| `ProgramTable` | table and filters, `loadData` | `table`, loads in order, fields to filter by |
| `ProgramRelations` | `useProgramRelations.ts`, `program_mapping.go` | `drawer` with the dialog of candidates; `mapped`, the rows of the server, those soft-deleted too, which keep their child's place in the unique index; `remapping` and `mappingLoads`, changes and loads in the order they were sent, each with the moment the server found, changed or read as a step of its own |
| `PermissionMatrix` | a tab of `PermissionManagement.tsx` | target, rows, changes; the server's rules |
| `LineFields` | `ProductionLineCustomFieldManager.tsx` | rows of the dialog with and without ids, the save going on row by row, the fields stored |
| `AdminLists` | the pages of departments, lines, users and vehicle models | table by pages, filters, dialog, the two drawers of the vehicle models |
| `MigrationPolling` | migration on `SystemManagement.tsx` | handle of the page, intervals alive, the server's status |
| `BackupRestore` | backups on `SystemManagement.tsx` | list, dialog, `operationLoading`; the tasks the server works on |
| `ExportCenter` | `DataExportCenter.tsx`, `ColumnSelector.tsx` | columns offered, selected and kept in the browser, filters, preview, figures |

`Client` puts them side by side.  The pages share nothing but what the server
stores, so a behaviour of `Client` is one of the area it is about (`area`) with the
others at rest: the state space is the sum of the parts and not their product.
History variables (`past`, `mixed`, `outdated`, `astray`, `superseded`, `orphaned`
and the like) record that an answer was overtaken or came to another subject than
its own; the program has no such marks, and the properties use them to name
exactly the cases in which the page is wrong.

## 4. What is checked

| Run | Instance | Shows |
|---|---|---|
| `versions_edit` | 3 slots, 2 version names, 1 file name, 3 file rows, 1 crash, failing writes; one slot deletes single files | types, `SingleCurrent`, `CurrentIsPrograms`, `VersionsMatchFiles`, `FilesStored`, and that the handlers implement `VersionHistory` |
| `versions_clean` | 1 uploading slot with two files at a time, 2 deleting slots, initial files with and without version rows; a write leaves all of a file or nothing | `NoOrphans`, `ReconcileRepairs` |
| `versions_requests` | every operation over 3 slots, fairness | `RequestsEnd` |
| `versions_create` (violation) | CreateVersion beside uploads | `SingleCurrent` fails |
| `versions_orphan` (violation) | DeleteProgram beside an upload | `DeletedProgramLeavesNothing` fails |
| `batch_race` | 2 archives of up to 2 programs, 2 users, 2 requests, 1 restart | types, `ArchiveKept`, `ImportedOnce`, `TaskTruth`, `NothingLeftBehind`, `EndIsFinal` |
| `batch_ends` | 2 archives, 2 requests, no restart, fairness | `TaskEnds`, `TempCleaned` |
| `batch_stored` (violation) | 1 archive | `ImportedFilesStored` fails |
| `permissions_stale` | 1 user, 2 checks, 2 writers, TTL of 2 ticks, fairness | types, `StaleBounded`, `StaleExplained`, `StaleEnds` |
| `permissions_users` (violation) | a user is edited | `RoleChangeSeen` fails |
| `client_pages` | every area, two of what can be confused (lines, programs, users, tabs, loads in flight) | types and the safety properties below |
| `client_settles` | every area, smaller (the session with two tabs), fairness | `IdleEnds`, `ClientSettles` |

What the safety properties of `client_pages` say, in short; each is stated in full
above its definition.  `SessionIntact`: cookie and user shown agree, guarded pages
are open only to those who may, a profile waits only for an answer that is to
come.  `StoredUserIsIn`: a reload brings nobody back.  `OneInterval`, `NoStall`,
`ShowsItsImport`: one import, one interval, and the status shown is its own.
`RowsOfTarget`, `SubmitsOnlyChanged`: rules are shown and saved for the target
chosen.  `DialogInSync`: the field dialog and the server agree.  `EditorOfCurrent`,
`TextOfItsVersion`: the editor shows one program, a description is saved to its
version.  `TableShowsQuery`, `RelationsShown`, `ListConsistent`, `ExportShown`: what
is shown at rest answers what is asked; of the table also, that no value filters
which belongs to a field of another line, except one given while the fields
offered were the other line's; of the mappings, also when the server reads for
one answer before, and for another after, a change, unless the older is answered
last.  `FollowsMigration`: a migration shown as
running is polled.  `BackupsInOrder`: one restore at a time, and the list at rest is
what is stored.

`ClientSettles` says that no flag of `Loading` and `Working`, no form of the session
(`FormsUnlock`: the button of the login page and the password form of the profile, in
every tab) and no interval of `Watching` stays set for ever.  The flags are those of
the pages modelled: what is loaded (rules, field rows, versions, table, mappings,
lists, backups, columns, previews and figures), what is saved or done (an upload to
the import dialog, the save of rules, the save of fields, backups and restores, an
export); the intervals are those of imports and migrations.  Pages and tabs that
section 6 lists have flags of their own, about which nothing is said.

The bounds.  Versions: two names are enough for a current and another version,
three file rows for a version with two files beside one with one, three slots for
a holder, a waiter and a bystander; the theorems below hold for every size.  One
file name makes every second upload meet a taken path.  Ids are bounded through
`MaxFile`.  Batch import: two archives and two requests give both a request that
loses the race for a preview and one that works beside another; the clock stops
at `MaxClock` only when no preview is waiting for it, so no expiry is cut off.
TTLs of one or two ticks keep every order of expiry and step.  Permissions: users
share nothing but the mutex, so that one user with two checks and two writers
meets every order of one load and two invalidations; two versions after the
initial one let an entry be two changes behind.

The client: two subjects are enough for one to be taken for the other, two loads
for one to overtake the other, and three intervals for one to be lost between two
that are kept.  Mappings need a third program: one that is a parent and two
children that come and go, with two requests in flight, so that a load read
between two deletions can be answered after the load of the second.  `ClientBound`
cuts two things.  A state in which an accident that the page does not guard
against has just happened (a history variable is set) is checked, for the property
must allow it and nothing more, but not continued: from there on the page is known
to show something stale.  And some combinations within an area that do not act on
each other are not pursued together; the comments above the bounds of `MCClient`
list them.  Users, lines, programs, backups and tabs are interchangeable
(symmetry; safety only; the third program is not).  `client_settles` has no
constraint and no symmetry.

`CHECK_DEADLOCK FALSE` stands in the configurations of the client, where a page may
be left alone, and in the configurations of the batch import:
once every archive is used up, every request served and the clock at its bound,
nothing is left to do.

### Fairness

- `ProgramVersions`: a request that can go on does (`SF` on `Continue`: a request
  whose lock is handed back and forth gets it, as InnoDB queues waiters first
  come, first served); of two transactions in a deadlock one is rolled back, as
  InnoDB does; the model's limit on file rows ends an upload by failing it.
- `BatchImport`: a handler, goroutine or fired timer that can go on does, and time
  passes.  Whether a client sends an import request, or polls, is left open, so
  `TaskEnds` and `TempCleaned` owe nothing to it.
- The client: a request is answered or ended by a timeout of the API client, 10 s
  for all but uploads, which have ten minutes (`WF` on the answers: `LoadsEnd` for
  what is loaded, `WorkEnds` for what is saved or done, uploads, backups and restores
  included); a browser fires its intervals (`IntervalFires`), the clock goes on and
  the goroutine of an import or a migration runs to its end (`TimePasses`); and a
  poll made again and again is at last answered (`SF`: the network does not fail for
  ever).  Previews and figures of the export page, and the lists of backups loaded
  after a backup, have a condition each, since another load may be made again and
  again; so have the login and the password form of each tab, since other tabs may
  be busy.  No user has to do anything.  `Client` states the conditions area by area
  in one: only one area moves.
- `PermissionCache`: time passes and a writer that committed finishes its
  deletions.  No check has to come.

### What disagrees with the code's own words

1. `versions_create`: CreateVersion counts version rows with a plain read and
   without the lock on the program, so beside an upload it makes a second current
   row (`models/program.go:66`: only one current version).
2. `versions_orphan`: DeleteProgram lists the files to unlink before its first
   lock; the file of an upload that commits in between keeps its bytes for ever.
3. `batch_stored`: after a successful import `createdFilePaths` is set to nil, and
   the deferred function takes the empty list for a failure and removes the
   directory with the files just imported.
4. `permissions_users`: UpdateUser changes role and department and deletes no
   cache entry (`docs/architecture-governance.md:34`); the old permissions last
   until the entry runs out.

### Seen while modelling, and contradicting no document

These are in the models, as exceptions a property names or as behaviour no
property excludes.

- A file is noted for the clean-up of a failed upload only after it was saved, so
  one whose write failed half way stays on disk (`file_transfer_controller.go:164`).
- Matrix, versions, rows, lists, previews and drawers load without a token: the
  last answer wins, whatever was asked last.
- Loads of mappings are no exception: of two deletions, the load of the first, read
  before the second was served and answered after the load of the second, leaves
  the mapping deleted last in the drawer (`useProgramRelations.ts:154`).
- A value typed into a field of the line chosen before, while the fields of the new
  line have not come, goes on filtering under the new line, and no input shows it
  (`ProgramManagement.tsx:204-237`).
- A mapping is soft-deleted and keeps its place in the unique index of its child
  (`models/program.go:110`): the child can never be mapped again, neither to another
  program nor to the same, and the server answers the attempt with an error.
- The create dialog keeps the versions of the program edited before; a cancelled
  description restores the text of the version shown when it was begun; the answer
  to an update closes whatever editor is open by then; a cancelled change of line
  leaves the fields of the other line.
- The answer to a deletion reloads the page and filter of its click.
- Starting a migration can leave two intervals, one of which nobody can clear;
  both end by themselves.
- One flag for all backups and restores: a backup that ends frees the button of a
  restore going on, and after 10 s the client stops waiting while the server goes on.
- A failed restore leaves a rollback backup the list does not show until it is
  loaded again.
- A keyword that begins to count on the export page does not go back to page 1; an
  export within the debounce uses the old keyword; "select all" after the columns
  failed to load overwrites the selection kept in the browser.
- A wrong old password is answered with 401 (`controllers/user.go:475`), which the
  interceptor takes for the end of the session: the user is sent to the login page
  and the message of `Layout.tsx:214` is not read.
- The second drawer of the vehicle models can show the versions of one program
  under the title of another.
- The login button is free again while the animation of a login plays; a second
  login is then answered over whatever page the first has opened.
- A user without recorded activity is never logged out for idling until some
  activity is recorded.

## 5. What is proved

All theorems hold for every value of the constants that meets the named
assumptions of the modules (bounds are naturals, TTLs positive, the value for
"none" is not a member of its set).

- `ProgramVersionsProofs`: the types, with ids below the counters (`TypeCorrect`);
  and `SingleCurrent`, `CurrentIsPrograms` and `VersionsMatchFiles`, which follow
  from `ConsistencyInv`, assumed `Restricted`: no slot calls CreateVersion
  (`versions_create` shows why) and files have version rows at the start.  None of
  the three is inductive alone: a deletion commits what it computed from rows it
  read earlier.  The invariant adds which locks are held at which step
  (`LocksKept`), that therefore the rows read are still the rows there
  (`SeenIsCurrent`), and that the files of an upload in progress are newer than all
  others (`StagedAbove`).
- `ProgramVersionsRefinement!Refinement`: under the same assumption the handlers
  implement `VersionHistory`.  `HistoryInv` adds that an id names one file and that
  whoever holds the program's lock found it live; then each commit is one
  operation of the history and every other step a stutter.
- `ProgramVersionsStorage`: what is on disk.  `FilesStored` from `StoredInv`: every
  path holds the bytes of one upload, and no two of the rows in the table, in the
  hands of an upload and in those of a deletion that has committed are the same
  file.  Assumed `OneDeleter`, one slot that deletes single files: two deletions of
  one file both remove its path, and an upload may have taken the path between
  them (a hazard no test covers, for which the runs have one such slot).  `NoOrphans`
  from `OrphanInv`: what is on disk is listed or in the hands of a request that
  will list or remove it; assumed `NoProgramDeleted`, for `versions_orphan` shows what the
  deletion of a program leaves, and a torn write leaves its file.
  `ReconcileRepairs` from `RepairInv`, which holds for programs without version
  rows too, where `ConsistencyInv` does not; assumed `NoVersionByHand`, no slot
  that calls CreateVersion.
- `BatchImportProofs`: types, `ArchiveKept` and `ImportedOnce`, from `ArchiveInv`.
  `PreviewInv` says who may remove a directory, a timer only one whose preview it
  took out of the map itself; `HeldInv` that a request that consumed a preview took
  it out for good.  `NothingLeftBehind` is inductive with the types.  `TaskTruth`
  and `EndIsFinal` follow from `TaskInv`, which knows at every step of the import
  goroutine how many programs its task has counted and which are committed: the
  count is behind by the program that is committed and not yet counted, and a
  task is written by the goroutine of one request only.  Restarts included.
- `PermissionCacheProofs`: types and `StaleBounded`, from `LoadBounded`: an entry
  being loaded is bounded like one that is stored, because its time runs from
  before its first read of the rules.  `StaleExplained` from `ExplainInv`: an entry
  being loaded agrees with the database in what it has read so far, or a deletion
  of it is still to come.
- `SessionProofs`: types, `SessionIntact` and `StoredUserIsIn`, for any number of
  tabs and logins, where the runs have two.  `SessionIntact` is not inductive: a tab
  takes its user from localStorage, and the cookie may go with an answer still to
  come.  `UsersAgree` adds that localStorage names the user of the cookie, and that
  once a logout is on its way that no login has overtaken, no tab is in except
  behind its own back; `TabInOrder` that a tab waits for one change of password at
  most, and on the login page for none.
- `PagesProofs`: the properties of the pages, for the whole client (`ClientSpec`), for
  any number of programs, targets, openings, intervals and requests in flight.
  Each page has an invariant that says what its requests in flight will bring.
  `ClientBound`, which cuts the run `client_pages` short, plays no part: the theorems
  speak of every behaviour of the client, also after an accident the page does not
  guard against.
- `ClientProofs`: `DialogInSync`, and `ClientTypeOK`, the types of all pages with their
  bounds, from `ClientInv`, the conjunction of the invariants of the pages.

| Property | Invariant | What makes it inductive |
|---|---|---|
| `TableShowsQuery`, `ExportShown`, `ListConsistent` | `TableInv` (with `ValuesFollow`), `CenterInv`, `AdminInv` | `Follows`: of the loads sent, the last that no answer has passed asks for what is shown; none left means that the answer shown is the right one. `LoadSent`, `LoadAnswered` prove it once for all three |
| `RowsOfTarget`, `SubmitsOnlyChanged` | `MatrixInv` | the rows of the chosen target are shown or on their way; every change waiting is one made on the rows it is beside |
| `RelationsShown` | `RelationsInv` | what comes for the dialog is what it searches; unless a change was served and not yet reported (`Remapped`; a load will follow it), the last load of mappings that no answer has passed brings what the server has, or is still to be read (`UpToDate`), and with none left the drawer shows just that (`RelatedFits`) |
| `EditorOfCurrent`, `TextOfItsVersion` | `EditorInv` | the effects of a render keep the text with the version shown; editor and viewer are bound to the current program by the same condition on the versions |
| `FollowsMigration` | `MigrationInv` | intervals are numbered as they are made; a request sees an interval of its own visit, or one that is gone |
| `OneInterval`, `ShowsItsImport`, `NoStall` | `ImportInv` | `OfTheirOpening`: every task, call, poll and status belongs to the opening it was started in; `Watched`: one call at a time, polls of one interval, and an end that is on its way comes |
| `BackupsInOrder` | `BackupInv` | the last list to come is the one of the server; the page knows of the one restore there is, under way or listing |
| `DialogInSync` | `FieldsInv` | ids are in the dialog once and given by the server (`RowsProper`, `SavedSoFar`); the load with the newest token brings what the server has (`LoadsInv`); while a deletion or a save goes on, the dialog is as far behind as it is (`SyncInv`): of a save, every field there is has been stored from its row or has a row still to come |
| `ClientTypeOK` | `ClientInv` | import: each interval and each answer to a start is of an import that was served, so that there are no more of them than imports (`ServedBounded`); migration: begun and asked for and not yet served are together no more than were asked for (`MigrationBounds`); editor: what is shown, written or under way is of a version the server gave, and of finitely many versions there is a newest (`Largest`); pages and rows of the lists, calls and loads in flight as their actions leave them |

What the proofs changed in the modules.  Types that the runs confirmed and that are
not true for every value of the constants: the order of a field in `LineFields` can be
greater than `MaxRows` if more ids are given than that; a list of `AdminLists` without
entries is on page 1 all the same; and the counters of loads, listings and visits start at one, so
that `MaxLoads`, `MaxListings` and `MaxCenterVisits` are positive.  Sorted lists are
stated by rank (`Rank`, `Listed`, `RowOf`: the n-th is the one with n - 1 before it),
because the prover cannot expand a sort that takes the order as an operator.

Only model-checked:

- liveness (`RequestsEnd`, `TaskEnds`, `TempCleaned`, `StaleEnds`, `IdleEnds`,
  `ClientSettles`), which the prover does not reach;
- what the code does not keep, with the runs that expect a violation (section 4).

## 6. What is not modelled

- The components of the server that section 2 lists without *: nothing about them
  is checked yet beyond what the client needs from them (`LineFields` has the
  handlers of field definitions, `ProgramRelations` those of mappings as the page
  calls them, `PermissionMatrix` the saving of rules,
  `AdminLists` the effect of a change, `BackupRestore` that of backups).
- Routing, configuration, the contents of the Excel file, parsing, and the looks of
  pages, which keep no state whose order matters.
- `Dashboard.tsx` and `ProgramMatrixPreview.tsx`, which show what one load brings;
  `GlobalSearch.tsx` and `FileIgnoreList.tsx`, whose routes (`/search`,
  `/files/ignore`) the server does not have; the animation of `Login.tsx`; downloads,
  which change no state; prefetching of routes.
- The departments tab and the file integrity check of `SystemManagement.tsx`, and the
  reset of another user's password in `UserManagement.tsx`.
- `docs/archive/pages_disabled`, which is not built.
- MySQL beyond the locks named above, and its own crash recovery, which is taken as
  given.
