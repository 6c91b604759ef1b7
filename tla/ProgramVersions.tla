-------------------------- MODULE ProgramVersions --------------------------
(***************************************************************************)
(* The files and versions of ONE program: the rows of program_files and    *)
(* program_versions that belong to it, the column programs.version, the    *)
(* uploaded bytes on disk, and the handlers that change them -             *)
(* UploadFile, DeleteFile, CreateVersion, ActivateVersion, DeleteProgram - *)
(* run concurrently by the Request slots of the HTTP server, each against  *)
(* its own MySQL (InnoDB, REPEATABLE READ) transaction.                    *)
(*                                                                         *)
(* A transaction's writes are invisible until it commits, so an action     *)
(* applies them at its commit step.  What a transaction holds meanwhile is *)
(* the program row ("program") or the next-key range of the program's      *)
(* version rows ("versions"); both locks are released together, by commit  *)
(* or by rollback.  Rows that are soft-deleted are not seen by any query   *)
(* and are left out of the sets.                                           *)
(***************************************************************************)
EXTENDS Naturals, FiniteSets

CONSTANTS
  Version,      \* version names ("v1", "v2.0", ...)
  NoVersion,    \* programs.version is empty
  FileName,     \* sanitised display names of uploaded files
  Request,      \* server slots, each running one request at a time
  NoRequest,    \* a lock nobody holds
  May,          \* May[r]: the operations the clients of slot r call
  MaxFile,      \* bound: file rows ever inserted, the initial ones included
  MaxInit,      \* bound: file rows in the initial state
  MaxBatch,     \* bound: files in one upload
  MaxCrash,     \* bound: crashes of the server process
  LegacyStart,  \* whether the initial state may hold files without version rows
  DiskMayFail   \* whether writing an uploaded file may fail half way

Op == {"upload", "deleteFile", "activate", "createVersion", "deleteProgram"}

ASSUME VersionAssumption == NoVersion \notin Version
ASSUME RequestAssumption == NoRequest \notin Request
ASSUME MayAssumption == May \in [Request -> SUBSET Op]
ASSUME BoundsAssumption ==
  /\ MaxFile \in Nat /\ MaxInit \in Nat /\ MaxBatch \in Nat /\ MaxCrash \in Nat
  /\ MaxInit <= MaxFile
ASSUME SwitchAssumption == LegacyStart \in BOOLEAN /\ DiskMayFail \in BOOLEAN

VARIABLES
  program,      \* the programs row: live (not soft-deleted), version
  files,        \* live program_files rows of the program
  versions,     \* live program_versions rows of the program
  disk,         \* what is stored below the upload directory
  nextFile,     \* AUTO_INCREMENT of program_files
  nextVersion,  \* AUTO_INCREMENT of program_versions
  lock,         \* who holds the program row and the version range
  req,          \* the request each slot is running
  crashes       \* number of crashes so far

vars == <<program, files, versions, disk, nextFile, nextVersion, lock, req, crashes>>

-----------------------------------------------------------------------------
(***************************************************************************)
(* Data.                                                                   *)
(***************************************************************************)
Path == [version : Version, name : FileName, salt : Nat]

ProgramFile == [id : Nat, version : Version, path : Path]

ProgramVersion == [id : Nat, version : Version, file : Nat, current : BOOLEAN]

Program == [live : BOOLEAN, version : Version \cup {NoVersion}]

Stored == [path : Path, file : Nat]   \* the bytes of upload `file` at `path`

Resource == {"program", "versions"}

(* `at` is the lock a transaction waits for, or what the handler does next. *)
Step == {"idle", "check", "program", "versions", "write", "clean", "remove"}

RequestState == [op   : Op \cup {"none"},
                 at   : Step,
                 want : Version \cup {NoVersion},  \* version asked for
                 rows : SUBSET ProgramFile,        \* file rows in hand
                 seen : SUBSET ProgramVersion,     \* version rows it read
                 vid  : Nat]                       \* version id asked for

Idle == [op |-> "none", at |-> "idle", want |-> NoVersion,
         rows |-> {}, seen |-> {}, vid |-> 0]

FilesOf(fs, v) == {f \in fs : f.version = v}

(* ORDER BY created_at DESC, id DESC LIMIT 1; file rows are inserted under  *)
(* the program lock, so the order of creation is the order of the ids.      *)
Newest(rows) == CHOOSE x \in rows : \A y \in rows : y.id <= x.id

PathsOf(fs) == {f.path : f \in fs}

OnDisk(p) == \E d \in disk : d.path = p

(* Mutant: the timestamp that makes a taken name unique is forgotten. *)
StorePathPlain(v, n, id) == [version |-> v, name |-> n, salt |-> 0]

(***************************************************************************)
(* buildStoredUploadFile: the display name when nothing is stored there,   *)
(* else a name made unique by a timestamp (here the row's own id).         *)
(***************************************************************************)
StorePath(v, n, id) ==
  LET plain == [version |-> v, name |-> n, salt |-> 0]
  IN  IF OnDisk(plain) THEN [plain EXCEPT !.salt = id] ELSE plain

(***************************************************************************)
(* Locks.                                                                  *)
(***************************************************************************)
Available(what, r) == lock[what] \in {NoRequest, r}

Acquire(what, r) ==
  /\ Available(what, r)
  /\ lock' = [lock EXCEPT ![what] = r]

(* Mutant: the handler returns and leaves the transaction open. *)
LeftOpen(r) == lock

(* The end of a transaction, by commit or rollback, releases its locks. *)
Released(r) == [what \in Resource |-> IF lock[what] = r THEN NoRequest ELSE lock[what]]

InTransaction(r) == req[r].at \in {"check", "program", "versions", "write"}

(* r waits for a lock whose holder waits for a lock r holds: InnoDB's       *)
(* deadlock detection rolls one of them back.                               *)
Deadlocked(r) ==
  /\ req[r].at \in Resource
  /\ \E s \in Request \ {r} :
       /\ req[s].at \in Resource
       /\ lock[req[r].at] = s
       /\ lock[req[s].at] = r

-----------------------------------------------------------------------------
(***************************************************************************)
(* Initial states: any consistent history of at most MaxInit uploads, or   *)
(* (LegacyStart) the same files before version rows were recorded, which   *)
(* GetProgramFiles and reconcileProgramVersionState both handle.           *)
(***************************************************************************)
Init ==
  /\ \E k \in 0 .. MaxInit : \E v \in [1 .. k -> Version], n \in [1 .. k -> FileName] :
       LET Earlier(i) == \E j \in 1 .. i - 1 : v[j] = v[i] /\ n[j] = n[i]
           path(i) == [version |-> v[i], name |-> n[i],
                       salt |-> IF Earlier(i) THEN i ELSE 0]
       IN  /\ files = {[id |-> i, version |-> v[i], path |-> path(i)] : i \in 1 .. k}
           /\ disk = {[path |-> path(i), file |-> i] : i \in 1 .. k}
           /\ nextFile = k + 1
  /\ nextVersion = nextFile
  /\ \/ \E c \in {f.version : f \in files} :
          /\ versions = {[id |-> Newest(FilesOf(files, w)).id, version |-> w,
                          file |-> Newest(FilesOf(files, w)).id,
                          current |-> w = c] : w \in {f.version : f \in files}}
          /\ program = [live |-> TRUE, version |-> c]
     \/ /\ files = {}
        /\ versions = {}
        /\ program = [live |-> TRUE, version |-> NoVersion]
     \/ /\ LegacyStart
        /\ versions = {}
        /\ program \in [live : {TRUE}, version : {f.version : f \in files} \cup {NoVersion}]
  /\ lock = [what \in Resource |-> NoRequest]
  /\ req = [r \in Request |-> Idle]
  /\ crashes = 0

(***************************************************************************)
(* The unlocked reads a handler starts with: the program, file or version  *)
(* named by the request exists and the caller may act on its line.         *)
(***************************************************************************)
Start(r, op, state) ==
  /\ req[r] = Idle
  /\ op \in May[r]
  /\ program.live
  /\ req' = [req EXCEPT ![r] = [state EXCEPT !.op = op]]
  /\ UNCHANGED <<program, files, versions, disk, nextFile, nextVersion, lock, crashes>>

(* Mutant: an upload without a version name is let through. *)
StartUploadUnnamed(r) ==
  \E v \in Version \cup {NoVersion} :
    Start(r, "upload", [Idle EXCEPT !.at = "program", !.want = v])

StartUpload(r) ==
  \E v \in Version :
    Start(r, "upload", [Idle EXCEPT !.at = "program", !.want = v])

StartDeleteFile(r) ==
  \E f \in files :
    Start(r, "deleteFile", [Idle EXCEPT !.at = "program", !.rows = {f}])

StartActivate(r) ==
  \E v \in versions :
    Start(r, "activate", [Idle EXCEPT !.at = "versions", !.vid = v.id])

(* The file is checked before the transaction begins. *)
StartCreateVersion(r) ==
  \E f \in files :
    Start(r, "createVersion", [Idle EXCEPT !.at = "check", !.want = f.version, !.rows = {f}])

(* The files to remove from disk are listed by the first, unlocked reads    *)
(* of the transaction.                                                      *)
StartDeleteProgram(r) ==
  Start(r, "deleteProgram", [Idle EXCEPT !.at = "versions", !.rows = files])

(* SELECT ... FOR UPDATE finds no live program row: the transaction fails. *)
ProgramGone(r) ==
  /\ req[r].op \in {"upload", "deleteFile"}
  /\ req[r].at = "program"
  /\ Available("program", r)
  /\ ~program.live
  /\ req' = [req EXCEPT ![r] = Idle]
  /\ UNCHANGED <<program, files, versions, disk, nextFile, nextVersion, lock, crashes>>

-----------------------------------------------------------------------------
(***************************************************************************)
(* UploadFile.                                                             *)
(***************************************************************************)
UploadLockProgram(r) ==
  /\ req[r].op = "upload" /\ req[r].at = "program"
  /\ program.live
  /\ Acquire("program", r)
  /\ req' = [req EXCEPT ![r].at = "versions"]
  /\ UNCHANGED <<program, files, versions, disk, nextFile, nextVersion, crashes>>

UploadLockVersions(r) ==
  /\ req[r].op = "upload" /\ req[r].at = "versions"
  /\ Acquire("versions", r)
  /\ req' = [req EXCEPT ![r].at = "write"]
  /\ UNCHANGED <<program, files, versions, disk, nextFile, nextVersion, crashes>>

(* One iteration of the loop over the form's files: the bytes reach the     *)
(* disk at once, the row only with the commit.                              *)
UploadWrite(r, n) ==
  /\ req[r].op = "upload" /\ req[r].at = "write"
  /\ Cardinality(req[r].rows) < MaxBatch
  /\ nextFile <= MaxFile
  /\ LET p == StorePath(req[r].want, n, nextFile)
     IN  /\ disk' = disk \cup {[path |-> p, file |-> nextFile]}
         /\ req' = [req EXCEPT ![r].rows =
                      @ \cup {[id |-> nextFile, version |-> req[r].want, path |-> p]}]
  /\ nextFile' = nextFile + 1
  /\ UNCHANGED <<program, files, versions, nextVersion, lock, crashes>>

(* SaveUploadedFile creates the file and fails while copying into it: what  *)
(* it wrote (bytes of no upload, here 0) is not among the files to clean.   *)
(* The id it would have had is skipped, so that no later name is the same.  *)
UploadWriteFails(r, n) ==
  /\ DiskMayFail
  /\ req[r].op = "upload" /\ req[r].at = "write"
  /\ Cardinality(req[r].rows) < MaxBatch
  /\ nextFile <= MaxFile
  /\ disk' = disk \cup {[path |-> StorePath(req[r].want, n, nextFile), file |-> 0]}
  /\ nextFile' = nextFile + 1
  /\ lock' = Released(r)
  /\ req' = [req EXCEPT ![r] = IF @.rows = {} THEN Idle ELSE [@ EXCEPT !.at = "clean"]]
  /\ UNCHANGED <<program, files, versions, nextVersion, crashes>>

(* Mutant: the rows of the other versions keep is_current. *)
PublishedBeside(v, id) ==
  LET existing == {w \in versions : w.version = v}
      own == IF existing = {}
             THEN [id |-> nextVersion, version |-> v, file |-> id, current |-> TRUE]
             ELSE [Newest(existing) EXCEPT !.file = id, !.current = TRUE]
  IN  {w \in versions : w.id # own.id} \cup {own}

(* The version rows after an upload of version v whose last file is id:     *)
(* every row loses is_current, the row of v is created or relinked.         *)
Published(v, id) ==
  LET existing == {w \in versions : w.version = v}
      own == IF existing = {}
             THEN [id |-> nextVersion, version |-> v, file |-> id, current |-> TRUE]
             ELSE [Newest(existing) EXCEPT !.file = id, !.current = TRUE]
  IN  {[w EXCEPT !.current = FALSE] : w \in {u \in versions : u.id # own.id}} \cup {own}

UploadCommit(r) ==
  /\ req[r].op = "upload" /\ req[r].at = "write"
  /\ req[r].rows # {}
  /\ files' = files \cup req[r].rows
  /\ versions' = Published(req[r].want, Newest(req[r].rows).id)
  /\ nextVersion' = IF \E w \in versions : w.version = req[r].want
                    THEN nextVersion ELSE nextVersion + 1
  /\ program' = [program EXCEPT !.version = req[r].want]
  /\ lock' = Released(r)
  /\ req' = [req EXCEPT ![r] = Idle]
  /\ UNCHANGED <<disk, nextFile, crashes>>

(* After the rollback the files of this upload are removed again. *)
UploadClean(r) ==
  /\ req[r].at = "clean"
  /\ disk' = {d \in disk : d.path \notin PathsOf(req[r].rows)}
  /\ req' = [req EXCEPT ![r] = Idle]
  /\ UNCHANGED <<program, files, versions, nextFile, nextVersion, lock, crashes>>

-----------------------------------------------------------------------------
(***************************************************************************)
(* DeleteFile and reconcileProgramVersionState.                            *)
(***************************************************************************)
(* Mutant: the version rows are read without locking the program row. *)
DeleteFileUnlocked(r) ==
  /\ req[r].op = "deleteFile" /\ req[r].at = "program"
  /\ program.live
  /\ req' = [req EXCEPT ![r].at = "versions", ![r].seen = versions]
  /\ UNCHANGED <<program, files, versions, disk, nextFile, nextVersion, lock, crashes>>

(* The program row is locked, then the version rows are read: this          *)
(* consistent read is what the reconciliation decides on.                   *)
DeleteFileLockProgram(r) ==
  /\ req[r].op = "deleteFile" /\ req[r].at = "program"
  /\ program.live
  /\ Acquire("program", r)
  /\ req' = [req EXCEPT ![r].at = "versions", ![r].seen = versions]
  /\ UNCHANGED <<program, files, versions, disk, nextFile, nextVersion, crashes>>

(* Mutants: no fallback when the current version lost its last file; the    *)
(* newest file's version wins over the current one.                         *)
PreferredNoFallback(fs, kept) ==
  IF \E v \in kept : v.current THEN {v.version : v \in {u \in kept : u.current}}
  ELSE {NoVersion}

PreferredNewest(fs, kept) == IF fs = {} THEN {NoVersion} ELSE {Newest(fs).version}

(* The name of the version that becomes current: one that is current and    *)
(* kept, else the program's, else the version of the newest file.           *)
Preferred(fs, kept) ==
  LET names == {f.version : f \in fs}
  IN  IF \E v \in kept : v.current THEN {v.version : v \in {u \in kept : u.current}}
      ELSE IF program.version \in names THEN {program.version}
      ELSE IF fs # {} THEN {Newest(fs).version}
      ELSE {NoVersion}

(* Mutant: names without a version row are not given one. *)
CreatedNone(fs, missing) == {}

(* Version rows for names that have files but no row, newest name first. *)
Created(fs, missing) ==
  LET Latest(n) == Newest(FilesOf(fs, n)).id
  IN  {[id |-> nextVersion + Cardinality({m \in missing : Latest(m) > Latest(n)}),
        version |-> n, file |-> Latest(n), current |-> FALSE] : n \in missing}

Reconcile(fs, seen) ==
  LET names == {f.version : f \in fs}
      kept == {v \in seen : v.version \in names}
      missing == names \ {v.version : v \in kept}
      relinked == {[v EXCEPT !.file = Newest(FilesOf(fs, v.version)).id] : v \in kept}
      known == relinked \cup Created(fs, missing)
      \* rows inserted since they were read are only told not to be current
      unseen == {v \in versions : \A w \in seen : w.id # v.id}
  IN  \E p \in Preferred(fs, kept) :
        /\ versions' = {[v EXCEPT !.current =
                           /\ v \in known /\ v.version = p
                           /\ \A w \in known : w.version = p => w.id <= v.id]
                        : v \in known \cup unseen}
        /\ nextVersion' = nextVersion + Cardinality(missing)
        /\ program' = [program EXCEPT !.version = p]

DeleteFileCommit(r) ==
  /\ req[r].op = "deleteFile" /\ req[r].at = "versions"
  /\ Available("versions", r)
  /\ files' = files \ req[r].rows
  /\ Reconcile(files \ req[r].rows, req[r].seen)
  /\ lock' = Released(r)
  /\ req' = [req EXCEPT ![r].at = "remove", ![r].seen = {}]
  /\ UNCHANGED <<disk, nextFile, crashes>>

(* DeleteFile and DeleteProgram remove files from disk after the commit, by *)
(* the paths they read before it.                                           *)
RemoveFromDisk(r) ==
  /\ req[r].at = "remove"
  /\ disk' = {d \in disk : d.path \notin PathsOf(req[r].rows)}
  /\ req' = [req EXCEPT ![r] = Idle]
  /\ UNCHANGED <<program, files, versions, nextFile, nextVersion, lock, crashes>>

-----------------------------------------------------------------------------
(***************************************************************************)
(* ActivateVersion.                                                        *)
(***************************************************************************)
ActivateLockVersion(r) ==
  /\ req[r].op = "activate" /\ req[r].at = "versions"
  /\ \E v \in versions : v.id = req[r].vid
  /\ Acquire("versions", r)
  /\ req' = [req EXCEPT ![r].at = "program"]
  /\ UNCHANGED <<program, files, versions, disk, nextFile, nextVersion, crashes>>

ActivateVersionGone(r) ==
  /\ req[r].op = "activate" /\ req[r].at = "versions"
  /\ Available("versions", r)
  /\ \A v \in versions : v.id # req[r].vid
  /\ req' = [req EXCEPT ![r] = Idle]
  /\ UNCHANGED <<program, files, versions, disk, nextFile, nextVersion, lock, crashes>>

ActivateCommit(r) ==
  /\ req[r].op = "activate" /\ req[r].at = "program"
  /\ Available("program", r)
  /\ \E v \in versions :
       /\ v.id = req[r].vid
       /\ versions' = {[w EXCEPT !.current = w.id = v.id] : w \in versions}
       /\ program' = IF program.live THEN [program EXCEPT !.version = v.version] ELSE program
  /\ lock' = Released(r)
  /\ req' = [req EXCEPT ![r] = Idle]
  /\ UNCHANGED <<files, disk, nextFile, nextVersion, crashes>>

-----------------------------------------------------------------------------
(***************************************************************************)
(* CreateVersion.                                                          *)
(***************************************************************************)
(* Duplicate check and count are plain reads of the transaction's snapshot. *)
CreateCheck(r) ==
  /\ req[r].op = "createVersion" /\ req[r].at = "check"
  /\ req' = [req EXCEPT ![r] =
               IF \E v \in versions : v.version = req[r].want THEN Idle
               ELSE [@ EXCEPT !.at = "versions", !.seen = versions]]
  /\ UNCHANGED <<program, files, versions, disk, nextFile, nextVersion, lock, crashes>>

NewVersionRow(r) ==
  [id |-> nextVersion, version |-> req[r].want,
   file |-> (CHOOSE f \in req[r].rows : TRUE).id, current |-> req[r].seen = {}]

CreateInsert(r) ==
  /\ req[r].op = "createVersion" /\ req[r].at = "versions"
  /\ req[r].seen # {}
  /\ Available("versions", r)
  /\ versions' = versions \cup {NewVersionRow(r)}
  /\ nextVersion' = nextVersion + 1
  /\ req' = [req EXCEPT ![r] = Idle]
  /\ UNCHANGED <<program, files, disk, nextFile, lock, crashes>>

CreateInsertFirst(r) ==
  /\ req[r].op = "createVersion" /\ req[r].at = "versions"
  /\ req[r].seen = {}
  /\ Acquire("versions", r)
  /\ req' = [req EXCEPT ![r].at = "program"]
  /\ UNCHANGED <<program, files, versions, disk, nextFile, nextVersion, crashes>>

CreateCommit(r) ==
  /\ req[r].op = "createVersion" /\ req[r].at = "program"
  /\ Available("program", r)
  /\ versions' = versions \cup {NewVersionRow(r)}
  /\ nextVersion' = nextVersion + 1
  /\ program' = IF program.live THEN [program EXCEPT !.version = req[r].want] ELSE program
  /\ lock' = Released(r)
  /\ req' = [req EXCEPT ![r] = Idle]
  /\ UNCHANGED <<files, disk, nextFile, crashes>>

-----------------------------------------------------------------------------
(***************************************************************************)
(* DeleteProgram.                                                          *)
(***************************************************************************)
DeleteProgramLockVersions(r) ==
  /\ req[r].op = "deleteProgram" /\ req[r].at = "versions"
  /\ Acquire("versions", r)
  /\ req' = [req EXCEPT ![r].at = "program"]
  /\ UNCHANGED <<program, files, versions, disk, nextFile, nextVersion, crashes>>

DeleteProgramCommit(r) ==
  /\ req[r].op = "deleteProgram" /\ req[r].at = "program"
  /\ Available("program", r)
  /\ files' = {}
  /\ versions' = {}
  /\ program' = [program EXCEPT !.live = FALSE]
  /\ lock' = Released(r)
  /\ req' = [req EXCEPT ![r].at = "remove"]
  /\ UNCHANGED <<disk, nextFile, nextVersion, crashes>>

-----------------------------------------------------------------------------
(* Mutant: a failed upload leaves its files on disk. *)
RollbackLeavingFiles(r) ==
  /\ InTransaction(r)
  /\ lock' = Released(r)
  /\ req' = [req EXCEPT ![r] = Idle]
  /\ UNCHANGED <<program, files, versions, disk, nextFile, nextVersion, crashes>>

(***************************************************************************)
(* Any statement of a transaction may fail - lost connection, lock wait    *)
(* timeout, deadlock, an empty file - and it is then rolled back.          *)
(***************************************************************************)
Rollback(r) ==
  /\ InTransaction(r)
  /\ lock' = Released(r)
  /\ req' = [req EXCEPT ![r] =
               IF req[r].op = "upload" /\ req[r].rows # {}
               THEN [@ EXCEPT !.at = "clean"] ELSE Idle]
  /\ UNCHANGED <<program, files, versions, disk, nextFile, nextVersion, crashes>>

(* The server process dies; MySQL rolls its transactions back. *)
Crash ==
  /\ crashes < MaxCrash
  /\ crashes' = crashes + 1
  /\ lock' = [what \in Resource |-> NoRequest]
  /\ req' = [r \in Request |-> Idle]
  /\ UNCHANGED <<program, files, versions, disk, nextFile, nextVersion>>

UploadStep(r) ==
  \/ UploadLockProgram(r) \/ UploadLockVersions(r)
  \/ \E n \in FileName : UploadWrite(r, n) \/ UploadWriteFails(r, n)
  \/ UploadCommit(r) \/ UploadClean(r)

DeleteStep(r) ==
  \/ DeleteFileLockProgram(r) \/ DeleteFileCommit(r)
  \/ DeleteProgramLockVersions(r) \/ DeleteProgramCommit(r)
  \/ RemoveFromDisk(r)

ActivateStep(r) ==
  ActivateLockVersion(r) \/ ActivateVersionGone(r) \/ ActivateCommit(r)

CreateStep(r) ==
  CreateCheck(r) \/ CreateInsert(r) \/ CreateInsertFirst(r) \/ CreateCommit(r)

Continue(r) == UploadStep(r) \/ DeleteStep(r) \/ ActivateStep(r) \/ CreateStep(r) \/ ProgramGone(r)

StartStep(r) ==
  \/ StartUpload(r) \/ StartDeleteFile(r) \/ StartActivate(r)
  \/ StartCreateVersion(r) \/ StartDeleteProgram(r)

(* A deleted program whose last request has ended stays as it is. *)
Stopped ==
  /\ ~program.live
  /\ \A r \in Request : req[r] = Idle
  /\ UNCHANGED vars

Next ==
  \/ \E r \in Request : StartStep(r) \/ Continue(r) \/ Rollback(r)
  \/ Crash
  \/ Stopped

Spec == Init /\ [][Next]_vars

(***************************************************************************)
(* Fairness: a goroutine that can go on does; a lock handed over reaches   *)
(* the waiter; a deadlock is broken by rolling back one of its two         *)
(* transactions; a request whose file rows are exhausted (MaxFile) fails.  *)
(***************************************************************************)
Fairness ==
  \A r \in Request :
    /\ SF_vars(Continue(r))
    /\ WF_vars((Deadlocked(r) \/ req[r].at = "write") /\ Rollback(r))

FairSpec == Spec /\ Fairness

-----------------------------------------------------------------------------
(***************************************************************************)
(* Properties.                                                             *)
(***************************************************************************)
(* Every variable has its type (models/program.go).                         *)
TypeOK ==
  /\ program \in Program
  /\ files \subseteq ProgramFile
  /\ versions \subseteq ProgramVersion
  /\ disk \subseteq Stored
  /\ nextFile \in Nat
  /\ nextVersion \in Nat
  /\ lock \in [Resource -> Request \cup {NoRequest}]
  /\ req \in [Request -> RequestState]
  /\ crashes \in Nat

(* A program has at most one current version row (models/program.go:66),    *)
(* whatever uploads, activations and deletions overlap.                     *)
SingleCurrent ==
  \A v, w \in versions : v.current /\ w.current => v = w

(* programs.version, which lists and filters use, names the row marked      *)
(* current, and one row is marked whenever there are version rows: the two  *)
(* copies of "the current version" never drift apart.                       *)
CurrentIsPrograms ==
  program.live =>
    IF versions = {} THEN program.version = NoVersion
    ELSE \E v \in versions : v.current /\ v.version = program.version

(* Each version name in use has exactly one row, and the row's file_id is   *)
(* the newest file still kept under that name: no version outlives its last *)
(* file and no file is without a version.                                   *)
VersionsMatchFiles ==
  /\ \A f \in files : \E v \in versions : v.version = f.version
  /\ \A v, w \in versions : v.version = w.version => v = w
  /\ \A v \in versions : \E f \in FilesOf(files, v.version) :
       /\ v.file = f.id
       /\ \A g \in FilesOf(files, v.version) : g.id <= f.id

(* Every live file row has its own bytes, and only them, at its path: no    *)
(* upload overwrites and no removal takes a file that is still listed.      *)
FilesStored ==
  \A f \in files :
    /\ [path |-> f.path, file |-> f.id] \in disk
    /\ \A d \in disk : d.path = f.path => d.file = f.id

(* When every request has ended and the process never crashed, the upload   *)
(* directory holds nothing that no file row lists: failed uploads and       *)
(* deletions clean up after themselves.                                     *)
NoOrphans ==
  (crashes = 0 /\ \A r \in Request : req[r] = Idle) =>
    \A d \in disk : \E f \in files : f.path = d.path

(* Deleting a program removes all its uploaded files from disk.             *)
DeletedProgramLeavesNothing ==
  (~program.live /\ crashes = 0 /\ \A r \in Request : req[r] = Idle) => disk = {}

(* A file deletion repairs whatever it finds - programs whose versions were *)
(* never recorded included: after its commit version rows, files and the    *)
(* program's version agree (reconcileProgramVersionState).                  *)
ReconcileRepairs ==
  [][(\E r \in Request : DeleteFileCommit(r)) =>
       (VersionsMatchFiles /\ CurrentIsPrograms)']_vars

(* Every request ends: no lock is kept by a request that is over, and no    *)
(* two transactions wait for each other forever.                            *)
RequestsEnd ==
  \A r \in Request : (req[r] # Idle) ~> (req[r] = Idle)

(* What VersionHistory sees of the state. *)
Held == {[id |-> f.id, version |-> f.version] : f \in files}

Current == IF program.live THEN program.version ELSE NoVersion

History == INSTANCE VersionHistory WITH held <- Held, current <- Current

(* The interleaved handlers implement the atomic history of VersionHistory: *)
(* a file deletion that races an upload or an activation still falls back   *)
(* to the newest remaining version and never revives a dead one.            *)
ImplementsHistory == History!HSpec

-----------------------------------------------------------------------------
(***************************************************************************)
(* Why versions and files stay consistent when no version row is created   *)
(* by hand: what a transaction holds at each step, and that what it read   *)
(* under the program lock is still there when it commits.                  *)
(***************************************************************************)
HoldsProgram(r) ==
  \/ req[r].op = "upload" /\ req[r].at \in {"versions", "write"}
  \/ req[r].op = "deleteFile" /\ req[r].at = "versions"

HoldsVersions(r) ==
  \/ req[r].op = "upload" /\ req[r].at = "write"
  \/ req[r].op \in {"activate", "deleteProgram"} /\ req[r].at = "program"

LocksKept ==
  \A r \in Request :
    /\ HoldsProgram(r) => lock["program"] = r
    /\ HoldsVersions(r) => lock["versions"] = r

SeenIsCurrent ==
  \A r \in Request :
    req[r].op = "deleteFile" /\ req[r].at = "versions" => req[r].seen = versions

StagedAbove ==
  \A r \in Request : req[r].op = "upload" =>
    /\ req[r].at \in {"program", "versions"} => req[r].rows = {}
    /\ req[r].at = "write" =>
         \A f \in req[r].rows :
           f.version = req[r].want /\ \A g \in files : g.id < f.id

OneRowPerId == \A v, w \in versions : v.id = w.id => v = w

(* The inductive invariant behind SingleCurrent, CurrentIsPrograms and       *)
(* VersionsMatchFiles: no transaction commits over rows that changed since   *)
(* it read them (UploadFile, reconcileProgramVersionState, ActivateVersion). *)
ConsistencyInv ==
  /\ \A r \in Request : req[r].op # "createVersion"
  /\ LocksKept
  /\ SeenIsCurrent
  /\ StagedAbove
  /\ OneRowPerId
  /\ SingleCurrent
  /\ CurrentIsPrograms
  /\ VersionsMatchFiles

(* What the refinement of VersionHistory needs besides: an id names one      *)
(* file, wherever its row is, and only a live program's row is held.         *)
KnownFiles == files \cup UNION {req[r].rows : r \in Request}

HistoryInv ==
  /\ \A f, g \in KnownFiles : f.id = g.id => f = g
  /\ \A r \in Request : req[r].op = "deleteFile" => \E f \in ProgramFile : req[r].rows = {f}
  /\ \A r \in Request : HoldsProgram(r) => program.live
=============================================================================
