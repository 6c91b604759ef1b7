----------------------- MODULE ProgramVersionsStorage -----------------------
(***************************************************************************)
(* What is below the upload directory and what the file rows list, and     *)
(* what a deletion makes of version rows that do not match them, for every *)
(* number of slots, names, files and crashes.  Files stay stored as        *)
(* long as one slot at a time deletes single files: two deletions of the   *)
(* same file both remove it by its path, and an upload may have taken that *)
(* path in between.  Nothing is left over as long as uploads are the only  *)
(* ones to write and no write fails half way.                              *)
(***************************************************************************)
EXTENDS ProgramVersionsProofs

(* At most one slot deletes single files.  Two deletions of one file both   *)
(* remove its path, the second perhaps after an upload has taken it again.  *)
OneDeleter ==
  \A r, s \in Request : "deleteFile" \in May[r] /\ "deleteFile" \in May[s] => r = s

Bytes(f) == [path |-> f.path, file |-> f.id]

(* The rows in the hands of the slot are on disk and not in the table: not  *)
(* yet, or not any more.                                                    *)
OffTable(q) == q.op = "upload" \/ (q.op = "deleteFile" /\ q.at = "remove")

(* What a request does next fits the operation; it writes and deletes file  *)
(* rows under the lock of a live program.                                   *)
SlotInv ==
  \A r \in Request :
    /\ req[r].op = "deleteFile" => "deleteFile" \in May[r]
    /\ req[r].at = "clean" => req[r].op = "upload"
    /\ req[r].at = "remove" => req[r].op \in {"deleteFile", "deleteProgram"}
    /\ req[r].at = "remove" /\ req[r].op = "deleteProgram" => ~program.live
    /\ HoldsProgram(r) => lock["program"] = r /\ program.live

(* Every path holds the bytes of one upload.  A file that is listed, or in  *)
(* the hands of an upload or of a deletion that has committed, has its      *)
(* bytes there, and no two of these are the same file.                      *)
DiskInv ==
  /\ \A d, e \in disk : d.path = e.path => d = e
  /\ \A d \in disk : d.path.salt < nextFile
  /\ \A f \in files : Bytes(f) \in disk
  /\ \A f, g \in files : f.id = g.id => f = g
  /\ \A r \in Request : req[r].op = "deleteFile" /\ ~OffTable(req[r]) => req[r].rows \subseteq files
  /\ \A r \in Request : OffTable(req[r]) =>
       \A f \in req[r].rows : Bytes(f) \in disk /\ \A g \in files : g.id # f.id
  /\ \A r, s \in Request : OffTable(req[r]) /\ OffTable(req[s]) =>
       \A f \in req[r].rows, g \in req[s].rows : f.id = g.id => r = s /\ f = g

(* Behind FilesStored; of a deleted program nothing is listed. *)
StoredInv == SlotInv /\ IF program.live THEN DiskInv ELSE files = {}

-----------------------------------------------------------------------------
(***************************************************************************)
(* Requests and the program lock.                                          *)
(***************************************************************************)
(* What the slot's new state x has to satisfy. *)
SlotOK(r, x) ==
  /\ x.op = "deleteFile" => "deleteFile" \in May[r]
  /\ x.at = "clean" => x.op = "upload"
  /\ x.at = "remove" => x.op \in {"deleteFile", "deleteProgram"}
  /\ x.at = "remove" /\ x.op = "deleteProgram" => ~program'.live
  /\ x.op = "upload" /\ x.at \in {"versions", "write"} => lock'["program"] = r /\ program'.live
  /\ x.op = "deleteFile" /\ x.at = "versions" => lock'["program"] = r /\ program'.live

(* Only a transaction that holds the program row, or finds it free, ends    *)
(* the program's life.                                                      *)
LEMMA SlotStep ==
  ASSUME TypeInv, SlotInv, NEW r \in Request, NEW x,
         req' = [req EXCEPT ![r] = x], OthersKeep(r), SlotOK(r, x),
         program'.live = program.live \/ (Available("program", r) /\ ~program'.live)
  PROVE  SlotInv'
<1>1. req \in [Request -> RequestState] BY DEF TypeInv, TypeOK
<1>2. req'[r] = x /\ \A s \in Request \ {r} : req'[s] = req[s] BY <1>1
<1> SUFFICES ASSUME NEW s \in Request
             PROVE  /\ req'[s].op = "deleteFile" => "deleteFile" \in May[s]
                    /\ req'[s].at = "clean" => req'[s].op = "upload"
                    /\ req'[s].at = "remove" => req'[s].op \in {"deleteFile", "deleteProgram"}
                    /\ req'[s].at = "remove" /\ req'[s].op = "deleteProgram" => ~program'.live
                    /\ HoldsProgram(s)' => lock'["program"] = s /\ program'.live
  BY DEF SlotInv
<1>3. CASE s = r BY <1>2, <1>3 DEF SlotOK, HoldsProgram
<1>4. CASE s # r
  <2>1. req'[s] = req[s] BY <1>2, <1>4
  <2>2. HoldsProgram(s) => lock["program"] = s /\ program.live BY DEF SlotInv
  <2>3. lock["program"] = s => lock'["program"] = s BY <1>4 DEF OthersKeep, Resource
  <2>4. Available("program", r) => lock["program"] # s
    BY <1>4, RequestAssumption DEF Available
  <2> QED BY <2>1, <2>2, <2>3, <2>4 DEF SlotInv, HoldsProgram
<1> QED BY <1>3, <1>4

(* Releasing the locks, or taking one, leaves those of the others alone;    *)
(* whoever holds the program row keeps the program alive until it is done.  *)
LEMMA StepSlotInv ==
  ASSUME TypeInv, SlotInv, [Next]_vars
  PROVE  SlotInv'
<1>1. /\ req \in [Request -> RequestState] /\ program \in Program
      /\ lock \in [Resource -> Request \cup {NoRequest}]
  BY DEF TypeInv, TypeOK
<1>2. "program" \in Resource /\ "versions" \in Resource BY DEF Resource
<1>3. ASSUME NEW r \in Request, NEW x, req' = [req EXCEPT ![r] = x],
             lock' = lock \/ lock' = Released(r), program'.live = program.live, SlotOK(r, x)
      PROVE  SlotInv'
  BY <1>3, LocksOfOthers, SlotStep
<1>4. \A r \in Request : SlotOK(r, Idle) BY DEF SlotOK, Idle
<1>5. ASSUME NEW r \in Request, StartStep(r) PROVE SlotInv'
  <2>1. ASSUME NEW op \in Op, NEW q, Start(r, op, q), q.at \notin {"clean", "remove"},
               [q EXCEPT !.op = op].op = op, [q EXCEPT !.op = op].at = q.at,
               op \in {"upload", "deleteFile"} => q.at = "program"
        PROVE  SlotInv'
    <3> DEFINE x == [q EXCEPT !.op = op]
    <3>1. req' = [req EXCEPT ![r] = x] /\ program' = program /\ lock' = lock /\ op \in May[r]
      BY <2>1 DEF Start
    <3>2. x.op = op /\ x.at = q.at BY <2>1
    <3> HIDE DEF x
    <3>3. SlotOK(r, x) BY <2>1, <3>1, <3>2 DEF SlotOK
    <3> QED BY <3>1, <3>3, <1>3
  <2>2. CASE StartUpload(r)
    <3>1. PICK v \in Version : Start(r, "upload", [Idle EXCEPT !.at = "program", !.want = v])
      BY <2>2 DEF StartUpload
    <3> QED BY <3>1, <2>1 DEF Idle, Op
  <2>3. CASE StartDeleteFile(r)
    <3>1. PICK f \in files : Start(r, "deleteFile", [Idle EXCEPT !.at = "program", !.rows = {f}])
      BY <2>3 DEF StartDeleteFile
    <3> QED BY <3>1, <2>1 DEF Idle, Op
  <2>4. CASE StartActivate(r)
    <3>1. PICK v \in versions :
            Start(r, "activate", [Idle EXCEPT !.at = "versions", !.vid = v.id])
      BY <2>4 DEF StartActivate
    <3> QED BY <3>1, <2>1 DEF Idle, Op
  <2>5. CASE StartCreateVersion(r)
    <3>1. PICK f \in files :
            Start(r, "createVersion", [Idle EXCEPT !.at = "check", !.want = f.version,
                                                   !.rows = {f}])
      BY <2>5 DEF StartCreateVersion
    <3> QED BY <3>1, <2>1 DEF Idle, Op
  <2>6. CASE StartDeleteProgram(r)
    BY <2>6, <2>1 DEF StartDeleteProgram, Idle, Op
  <2> QED BY <1>5, <2>2, <2>3, <2>4, <2>5, <2>6 DEF StartStep
<1>6. ASSUME NEW r \in Request,
             \/ ProgramGone(r) \/ ActivateVersionGone(r) \/ UploadClean(r) \/ RemoveFromDisk(r)
             \/ UploadCommit(r) \/ ActivateCommit(r) \/ CreateInsert(r) \/ CreateCommit(r)
      PROVE  SlotInv'
  <2>1. /\ req' = [req EXCEPT ![r] = Idle]
        /\ lock' = lock \/ lock' = Released(r)
        /\ program'.live = program.live
    BY <1>1, <1>6 DEF ProgramGone, ActivateVersionGone, UploadClean, RemoveFromDisk,
                      UploadCommit, ActivateCommit, CreateInsert, CreateCommit, Program
  <2> QED BY <2>1, <1>3, <1>4
<1>7. ASSUME NEW r \in Request,
             Rollback(r) \/ \E n \in FileName : UploadWriteFails(r, n)
      PROVE  SlotInv'
  <2> DEFINE y == [req[r] EXCEPT !.at = "clean"]
  <2>1. /\ req' = [req EXCEPT ![r] = Idle]
           \/ (req[r].op = "upload" /\ req' = [req EXCEPT ![r] = y])
        /\ lock' = Released(r) /\ program' = program
    BY <1>1, <1>7 DEF Rollback, UploadWriteFails
  <2>2. req[r].op = "upload" => SlotOK(r, y) BY <1>1 DEF SlotOK, RequestState
  <2> HIDE DEF y
  <2> QED BY <2>1, <2>2, <1>3, <1>4
<1>8. ASSUME NEW r \in Request, NEW n \in FileName, UploadWrite(r, n) PROVE SlotInv'
  <2> DEFINE x == [req[r] EXCEPT !.rows =
                     @ \cup {[id |-> nextFile, version |-> req[r].want,
                              path |-> StorePath(req[r].want, n, nextFile)]}]
  <2>1. /\ req' = [req EXCEPT ![r] = x] /\ lock' = lock /\ program' = program
        /\ req[r].op = "upload" /\ req[r].at = "write"
    BY <1>1, <1>8 DEF UploadWrite
  <2>2. x.op = "upload" /\ x.at = "write" BY <1>1, <2>1 DEF RequestState
  <2>3. lock["program"] = r /\ program.live BY <2>1 DEF SlotInv, HoldsProgram
  <2> HIDE DEF x
  <2>4. SlotOK(r, x) BY <2>1, <2>2, <2>3 DEF SlotOK
  <2> QED BY <2>1, <2>4, <1>3
<1>9. ASSUME NEW r \in Request, UploadLockProgram(r) \/ DeleteFileLockProgram(r)
      PROVE  SlotInv'
  <2>1. PICK x : /\ req' = [req EXCEPT ![r] = x] /\ x.op = req[r].op /\ x.at = "versions"
                 /\ req[r].op \in {"upload", "deleteFile"}
                 /\ Acquire("program", r) /\ program.live /\ program' = program
    <3>1. CASE UploadLockProgram(r)
      <4> DEFINE x == [req[r] EXCEPT !.at = "versions"]
      <4>1. x.op = req[r].op /\ x.at = "versions" BY <1>1 DEF RequestState
      <4> QED BY <1>1, <3>1, <4>1 DEF UploadLockProgram
    <3>2. CASE DeleteFileLockProgram(r)
      <4> DEFINE x == [req[r] EXCEPT !.at = "versions", !.seen = versions]
      <4>1. x.op = req[r].op /\ x.at = "versions" BY <1>1 DEF RequestState
      <4> QED BY <1>1, <3>2, <4>1 DEF DeleteFileLockProgram
    <3> QED BY <1>9, <3>1, <3>2
  <2>2. OthersKeep(r) /\ lock'["program"] = r BY <1>2, <2>1, LocksOfOthers
  <2>3. SlotOK(r, x) BY <2>1, <2>2 DEF SlotOK, SlotInv
  <2> QED BY <2>1, <2>2, <2>3, SlotStep
<1>10. ASSUME NEW r \in Request, UploadLockVersions(r) PROVE SlotInv'
  <2> DEFINE x == [req[r] EXCEPT !.at = "write"]
  <2>1. /\ req' = [req EXCEPT ![r] = x] /\ req[r].op = "upload" /\ req[r].at = "versions"
        /\ Acquire("versions", r) /\ program' = program
    BY <1>1, <1>10 DEF UploadLockVersions
  <2>2. lock["program"] = r /\ program.live BY <2>1 DEF SlotInv, HoldsProgram
  <2>3. lock'["program"] = r BY <1>1, <2>1, <2>2 DEF Acquire, Available
  <2>4. SlotOK(r, x) BY <1>1, <2>1, <2>2, <2>3 DEF SlotOK, RequestState
  <2> HIDE DEF x
  <2>5. OthersKeep(r) BY <1>2, <2>1, LocksOfOthers
  <2> QED BY <2>1, <2>4, <2>5, SlotStep
<1>11. ASSUME NEW r \in Request,
              ActivateLockVersion(r) \/ DeleteProgramLockVersions(r) \/ CreateInsertFirst(r)
       PROVE  SlotInv'
  <2> DEFINE x == [req[r] EXCEPT !.at = "program"]
  <2>1. /\ req' = [req EXCEPT ![r] = x]
        /\ req[r].op \in {"activate", "deleteProgram", "createVersion"}
        /\ Acquire("versions", r) /\ program' = program
    BY <1>1, <1>11 DEF ActivateLockVersion, DeleteProgramLockVersions, CreateInsertFirst
  <2>2. SlotOK(r, x) BY <1>1, <2>1 DEF SlotOK, RequestState
  <2> HIDE DEF x
  <2>3. OthersKeep(r) BY <1>2, <2>1, LocksOfOthers
  <2> QED BY <2>1, <2>2, <2>3, SlotStep
<1>12. ASSUME NEW r \in Request, DeleteFileCommit(r) PROVE SlotInv'
  <2> DEFINE x == [req[r] EXCEPT !.at = "remove", !.seen = {}]
  <2>1. req' = [req EXCEPT ![r] = x] /\ req[r].op = "deleteFile" /\ lock' = Released(r)
    BY <1>1, <1>12 DEF DeleteFileCommit
  <2>2. PICK p : program' = [program EXCEPT !.version = p]
    BY <1>12, Zenon DEF DeleteFileCommit, Reconcile
  <2>3. program'.live = program.live BY <1>1, <2>2 DEF Program
  <2>4. SlotOK(r, x) BY <1>1, <2>1 DEF SlotOK, RequestState, SlotInv
  <2> HIDE DEF x
  <2> QED BY <2>1, <2>3, <2>4, <1>3
<1>13. ASSUME NEW r \in Request, CreateCheck(r) PROVE SlotInv'
  <2> DEFINE x == [req[r] EXCEPT !.at = "versions", !.seen = versions]
  <2>1. /\ req' = [req EXCEPT ![r] = Idle] \/ req' = [req EXCEPT ![r] = x]
        /\ req[r].op = "createVersion" /\ lock' = lock /\ program' = program
    BY <1>1, <1>13 DEF CreateCheck
  <2>2. SlotOK(r, x) BY <1>1, <2>1 DEF SlotOK, RequestState
  <2> HIDE DEF x
  <2> QED BY <2>1, <2>2, <1>3, <1>4
<1>14. ASSUME NEW r \in Request, DeleteProgramCommit(r) PROVE SlotInv'
  <2> DEFINE x == [req[r] EXCEPT !.at = "remove"]
  <2>1. /\ req' = [req EXCEPT ![r] = x] /\ req[r].op = "deleteProgram"
        /\ lock' = Released(r) /\ Available("program", r) /\ ~program'.live
    BY <1>1, <1>14 DEF DeleteProgramCommit, Program
  <2>2. SlotOK(r, x) BY <1>1, <2>1 DEF SlotOK, RequestState
  <2> HIDE DEF x
  <2>3. OthersKeep(r) BY <2>1, LocksOfOthers
  <2> QED BY <2>1, <2>2, <2>3, SlotStep
<1>15. CASE Crash
  <2>1. \A r \in Request : req'[r] = Idle BY <1>15 DEF Crash
  <2> QED BY <2>1 DEF SlotInv, HoldsProgram, Idle
<1>16. CASE UNCHANGED vars
  BY <1>16 DEF vars, SlotInv, HoldsProgram
<1> QED
  BY <1>5, <1>6, <1>7, <1>8, <1>9, <1>10, <1>11, <1>12, <1>13, <1>14, <1>15, <1>16, Zenon
  DEF Next, Continue, UploadStep, DeleteStep, ActivateStep, CreateStep, Stopped

-----------------------------------------------------------------------------
(***************************************************************************)
(* The disk.                                                               *)
(***************************************************************************)
(* A step that changes neither files nor disk: the slot has no more rows    *)
(* off the table than before, and a deletion has rows of the table.         *)
LEMMA DiskFrame ==
  ASSUME TypeInv, DiskInv, NEW r \in Request, NEW x,
         req' = [req EXCEPT ![r] = x], UNCHANGED <<files, disk, nextFile>>,
         OffTable(x) => x.rows = {} \/ (OffTable(req[r]) /\ x.rows = req[r].rows),
         x.op = "deleteFile" /\ ~OffTable(x) => x.rows \subseteq files
  PROVE  DiskInv'
<1>1. req \in [Request -> RequestState] BY DEF TypeInv, TypeOK
<1>2. req'[r] = x /\ \A s \in Request \ {r} : req'[s] = req[s] BY <1>1
<1>3. \A s \in Request : req'[s].op = "deleteFile" /\ ~OffTable(req'[s])
                           => req'[s].rows \subseteq files'
  BY <1>2 DEF DiskInv
<1>4. ASSUME NEW s \in Request, OffTable(req'[s]), NEW f \in req'[s].rows
      PROVE  OffTable(req[s]) /\ f \in req[s].rows
  BY <1>2, <1>4
<1>5. ASSUME NEW s \in Request, OffTable(req'[s]), NEW f \in req'[s].rows
      PROVE  Bytes(f) \in disk' /\ \A g \in files' : g.id # f.id
  BY <1>4, <1>5 DEF DiskInv
<1>6. ASSUME NEW s \in Request, NEW t \in Request, OffTable(req'[s]), OffTable(req'[t]),
             NEW f \in req'[s].rows, NEW g \in req'[t].rows, f.id = g.id
      PROVE  s = t /\ f = g
  BY <1>4, <1>6 DEF DiskInv
<1>7. /\ \A d, e \in disk' : d.path = e.path => d = e
      /\ \A d \in disk' : d.path.salt < nextFile'
      /\ \A f \in files' : Bytes(f) \in disk'
      /\ \A f, g \in files' : f.id = g.id => f = g
  BY DEF DiskInv
<1> QED BY <1>3, <1>5, <1>6, <1>7 DEF DiskInv

(* The removal of rows that are off the table takes nothing from others. *)
LEMMA DiskRemoval ==
  ASSUME TypeInv, DiskInv, NEW r \in Request, OffTable(req[r]),
         req' = [req EXCEPT ![r] = Idle], UNCHANGED <<files, nextFile>>,
         disk' = {d \in disk : d.path \notin PathsOf(req[r].rows)}
  PROVE  DiskInv'
<1>1. req \in [Request -> RequestState] BY DEF TypeInv, TypeOK
<1>2. req'[r] = Idle /\ \A s \in Request \ {r} : req'[s] = req[s] BY <1>1
<1>3. Idle.op = "none" /\ ~OffTable(Idle) BY DEF Idle, OffTable
<1>4. ASSUME NEW f, Bytes(f) \in disk, \A x \in req[r].rows : x.id # f.id
      PROVE  Bytes(f) \in disk'
  <2> SUFFICES ASSUME NEW x \in req[r].rows, f.path = x.path PROVE FALSE
    BY <1>4 DEF PathsOf, Bytes
  <2>1. Bytes(x) \in disk BY DEF DiskInv
  <2>2. Bytes(x) = Bytes(f) BY <2>1, <1>4 DEF DiskInv, Bytes
  <2>3. x.id = f.id BY <2>2 DEF Bytes
  <2> QED BY <2>3, <1>4
<1>5. \A f \in files' : Bytes(f) \in disk'
  BY <1>4 DEF DiskInv
<1>6. ASSUME NEW s \in Request, OffTable(req'[s]), NEW f \in req'[s].rows
      PROVE  Bytes(f) \in disk' /\ \A g \in files' : g.id # f.id
  <2>1. s # r /\ req'[s] = req[s] BY <1>2, <1>3, <1>6
  <2>2. Bytes(f) \in disk /\ \A g \in files : g.id # f.id BY <1>6, <2>1 DEF DiskInv
  <2>3. \A x \in req[r].rows : x.id # f.id BY <1>2, <1>6, <2>1 DEF DiskInv
  <2> QED BY <2>2, <2>3, <1>4
<1>7. \A s, t \in Request : OffTable(req'[s]) /\ OffTable(req'[t]) =>
        \A f \in req'[s].rows, g \in req'[t].rows : f.id = g.id => s = t /\ f = g
  BY <1>2, <1>3 DEF DiskInv
<1>8. \A s \in Request : req'[s].op = "deleteFile" /\ ~OffTable(req'[s])
                           => req'[s].rows \subseteq files'
  BY <1>2, <1>3 DEF DiskInv
<1>9. /\ \A d, e \in disk' : d.path = e.path => d = e
      /\ \A d \in disk' : d.path.salt < nextFile'
      /\ \A f, g \in files' : f.id = g.id => f = g
  BY DEF DiskInv
<1> QED BY <1>5, <1>6, <1>7, <1>8, <1>9 DEF DiskInv

(* buildStoredUploadFile finds a path where nothing is stored. *)
LEMMA FreshPath ==
  ASSUME TypeInv, DiskInv, NEW v, NEW n
  PROVE  /\ ~OnDisk(StorePath(v, n, nextFile))
         /\ StorePath(v, n, nextFile).salt < nextFile + 1
<1>1. nextFile \in Nat BY DEF TypeInv, TypeOK
<1> DEFINE plain == [version |-> v, name |-> n, salt |-> 0]
<1>2. CASE OnDisk(plain)
  <2>1. StorePath(v, n, nextFile) = [plain EXCEPT !.salt = nextFile] BY <1>2 DEF StorePath
  <2>2. StorePath(v, n, nextFile).salt = nextFile BY <2>1
  <2>3. \A d \in disk : d.path.salt < nextFile BY DEF DiskInv
  <2>4. disk \subseteq Stored BY DEF TypeInv, TypeOK
  <2>5. \A d \in disk : d.path.salt \in Nat BY <2>4 DEF Stored, Path
  <2>6. ~OnDisk(StorePath(v, n, nextFile))
    BY <1>1, <2>2, <2>3, <2>5 DEF OnDisk
  <2> QED BY <2>2, <2>6, <1>1
<1>3. CASE ~OnDisk(plain)
  BY <1>1, <1>3 DEF StorePath
<1> QED BY <1>2, <1>3

(* One more file on disk, under a fresh path. *)
LEMMA DiskGrows ==
  ASSUME TypeInv, DiskInv, NEW p, ~OnDisk(p), p.salt < nextFile + 1, NEW id,
         disk' = disk \cup {[path |-> p, file |-> id]}, nextFile' = nextFile + 1
  PROVE  /\ \A d, e \in disk' : d.path = e.path => d = e
         /\ \A d \in disk' : d.path.salt < nextFile'
<1>1. nextFile \in Nat /\ disk \subseteq Stored BY DEF TypeInv, TypeOK
<1> DEFINE new == [path |-> p, file |-> id]
<1>2. new.path = p OBVIOUS
<1>3. \A d \in disk : d.path # p BY DEF OnDisk
<1>4. disk' = disk \cup {new} OBVIOUS
<1>5. \A d \in disk : d.path.salt \in Nat /\ d.path.salt < nextFile
  BY <1>1 DEF DiskInv, Stored, Path
<1> HIDE DEF new
<1>6. \A d, e \in disk' : d.path = e.path => d = e BY <1>2, <1>3, <1>4 DEF DiskInv
<1>7. \A d \in disk' : d.path.salt < nextFile' BY <1>1, <1>2, <1>4, <1>5
<1> QED BY <1>6, <1>7

LEMMA UploadWriteDisk ==
  ASSUME TypeInv, DiskInv, NEW r \in Request, NEW n \in FileName, UploadWrite(r, n)
  PROVE  DiskInv'
<1> DEFINE p == StorePath(req[r].want, n, nextFile)
           f == [id |-> nextFile, version |-> req[r].want, path |-> p]
           x == [req[r] EXCEPT !.rows = @ \cup {f}]
<1>1. /\ req \in [Request -> RequestState] /\ nextFile \in Nat
      /\ WellFormed(req[r], nextFile, nextVersion)
  BY DEF TypeInv, TypeOK
<1>2. /\ req' = [req EXCEPT ![r] = x] /\ files' = files
      /\ disk' = disk \cup {[path |-> p, file |-> nextFile]} /\ nextFile' = nextFile + 1
      /\ req[r].op = "upload"
  BY <1>1 DEF UploadWrite
<1>3. ~OnDisk(p) /\ p.salt < nextFile + 1 BY FreshPath
<1> HIDE DEF p
<1>4. /\ \A d, e \in disk' : d.path = e.path => d = e
      /\ \A d \in disk' : d.path.salt < nextFile'
  BY <1>2, <1>3, DiskGrows
<1>5. Bytes(f) \in disk' /\ f.id = nextFile BY <1>2 DEF Bytes
<1> HIDE DEF f
<1>6. x.op = "upload" /\ x.rows = req[r].rows \cup {f} /\ OffTable(x) /\ OffTable(req[r])
  BY <1>1, <1>2 DEF RequestState, OffTable
<1> HIDE DEF x
<1>7. req'[r] = x /\ \A s \in Request \ {r} : req'[s] = req[s] BY <1>1, <1>2
<1>8. \A g \in files : g.id # f.id
  BY <1>1, <1>5 DEF TypeInv, Bounded
<1>9. ASSUME NEW s \in Request, NEW g \in req[s].rows PROVE g.id # f.id
  BY <1>1, <1>5 DEF TypeInv, WellFormed, Bounded
<1>10. ASSUME NEW s \in Request, OffTable(req'[s]), NEW g \in req'[s].rows
       PROVE  \/ OffTable(req[s]) /\ g \in req[s].rows
              \/ s = r /\ g = f
  BY <1>6, <1>7, <1>10
<1>11. ASSUME NEW s \in Request, OffTable(req'[s]), NEW g \in req'[s].rows
       PROVE  Bytes(g) \in disk' /\ \A h \in files' : h.id # g.id
  <2>1. CASE OffTable(req[s]) /\ g \in req[s].rows BY <2>1, <1>2 DEF DiskInv
  <2>2. CASE s = r /\ g = f BY <2>2, <1>2, <1>5, <1>8
  <2> QED BY <1>10, <1>11, <2>1, <2>2
<1>12. ASSUME NEW s \in Request, NEW t \in Request, OffTable(req'[s]), OffTable(req'[t]),
              NEW g \in req'[s].rows, NEW h \in req'[t].rows, g.id = h.id
       PROVE  s = t /\ g = h
  <2>1. \/ OffTable(req[s]) /\ g \in req[s].rows
        \/ s = r /\ g = f
    BY <1>10, <1>12
  <2>2. \/ OffTable(req[t]) /\ h \in req[t].rows
        \/ t = r /\ h = f
    BY <1>10, <1>12
  <2> QED BY <2>1, <2>2, <1>9, <1>12 DEF DiskInv
<1>13. \A s \in Request : req'[s].op = "deleteFile" /\ ~OffTable(req'[s])
                            => req'[s].rows \subseteq files'
  BY <1>2, <1>6, <1>7 DEF DiskInv
<1>14. /\ \A g \in files' : Bytes(g) \in disk'
       /\ \A g, h \in files' : g.id = h.id => g = h
  BY <1>2 DEF DiskInv
<1> QED BY <1>4, <1>11, <1>12, <1>13, <1>14 DEF DiskInv

LEMMA UploadWriteFailsDisk ==
  ASSUME TypeInv, DiskInv, NEW r \in Request, NEW n \in FileName, UploadWriteFails(r, n)
  PROVE  DiskInv'
<1> DEFINE p == StorePath(req[r].want, n, nextFile)
           x == IF req[r].rows = {} THEN Idle ELSE [req[r] EXCEPT !.at = "clean"]
<1>1. req \in [Request -> RequestState] BY DEF TypeInv, TypeOK
<1>2. /\ req' = [req EXCEPT ![r] = x] /\ files' = files
      /\ disk' = disk \cup {[path |-> p, file |-> 0]} /\ nextFile' = nextFile + 1
      /\ req[r].op = "upload"
  BY <1>1 DEF UploadWriteFails
<1>3. ~OnDisk(p) /\ p.salt < nextFile + 1 BY FreshPath
<1> HIDE DEF p
<1>4. /\ \A d, e \in disk' : d.path = e.path => d = e
      /\ \A d \in disk' : d.path.salt < nextFile'
  BY <1>2, <1>3, DiskGrows
<1>5. x.rows = req[r].rows /\ x.op # "deleteFile" /\ OffTable(req[r])
  BY <1>1, <1>2 DEF RequestState, OffTable, Idle
<1> HIDE DEF x
<1>6. req'[r] = x /\ \A s \in Request \ {r} : req'[s] = req[s] BY <1>1, <1>2
<1>7. ASSUME NEW s \in Request, OffTable(req'[s]), NEW g \in req'[s].rows
      PROVE  OffTable(req[s]) /\ g \in req[s].rows
  BY <1>5, <1>6, <1>7
<1>8. /\ \A s \in Request : OffTable(req'[s]) =>
           \A g \in req'[s].rows : Bytes(g) \in disk' /\ \A h \in files' : h.id # g.id
      /\ \A s, t \in Request : OffTable(req'[s]) /\ OffTable(req'[t]) =>
           \A g \in req'[s].rows, h \in req'[t].rows : g.id = h.id => s = t /\ g = h
  BY <1>2, <1>7 DEF DiskInv
<1>9. \A s \in Request : req'[s].op = "deleteFile" /\ ~OffTable(req'[s])
                           => req'[s].rows \subseteq files'
  BY <1>2, <1>5, <1>6 DEF DiskInv
<1>10. /\ \A g \in files' : Bytes(g) \in disk'
       /\ \A g, h \in files' : g.id = h.id => g = h
  BY <1>2 DEF DiskInv
<1> QED BY <1>4, <1>8, <1>9, <1>10 DEF DiskInv

(* The rows of an upload come into the table, those of a deletion go. *)
LEMMA UploadCommitDisk ==
  ASSUME TypeInv, DiskInv, NEW r \in Request, UploadCommit(r)
  PROVE  DiskInv'
<1>1. req \in [Request -> RequestState] BY DEF TypeInv, TypeOK
<1>2. /\ req' = [req EXCEPT ![r] = Idle] /\ files' = files \cup req[r].rows
      /\ disk' = disk /\ nextFile' = nextFile /\ req[r].op = "upload"
  BY DEF UploadCommit
<1>3. Idle.op = "none" /\ ~OffTable(Idle) /\ OffTable(req[r]) BY <1>2 DEF Idle, OffTable
<1>4. req'[r] = Idle /\ \A s \in Request \ {r} : req'[s] = req[s] BY <1>1, <1>2
<1>5. /\ \A f \in files' : Bytes(f) \in disk'
      /\ \A f, g \in files' : f.id = g.id => f = g
  BY <1>2, <1>3 DEF DiskInv
<1>6. ASSUME NEW s \in Request, OffTable(req'[s]), NEW f \in req'[s].rows
      PROVE  Bytes(f) \in disk' /\ \A g \in files' : g.id # f.id
  <2>1. s # r /\ req'[s] = req[s] BY <1>3, <1>4, <1>6
  <2>2. Bytes(f) \in disk /\ \A g \in files : g.id # f.id BY <1>6, <2>1 DEF DiskInv
  <2>3. \A g \in req[r].rows : g.id # f.id BY <1>3, <1>6, <2>1 DEF DiskInv
  <2> QED BY <1>2, <2>2, <2>3
<1>7. \A s, t \in Request : OffTable(req'[s]) /\ OffTable(req'[t]) =>
        \A f \in req'[s].rows, g \in req'[t].rows : f.id = g.id => s = t /\ f = g
  BY <1>3, <1>4 DEF DiskInv
<1>8. \A s \in Request : req'[s].op = "deleteFile" /\ ~OffTable(req'[s])
                           => req'[s].rows \subseteq files'
  BY <1>2, <1>3, <1>4 DEF DiskInv
<1>9. /\ \A d, e \in disk' : d.path = e.path => d = e
      /\ \A d \in disk' : d.path.salt < nextFile'
  BY <1>2 DEF DiskInv
<1> QED BY <1>5, <1>6, <1>7, <1>8, <1>9 DEF DiskInv

LEMMA DeleteFileCommitDisk ==
  ASSUME OneDeleter, TypeInv, SlotInv, DiskInv, NEW r \in Request, DeleteFileCommit(r)
  PROVE  DiskInv'
<1> DEFINE x == [req[r] EXCEPT !.at = "remove", !.seen = {}]
<1>1. req \in [Request -> RequestState] BY DEF TypeInv, TypeOK
<1>2. /\ req' = [req EXCEPT ![r] = x] /\ files' = files \ req[r].rows
      /\ disk' = disk /\ nextFile' = nextFile
      /\ req[r].op = "deleteFile" /\ req[r].at = "versions"
  BY <1>1 DEF DeleteFileCommit
<1>3. x.op = "deleteFile" /\ x.at = "remove" /\ x.rows = req[r].rows
  BY <1>1, <1>2 DEF RequestState
<1> HIDE DEF x
<1>4. req'[r] = x /\ \A s \in Request \ {r} : req'[s] = req[s] BY <1>1, <1>2
<1>5. OffTable(x) /\ req[r].rows \subseteq files
  BY <1>2, <1>3 DEF OffTable, DiskInv
<1>6. \A s \in Request \ {r} : req[s].op # "deleteFile"
  BY <1>2 DEF SlotInv, OneDeleter
<1>7. ASSUME NEW s \in Request, OffTable(req'[s]), NEW f \in req'[s].rows
      PROVE  /\ Bytes(f) \in disk' /\ \A g \in files' : g.id # f.id
             /\ s # r => OffTable(req[s]) /\ f \in req[s].rows
             /\ s = r => f \in files
  <2>1. CASE s = r
    <3>1. f \in req[r].rows /\ f \in files BY <1>3, <1>4, <1>5, <1>7, <2>1
    <3> QED BY <3>1, <2>1, <1>2 DEF DiskInv
  <2>2. CASE s # r
    <3>1. OffTable(req[s]) /\ f \in req[s].rows BY <1>4, <1>7, <2>2
    <3> QED BY <3>1, <2>2, <1>2 DEF DiskInv
  <2> QED BY <2>1, <2>2
<1>8. ASSUME NEW s \in Request, NEW t \in Request, OffTable(req'[s]), OffTable(req'[t]),
             NEW f \in req'[s].rows, NEW g \in req'[t].rows, f.id = g.id
      PROVE  s = t /\ f = g
  <2>1. /\ s # r => OffTable(req[s]) /\ f \in req[s].rows
        /\ s = r => f \in files
    BY <1>7, <1>8
  <2>2. /\ t # r => OffTable(req[t]) /\ g \in req[t].rows
        /\ t = r => g \in files
    BY <1>7, <1>8
  <2> QED BY <2>1, <2>2, <1>8 DEF DiskInv
<1>9. \A s \in Request : req'[s].op = "deleteFile" /\ ~OffTable(req'[s])
                           => req'[s].rows \subseteq files'
  BY <1>4, <1>5, <1>6
<1>10. /\ \A f \in files' : Bytes(f) \in disk'
       /\ \A f, g \in files' : f.id = g.id => f = g
       /\ \A d, e \in disk' : d.path = e.path => d = e
       /\ \A d \in disk' : d.path.salt < nextFile'
  BY <1>2 DEF DiskInv
<1> QED BY <1>7, <1>8, <1>9, <1>10 DEF DiskInv

(* A step of a live program keeps the disk as the rows say. *)
LEMMA LiveStep ==
  ASSUME OneDeleter, TypeInv, SlotInv, program.live, DiskInv, [Next]_vars, program'.live
  PROVE  DiskInv'
<1>1. req \in [Request -> RequestState] /\ program \in Program BY DEF TypeInv, TypeOK
<1>2. ~OffTable(Idle) /\ Idle.op = "none" BY DEF OffTable, Idle
<1>3. ASSUME NEW r \in Request, req' = [req EXCEPT ![r] = Idle],
             UNCHANGED <<files, disk, nextFile>>
      PROVE  DiskInv'
  BY <1>2, <1>3, DiskFrame
<1>4. ASSUME NEW r \in Request, StartStep(r) PROVE DiskInv'
  <2>1. ASSUME NEW op \in Op, NEW q, Start(r, op, q),
               [q EXCEPT !.op = op].op = op, [q EXCEPT !.op = op].at = q.at,
               [q EXCEPT !.op = op].rows = q.rows, q.at # "remove",
               op = "upload" => q.rows = {}, op = "deleteFile" => q.rows \subseteq files
        PROVE  DiskInv'
    <3> DEFINE x == [q EXCEPT !.op = op]
    <3>1. req' = [req EXCEPT ![r] = x] /\ UNCHANGED <<files, disk, nextFile>>
      BY <2>1 DEF Start
    <3>2. x.op = op /\ x.at = q.at /\ x.rows = q.rows BY <2>1
    <3> HIDE DEF x
    <3>3. /\ OffTable(x) => x.rows = {}
          /\ x.op = "deleteFile" => x.rows \subseteq files
      BY <2>1, <3>2 DEF OffTable
    <3> QED BY <3>1, <3>3, DiskFrame
  <2>2. CASE StartUpload(r)
    <3>1. PICK v \in Version : Start(r, "upload", [Idle EXCEPT !.at = "program", !.want = v])
      BY <2>2 DEF StartUpload
    <3> QED BY <3>1, <2>1 DEF Idle, Op
  <2>3. CASE StartDeleteFile(r)
    <3>1. PICK f \in files : Start(r, "deleteFile", [Idle EXCEPT !.at = "program", !.rows = {f}])
      BY <2>3 DEF StartDeleteFile
    <3> QED BY <3>1, <2>1 DEF Idle, Op
  <2>4. CASE StartActivate(r)
    <3>1. PICK v \in versions :
            Start(r, "activate", [Idle EXCEPT !.at = "versions", !.vid = v.id])
      BY <2>4 DEF StartActivate
    <3> QED BY <3>1, <2>1 DEF Idle, Op
  <2>5. CASE StartCreateVersion(r)
    <3>1. PICK f \in files :
            Start(r, "createVersion", [Idle EXCEPT !.at = "check", !.want = f.version,
                                                   !.rows = {f}])
      BY <2>5 DEF StartCreateVersion
    <3> QED BY <3>1, <2>1 DEF Idle, Op
  <2>6. CASE StartDeleteProgram(r)
    BY <2>6, <2>1 DEF StartDeleteProgram, Idle, Op
  <2> QED BY <1>4, <2>2, <2>3, <2>4, <2>5, <2>6 DEF StartStep
<1>5. ASSUME NEW r \in Request,
             \/ ProgramGone(r) \/ ActivateVersionGone(r) \/ ActivateCommit(r)
             \/ CreateInsert(r) \/ CreateCommit(r)
      PROVE  DiskInv'
  BY <1>3, <1>5 DEF ProgramGone, ActivateVersionGone, ActivateCommit, CreateInsert, CreateCommit
<1>6. ASSUME NEW r \in Request, UploadClean(r) \/ RemoveFromDisk(r) PROVE DiskInv'
  <2>1. OffTable(req[r])
    BY <1>6 DEF UploadClean, RemoveFromDisk, OffTable, SlotInv
  <2> QED BY <1>6, <2>1, DiskRemoval DEF UploadClean, RemoveFromDisk
<1>7. ASSUME NEW r \in Request, Rollback(r) PROVE DiskInv'
  <2> DEFINE y == [req[r] EXCEPT !.at = "clean"]
  <2>1. /\ req' = [req EXCEPT ![r] = Idle]
           \/ (req[r].op = "upload" /\ req' = [req EXCEPT ![r] = y])
        /\ UNCHANGED <<files, disk, nextFile>>
    BY <1>1, <1>7 DEF Rollback
  <2>2. y.op = req[r].op /\ y.rows = req[r].rows BY <1>1 DEF RequestState
  <2> HIDE DEF y
  <2>3. req[r].op = "upload" => OffTable(y) /\ OffTable(req[r]) BY <2>2 DEF OffTable
  <2> QED BY <2>1, <2>2, <2>3, <1>3, DiskFrame
<1>8. ASSUME NEW r \in Request,
             \/ UploadLockProgram(r) \/ UploadLockVersions(r) \/ DeleteFileLockProgram(r)
             \/ ActivateLockVersion(r) \/ DeleteProgramLockVersions(r)
             \/ CreateCheck(r) \/ CreateInsertFirst(r)
      PROVE  DiskInv'
  <2>1. PICK x : /\ req' = [req EXCEPT ![r] = x] /\ UNCHANGED <<files, disk, nextFile>>
                 /\ x = Idle \/ (x.op = req[r].op /\ x.rows = req[r].rows
                                   /\ x.at # "remove" /\ req[r].at # "remove")
    <3> DEFINE moved(a) == [req[r] EXCEPT !.at = a]
               read(a) == [req[r] EXCEPT !.at = a, !.seen = versions]
    <3>1. \A a : /\ moved(a).op = req[r].op /\ moved(a).rows = req[r].rows /\ moved(a).at = a
                 /\ read(a).op = req[r].op /\ read(a).rows = req[r].rows /\ read(a).at = a
      BY <1>1 DEF RequestState
    <3>2. /\ UNCHANGED <<files, disk, nextFile>> /\ req[r].at # "remove"
          /\ \/ req' = [req EXCEPT ![r] = Idle]
             \/ \E a \in {"versions", "write", "program"} :
                  \/ req' = [req EXCEPT ![r] = moved(a)]
                  \/ req' = [req EXCEPT ![r] = read(a)]
      BY <1>1, <1>8 DEF UploadLockProgram, UploadLockVersions, DeleteFileLockProgram,
        ActivateLockVersion, DeleteProgramLockVersions, CreateCheck, CreateInsertFirst
    <3> HIDE DEF moved, read
    <3> QED BY <3>1, <3>2
  <2>2. CASE x = Idle BY <2>1, <2>2, <1>3
  <2>3. CASE x.op = req[r].op /\ x.rows = req[r].rows /\ x.at # "remove" /\ req[r].at # "remove"
    <3>1. /\ OffTable(x) => OffTable(req[r])
          /\ x.op = "deleteFile" /\ ~OffTable(x) => x.rows \subseteq files
      BY <2>3 DEF OffTable, DiskInv
    <3> QED BY <2>1, <2>3, <3>1, DiskFrame
  <2> QED BY <2>1, <2>2, <2>3
<1>9. ASSUME NEW r \in Request, DeleteProgramCommit(r) PROVE FALSE
  BY <1>1, <1>9 DEF DeleteProgramCommit, Program
<1>10. CASE Crash
  <2>1. /\ \A r \in Request : req'[r] = Idle
        /\ files' = files /\ disk' = disk /\ nextFile' = nextFile
    BY <1>10 DEF Crash
  <2> QED BY <2>1, <1>2 DEF DiskInv
<1>11. CASE UNCHANGED vars
  <2>1. req' = req /\ files' = files /\ disk' = disk /\ nextFile' = nextFile
    BY <1>11 DEF vars
  <2> QED BY <2>1 DEF DiskInv
<1> QED
  BY <1>4, <1>5, <1>6, <1>7, <1>8, <1>9, <1>10, <1>11, UploadWriteDisk, UploadWriteFailsDisk,
     UploadCommitDisk, DeleteFileCommitDisk, Zenon
  DEF Next, Continue, UploadStep, DeleteStep, ActivateStep, CreateStep, Stopped

(* Nobody adds to the files of a deleted program: that takes its lock. *)
LEMMA DeadStep ==
  ASSUME TypeInv, SlotInv, [Next]_vars, ~program'.live, ~program.live => files = {}
  PROVE  files' = {}
<1>1. req \in [Request -> RequestState] /\ program \in Program BY DEF TypeInv, TypeOK
<1>2. ASSUME NEW r \in Request, UploadCommit(r) PROVE FALSE
  <2>1. program.live BY <1>2 DEF UploadCommit, SlotInv, HoldsProgram
  <2> QED BY <1>1, <1>2, <2>1 DEF UploadCommit, Program
<1>3. ASSUME NEW r \in Request, DeleteFileCommit(r) PROVE files' = {}
  <2>1. PICK p : program' = [program EXCEPT !.version = p]
    BY <1>3, Zenon DEF DeleteFileCommit, Reconcile
  <2>2. ~program.live BY <2>1, <1>1 DEF Program
  <2> QED BY <1>3, <2>2 DEF DeleteFileCommit
<1>4. ASSUME NEW r \in Request, DeleteProgramCommit(r) PROVE files' = {}
  BY <1>4 DEF DeleteProgramCommit
<1>5. ASSUME NEW r \in Request, ActivateCommit(r) \/ CreateCommit(r) PROVE files' = {}
  <2>1. files' = files /\ program'.live = program.live
    BY <1>1, <1>5 DEF ActivateCommit, CreateCommit, Program
  <2> QED BY <2>1
<1>6. ASSUME NEW r \in Request, StartStep(r) PROVE files' = {}
  BY <1>6 DEF StartStep, StartUpload, StartDeleteFile, StartActivate, StartCreateVersion,
              StartDeleteProgram, Start
<1>7. ASSUME NEW r \in Request,
             \/ UploadLockProgram(r) \/ UploadLockVersions(r) \/ UploadClean(r)
             \/ \E n \in FileName : UploadWrite(r, n) \/ UploadWriteFails(r, n)
             \/ DeleteFileLockProgram(r) \/ DeleteProgramLockVersions(r) \/ RemoveFromDisk(r)
             \/ ActivateLockVersion(r) \/ ActivateVersionGone(r)
             \/ CreateCheck(r) \/ CreateInsert(r) \/ CreateInsertFirst(r)
             \/ ProgramGone(r) \/ Rollback(r)
      PROVE  files' = {}
  <2>1. files' = files /\ program' = program
    BY <1>7 DEF UploadLockProgram, UploadLockVersions, UploadClean, UploadWrite,
      UploadWriteFails, DeleteFileLockProgram, DeleteProgramLockVersions, RemoveFromDisk,
      ActivateLockVersion, ActivateVersionGone, CreateCheck, CreateInsert, CreateInsertFirst,
      ProgramGone, Rollback
  <2> QED BY <2>1
<1>8. CASE Crash \/ UNCHANGED vars
  <2>1. files' = files /\ program' = program BY <1>8 DEF Crash, vars
  <2> QED BY <2>1
<1> QED
  BY <1>2, <1>3, <1>4, <1>5, <1>6, <1>7, <1>8, Zenon
  DEF Next, Continue, UploadStep, DeleteStep, ActivateStep, CreateStep, Stopped

(* A deleted program stays deleted. *)
LEMMA NeverRevived ==
  ASSUME TypeInv, [Next]_vars, program'.live
  PROVE  program.live
<1>1. program \in Program BY DEF TypeInv, TypeOK
<1>2. ASSUME NEW r \in Request, DeleteFileCommit(r) PROVE program.live
  <2>1. PICK p : program' = [program EXCEPT !.version = p]
    BY <1>2, Zenon DEF DeleteFileCommit, Reconcile
  <2> QED BY <2>1, <1>1 DEF Program
<1>3. ASSUME NEW r \in Request,
             UploadCommit(r) \/ DeleteProgramCommit(r) \/ ActivateCommit(r) \/ CreateCommit(r)
      PROVE  program.live
  BY <1>1, <1>3 DEF UploadCommit, DeleteProgramCommit, ActivateCommit, CreateCommit, Program
<1>4. ASSUME NEW r \in Request, StartStep(r) PROVE program.live
  BY <1>4 DEF StartStep, StartUpload, StartDeleteFile, StartActivate, StartCreateVersion,
              StartDeleteProgram, Start
<1>5. ASSUME NEW r \in Request,
             \/ UploadLockProgram(r) \/ UploadLockVersions(r) \/ UploadClean(r)
             \/ \E n \in FileName : UploadWrite(r, n) \/ UploadWriteFails(r, n)
             \/ DeleteFileLockProgram(r) \/ DeleteProgramLockVersions(r) \/ RemoveFromDisk(r)
             \/ ActivateLockVersion(r) \/ ActivateVersionGone(r)
             \/ CreateCheck(r) \/ CreateInsert(r) \/ CreateInsertFirst(r)
             \/ ProgramGone(r) \/ Rollback(r)
      PROVE  program.live
  <2>1. program' = program
    BY <1>5 DEF UploadLockProgram, UploadLockVersions, UploadClean, UploadWrite,
      UploadWriteFails, DeleteFileLockProgram, DeleteProgramLockVersions, RemoveFromDisk,
      ActivateLockVersion, ActivateVersionGone, CreateCheck, CreateInsert, CreateInsertFirst,
      ProgramGone, Rollback
  <2> QED BY <2>1
<1>6. CASE Crash \/ UNCHANGED vars
  <2>1. program' = program BY <1>6 DEF Crash, vars
  <2> QED BY <2>1
<1> QED
  BY <1>2, <1>3, <1>4, <1>5, <1>6, Zenon
  DEF Next, Continue, UploadStep, DeleteStep, ActivateStep, CreateStep, Stopped

(* The files of the initial history lie where their rows say. *)
LEMMA InitStored == Init => StoredInv
<1> SUFFICES ASSUME Init PROVE StoredInv OBVIOUS
<1>1. PICK k \in 0 .. MaxInit :
        \E v \in [1 .. k -> Version], n \in [1 .. k -> FileName] :
        LET Earlier(i) == \E j \in 1 .. i - 1 : v[j] = v[i] /\ n[j] = n[i]
            path(i) == [version |-> v[i], name |-> n[i],
                        salt |-> IF Earlier(i) THEN i ELSE 0]
        IN  /\ files = {[id |-> i, version |-> v[i], path |-> path(i)] : i \in 1 .. k}
            /\ disk = {[path |-> path(i), file |-> i] : i \in 1 .. k}
            /\ nextFile = k + 1
  BY Zenon DEF Init
<1>2. PICK v \in [1 .. k -> Version], n \in [1 .. k -> FileName] :
        LET Earlier(i) == \E j \in 1 .. i - 1 : v[j] = v[i] /\ n[j] = n[i]
            path(i) == [version |-> v[i], name |-> n[i],
                        salt |-> IF Earlier(i) THEN i ELSE 0]
        IN  /\ files = {[id |-> i, version |-> v[i], path |-> path(i)] : i \in 1 .. k}
            /\ disk = {[path |-> path(i), file |-> i] : i \in 1 .. k}
            /\ nextFile = k + 1
  BY <1>1, Zenon
<1> DEFINE Earlier(i) == \E j \in 1 .. i - 1 : v[j] = v[i] /\ n[j] = n[i]
           path(i) == [version |-> v[i], name |-> n[i], salt |-> IF Earlier(i) THEN i ELSE 0]
<1>3. /\ files = {[id |-> i, version |-> v[i], path |-> path(i)] : i \in 1 .. k}
      /\ disk = {[path |-> path(i), file |-> i] : i \in 1 .. k}
      /\ nextFile = k + 1
  BY <1>2
<1>4. k \in Nat BY BoundsAssumption
<1>5. ASSUME NEW i \in 1 .. k PROVE path(i).salt < nextFile
  <2>1. path(i).salt \in {0, i} OBVIOUS
  <2> QED BY <2>1, <1>3, <1>4
<1>6. ASSUME NEW i \in 1 .. k, NEW j \in 1 .. k, path(i) = path(j), i < j PROVE FALSE
  <2>1. v[i] = v[j] /\ n[i] = n[j] /\ path(i).salt = path(j).salt BY <1>6
  <2>2. i \in 1 .. j - 1 BY <1>4, <1>6
  <2>3. Earlier(j) BY <2>1, <2>2
  <2>4. path(j).salt = j BY <2>3
  <2>5. path(i).salt \in {0, i} OBVIOUS
  <2> HIDE DEF path, Earlier
  <2> QED BY <2>1, <2>4, <2>5, <1>4, <1>6
<1> HIDE DEF path
<1>7. \A d, e \in disk : d.path = e.path => d = e
  <2> SUFFICES ASSUME NEW d \in disk, NEW e \in disk, d.path = e.path PROVE d = e
    OBVIOUS
  <2>1. PICK i \in 1 .. k : d = [path |-> path(i), file |-> i] BY <1>3
  <2>2. PICK j \in 1 .. k : e = [path |-> path(j), file |-> j] BY <1>3
  <2>3. path(i) = path(j) BY <2>1, <2>2
  <2>4. i = j BY <2>3, <1>4, <1>6
  <2> QED BY <2>1, <2>2, <2>4
<1>8. /\ \A d \in disk : d.path.salt < nextFile
      /\ \A f \in files : Bytes(f) \in disk
      /\ \A f, g \in files : f.id = g.id => f = g
  BY <1>3, <1>5 DEF Bytes
<1>9. /\ \A r \in Request : req[r] = Idle
      /\ program.live
  <2>1. req = [r \in Request |-> Idle] BY Zenon DEF Init
  <2>2. \/ \E c \in {f.version : f \in files} : program = [live |-> TRUE, version |-> c]
        \/ program = [live |-> TRUE, version |-> NoVersion]
        \/ program \in [live : {TRUE}, version : {f.version : f \in files} \cup {NoVersion}]
    BY Zenon DEF Init
  <2>3. program.live = TRUE
    <3> DEFINE names == {f.version : f \in files} \cup {NoVersion}
    <3>1. CASE program \in [live : {TRUE}, version : names]
      <4> HIDE DEF names
      <4>1. program.live \in {TRUE} BY <3>1
      <4> QED BY <4>1
    <3>2. CASE \E c \in {f.version : f \in files} : program = [live |-> TRUE, version |-> c]
      <4>1. PICK c \in {f.version : f \in files} : program = [live |-> TRUE, version |-> c]
        BY <3>2
      <4> QED BY <4>1
    <3>3. CASE program = [live |-> TRUE, version |-> NoVersion]
      BY <3>3
    <3> HIDE DEF names
    <3>4. program \in [live : {TRUE}, version : {f.version : f \in files} \cup {NoVersion}]
            => program.live = TRUE
      BY <3>1 DEF names
    <3> QED BY <2>2, <3>2, <3>3, <3>4, Zenon
  <2>4. program.live BY <2>3
  <2> QED BY <2>1, <2>4
<1>10. Idle.op = "none" /\ Idle.at = "idle" BY DEF Idle
<1>11. SlotInv BY <1>9, <1>10 DEF SlotInv, HoldsProgram
<1>12. DiskInv BY <1>7, <1>8, <1>9, <1>10 DEF DiskInv, OffTable
<1> QED BY <1>9, <1>11, <1>12 DEF StoredInv

(* While one slot at a time deletes single files, every file row has its    *)
(* own bytes, and only them, at its path: uploads never overwrite, whatever *)
(* is rolled back or cleaned up, and no removal, by UploadFile, DeleteFile  *)
(* or DeleteProgram, takes a file that is listed; crashes included.         *)
THEOREM ListedFilesAreStored ==
  ASSUME OneDeleter
  PROVE  Spec => []FilesStored
<1>1. Init => TypeInv /\ StoredInv BY InitTypeInv, InitStored
<1>2. TypeInv /\ StoredInv /\ [Next]_vars => (TypeInv /\ StoredInv)'
  <2> SUFFICES ASSUME TypeInv, StoredInv, [Next]_vars PROVE TypeInv' /\ StoredInv'
    OBVIOUS
  <2>1. SlotInv /\ SlotInv' BY StepSlotInv DEF StoredInv
  <2>2. TypeInv' BY StepTypeInv
  <2>3. program'.live => DiskInv' BY <2>1, NeverRevived, LiveStep DEF StoredInv
  <2>4. ~program'.live => files' = {} BY <2>1, DeadStep DEF StoredInv
  <2> QED BY <2>1, <2>2, <2>3, <2>4 DEF StoredInv
<1>3. StoredInv => FilesStored
  <2>1. DiskInv => FilesStored
    <3> SUFFICES ASSUME DiskInv, NEW f \in files
                 PROVE  /\ Bytes(f) \in disk
                        /\ \A d \in disk : d.path = f.path => d.file = f.id
      BY DEF FilesStored, Bytes
    <3>1. Bytes(f) \in disk BY DEF DiskInv
    <3>2. Bytes(f).path = f.path /\ Bytes(f).file = f.id BY DEF Bytes
    <3> QED BY <3>1, <3>2 DEF DiskInv
  <2>2. files = {} => FilesStored BY DEF FilesStored
  <2> QED BY <2>1, <2>2 DEF StoredInv
<1> QED BY <1>1, <1>2, <1>3, PTL DEF Spec

-----------------------------------------------------------------------------
(***************************************************************************)
(* Nothing is left over.                                                   *)
(***************************************************************************)
NoProgramDeleted == ~DiskMayFail /\ \A r \in Request : "deleteProgram" \notin May[r]

(* Files of an upload that has begun to write, and of a request that has    *)
(* removals to make: whoever holds them will list or remove them.           *)
Claimed(q) == q.at \in {"write", "clean", "remove"}

Accounted(d) ==
  \/ \E f \in files : f.path = d.path
  \/ \E r \in Request : Claimed(req[r]) /\ d.path \in PathsOf(req[r].rows)

OrphanInv ==
  /\ \A r \in Request : req[r].op # "deleteProgram"
  /\ \A r \in Request : req[r].at \in {"write", "clean"} => req[r].op = "upload"
  /\ crashes = 0 => \A d \in disk : Accounted(d)

(* A step that writes no file and claims no less than before. *)
LEMMA OrphanFrame ==
  ASSUME TypeInv, OrphanInv, NEW r \in Request, NEW x,
         req' = [req EXCEPT ![r] = x], UNCHANGED <<files, disk, crashes>>,
         x.op # "deleteProgram", x.at \in {"write", "clean"} => x.op = "upload",
         Claimed(req[r]) => req[r].rows = {} \/ (Claimed(x) /\ x.rows = req[r].rows)
  PROVE  OrphanInv'
<1>1. req \in [Request -> RequestState] BY DEF TypeInv, TypeOK
<1>2. req'[r] = x /\ \A s \in Request \ {r} : req'[s] = req[s] BY <1>1
<1>3. ASSUME crashes' = 0, NEW d \in disk' PROVE Accounted(d)'
  <2>1. CASE \E f \in files : f.path = d.path BY <2>1 DEF Accounted
  <2>2. ASSUME NEW s \in Request, Claimed(req[s]), d.path \in PathsOf(req[s].rows)
        PROVE  Accounted(d)'
    <3>1. Claimed(req'[s]) /\ req'[s].rows = req[s].rows
      <4>1. CASE s = r
        <5>1. req[r].rows # {} BY <2>2, <4>1 DEF PathsOf
        <5> QED BY <5>1, <1>2, <2>2, <4>1
      <4>2. CASE s # r BY <1>2, <2>2, <4>2
      <4> QED BY <4>1, <4>2
    <3> QED BY <2>2, <3>1 DEF Accounted
  <2> QED BY <1>3, <2>1, <2>2 DEF OrphanInv, Accounted
<1> QED BY <1>2, <1>3 DEF OrphanInv

(* The removal of all that a slot has claimed. *)
LEMMA OrphanRemoval ==
  ASSUME TypeInv, OrphanInv, NEW r \in Request, req' = [req EXCEPT ![r] = Idle],
         UNCHANGED <<files, crashes>>,
         disk' = {d \in disk : d.path \notin PathsOf(req[r].rows)}
  PROVE  OrphanInv'
<1>1. req \in [Request -> RequestState] BY DEF TypeInv, TypeOK
<1>2. req'[r] = Idle /\ \A s \in Request \ {r} : req'[s] = req[s] BY <1>1
<1>3. ASSUME crashes' = 0, NEW d \in disk' PROVE Accounted(d)'
  BY <1>2, <1>3 DEF OrphanInv, Accounted
<1> QED BY <1>2, <1>3 DEF OrphanInv, Idle

LEMMA OrphanWrite ==
  ASSUME TypeInv, OrphanInv, NEW r \in Request, NEW n \in FileName, UploadWrite(r, n)
  PROVE  OrphanInv'
<1> DEFINE p == StorePath(req[r].want, n, nextFile)
           f == [id |-> nextFile, version |-> req[r].want, path |-> p]
           x == [req[r] EXCEPT !.rows = @ \cup {f}]
<1>1. req \in [Request -> RequestState] BY DEF TypeInv, TypeOK
<1>2. /\ req' = [req EXCEPT ![r] = x] /\ files' = files /\ crashes' = crashes
      /\ disk' = disk \cup {[path |-> p, file |-> nextFile]}
      /\ req[r].op = "upload" /\ req[r].at = "write"
  BY <1>1 DEF UploadWrite
<1> HIDE DEF p
<1>3. f.path = p OBVIOUS
<1> HIDE DEF f
<1>4. x.op = "upload" /\ x.at = "write" /\ x.rows = req[r].rows \cup {f}
  BY <1>1, <1>2 DEF RequestState
<1> HIDE DEF x
<1>5. req'[r] = x /\ \A s \in Request \ {r} : req'[s] = req[s] BY <1>1, <1>2
<1>6. \A s \in Request : Claimed(req[s]) =>
        Claimed(req'[s]) /\ req[s].rows \subseteq req'[s].rows
  BY <1>4, <1>5 DEF Claimed
<1>7. \A d : Accounted(d) => Accounted(d)'
  BY <1>2, <1>6 DEF Accounted, PathsOf
<1>8. Claimed(req'[r]) /\ p \in PathsOf(req'[r].rows)
  BY <1>3, <1>4, <1>5 DEF Claimed, PathsOf
<1>9. ASSUME crashes' = 0, NEW d \in disk' PROVE Accounted(d)'
  <2>1. CASE d \in disk BY <1>2, <1>7, <1>9, <2>1 DEF OrphanInv
  <2>2. CASE d.path = p BY <1>8, <2>2 DEF Accounted
  <2> QED BY <1>2, <2>1, <2>2
<1> QED BY <1>4, <1>5, <1>9 DEF OrphanInv

LEMMA OrphanCommit ==
  ASSUME TypeInv, OrphanInv, NEW r \in Request, UploadCommit(r) \/ DeleteFileCommit(r)
  PROVE  OrphanInv'
<1>1. req \in [Request -> RequestState] BY DEF TypeInv, TypeOK
<1> DEFINE gone == [req[r] EXCEPT !.at = "remove", !.seen = {}]
<1>2. CASE UploadCommit(r)
  <2>1. /\ req' = [req EXCEPT ![r] = Idle] /\ files' = files \cup req[r].rows
        /\ disk' = disk /\ crashes' = crashes
    BY <1>2 DEF UploadCommit
  <2>2. req'[r] = Idle /\ \A s \in Request \ {r} : req'[s] = req[s] BY <1>1, <2>1
  <2>3. \A d : Accounted(d) => Accounted(d)'
    BY <2>1, <2>2 DEF Accounted, PathsOf
  <2> QED BY <2>1, <2>2, <2>3 DEF OrphanInv, Idle
<1>3. CASE DeleteFileCommit(r)
  <2>1. /\ req' = [req EXCEPT ![r] = gone] /\ files' = files \ req[r].rows
        /\ disk' = disk /\ crashes' = crashes
        /\ req[r].op = "deleteFile" /\ req[r].at = "versions"
    BY <1>1, <1>3 DEF DeleteFileCommit
  <2>2. gone.op = "deleteFile" /\ gone.at = "remove" /\ gone.rows = req[r].rows
    BY <1>1, <2>1 DEF RequestState
  <2> HIDE DEF gone
  <2>3. req'[r] = gone /\ \A s \in Request \ {r} : req'[s] = req[s] BY <1>1, <2>1
  <2>4. ASSUME NEW d, Accounted(d) PROVE Accounted(d)'
    <3>1. ASSUME NEW f \in files, f.path = d.path PROVE Accounted(d)'
      <4>1. CASE f \in req[r].rows
        BY <2>2, <2>3, <3>1, <4>1 DEF Accounted, PathsOf, Claimed
      <4>2. CASE f \notin req[r].rows BY <2>1, <3>1, <4>2 DEF Accounted
      <4> QED BY <4>1, <4>2
    <3>2. ASSUME NEW s \in Request, Claimed(req[s]), d.path \in PathsOf(req[s].rows)
          PROVE  Accounted(d)'
      <4>1. s # r BY <2>1, <3>2 DEF Claimed
      <4> QED BY <2>3, <3>2, <4>1 DEF Accounted
    <3> QED BY <2>4, <3>1, <3>2 DEF Accounted
  <2> QED BY <2>1, <2>2, <2>3, <2>4 DEF OrphanInv
<1> QED BY <1>2, <1>3

LEMMA OrphanStep ==
  ASSUME NoProgramDeleted, TypeInv, OrphanInv, [Next]_vars
  PROVE  OrphanInv'
<1>1. req \in [Request -> RequestState] /\ crashes \in Nat BY DEF TypeInv, TypeOK
<1>2. ~Claimed(Idle) /\ Idle.op = "none" /\ Idle.at = "idle" BY DEF Claimed, Idle
<1>3. ASSUME NEW r \in Request, req' = [req EXCEPT ![r] = Idle],
             UNCHANGED <<files, disk, crashes>>, ~Claimed(req[r]) \/ req[r].rows = {}
      PROVE  OrphanInv'
  BY <1>2, <1>3, OrphanFrame
<1>4. ASSUME NEW r \in Request, StartStep(r) PROVE OrphanInv'
  <2>1. ASSUME NEW op \in Op, NEW q, Start(r, op, q), op # "deleteProgram",
               [q EXCEPT !.op = op].op = op, [q EXCEPT !.op = op].at = q.at,
               q.at \notin {"write", "clean"}
        PROVE  OrphanInv'
    <3> DEFINE x == [q EXCEPT !.op = op]
    <3>1. req' = [req EXCEPT ![r] = x] /\ UNCHANGED <<files, disk, crashes>> /\ req[r] = Idle
      BY <2>1 DEF Start
    <3>2. x.op = op /\ x.at = q.at BY <2>1
    <3> HIDE DEF x
    <3> QED BY <1>2, <2>1, <3>1, <3>2, OrphanFrame
  <2>2. CASE StartUpload(r)
    <3>1. PICK v \in Version : Start(r, "upload", [Idle EXCEPT !.at = "program", !.want = v])
      BY <2>2 DEF StartUpload
    <3> QED BY <3>1, <2>1 DEF Idle, Op
  <2>3. CASE StartDeleteFile(r)
    <3>1. PICK f \in files : Start(r, "deleteFile", [Idle EXCEPT !.at = "program", !.rows = {f}])
      BY <2>3 DEF StartDeleteFile
    <3> QED BY <3>1, <2>1 DEF Idle, Op
  <2>4. CASE StartActivate(r)
    <3>1. PICK v \in versions :
            Start(r, "activate", [Idle EXCEPT !.at = "versions", !.vid = v.id])
      BY <2>4 DEF StartActivate
    <3> QED BY <3>1, <2>1 DEF Idle, Op
  <2>5. CASE StartCreateVersion(r)
    <3>1. PICK f \in files :
            Start(r, "createVersion", [Idle EXCEPT !.at = "check", !.want = f.version,
                                                   !.rows = {f}])
      BY <2>5 DEF StartCreateVersion
    <3> QED BY <3>1, <2>1 DEF Idle, Op
  <2>6. ~StartDeleteProgram(r) BY DEF StartDeleteProgram, Start, NoProgramDeleted
  <2> QED BY <1>4, <2>2, <2>3, <2>4, <2>5, <2>6 DEF StartStep
<1>5. ASSUME NEW r \in Request,
             \/ ProgramGone(r) \/ ActivateVersionGone(r) \/ ActivateCommit(r)
             \/ CreateInsert(r) \/ CreateCommit(r)
      PROVE  OrphanInv'
  BY <1>3, <1>5 DEF ProgramGone, ActivateVersionGone, ActivateCommit, CreateInsert,
                    CreateCommit, Claimed
<1>6. ASSUME NEW r \in Request, UploadClean(r) \/ RemoveFromDisk(r) PROVE OrphanInv'
  BY <1>6, OrphanRemoval DEF UploadClean, RemoveFromDisk
<1>7. ASSUME NEW r \in Request, Rollback(r) PROVE OrphanInv'
  <2> DEFINE y == [req[r] EXCEPT !.at = "clean"]
  <2>1. /\ UNCHANGED <<files, disk, crashes>>
        /\ \/ req' = [req EXCEPT ![r] = Idle] /\ (req[r].op = "upload" => req[r].rows = {})
           \/ req[r].op = "upload" /\ req' = [req EXCEPT ![r] = y]
    BY <1>1, <1>7 DEF Rollback
  <2>2. InTransaction(r) BY <1>7 DEF Rollback
  <2>3. y.op = req[r].op /\ y.rows = req[r].rows /\ y.at = "clean" BY <1>1 DEF RequestState
  <2> HIDE DEF y
  <2>4. CASE req[r].op = "upload" /\ req' = [req EXCEPT ![r] = y]
    BY <2>1, <2>3, <2>4, OrphanFrame DEF Claimed
  <2>5. CASE req' = [req EXCEPT ![r] = Idle] /\ (req[r].op = "upload" => req[r].rows = {})
    <3>1. req[r].op # "upload" => ~Claimed(req[r])
      BY <2>2 DEF OrphanInv, InTransaction, Claimed
    <3> QED BY <2>1, <2>5, <3>1, <1>3
  <2> QED BY <2>1, <2>4, <2>5
<1>8. ASSUME NEW r \in Request,
             \/ UploadLockProgram(r) \/ UploadLockVersions(r) \/ DeleteFileLockProgram(r)
             \/ ActivateLockVersion(r) \/ CreateCheck(r) \/ CreateInsertFirst(r)
      PROVE  OrphanInv'
  <2>1. PICK x : /\ req' = [req EXCEPT ![r] = x] /\ UNCHANGED <<files, disk, crashes>>
                 /\ \/ x = Idle
                    \/ /\ x.op = req[r].op /\ x.at # "clean"
                       /\ x.at = "write" => x.op = "upload"
                 /\ ~Claimed(req[r])
    <3> DEFINE moved(a) == [req[r] EXCEPT !.at = a]
               read(a) == [req[r] EXCEPT !.at = a, !.seen = versions]
    <3>1. \A a : /\ moved(a).op = req[r].op /\ moved(a).at = a
                 /\ read(a).op = req[r].op /\ read(a).at = a
      BY <1>1 DEF RequestState
    <3>2. /\ UNCHANGED <<files, disk, crashes>> /\ ~Claimed(req[r])
          /\ \/ req' = [req EXCEPT ![r] = Idle]
             \/ req[r].op = "upload" /\ req' = [req EXCEPT ![r] = moved("write")]
             \/ \E a \in {"versions", "program"} :
                  \/ req' = [req EXCEPT ![r] = moved(a)]
                  \/ req' = [req EXCEPT ![r] = read(a)]
      BY <1>1, <1>8 DEF UploadLockProgram, UploadLockVersions, DeleteFileLockProgram,
        ActivateLockVersion, CreateCheck, CreateInsertFirst, Claimed
    <3> HIDE DEF moved, read
    <3> QED BY <3>1, <3>2
  <2>2. CASE x = Idle BY <2>1, <2>2, <1>3
  <2>3. CASE x.op = req[r].op /\ x.at # "clean" /\ (x.at = "write" => x.op = "upload")
    BY <2>1, <2>3, OrphanFrame DEF OrphanInv
  <2> QED BY <2>1, <2>2, <2>3
<1>9. ASSUME NEW r \in Request,
             \/ DeleteProgramLockVersions(r) \/ DeleteProgramCommit(r)
             \/ \E n \in FileName : UploadWriteFails(r, n)
      PROVE  FALSE
  BY <1>9 DEF DeleteProgramLockVersions, DeleteProgramCommit, UploadWriteFails, OrphanInv,
              NoProgramDeleted
<1>10. CASE Crash
  <2>1. (\A r \in Request : req'[r] = Idle) /\ crashes' # 0 BY <1>1, <1>10 DEF Crash
  <2> QED BY <2>1, <1>2 DEF OrphanInv
<1>11. CASE UNCHANGED vars
  <2>1. req' = req /\ files' = files /\ disk' = disk /\ crashes' = crashes
    BY <1>11 DEF vars
  <2> QED BY <2>1 DEF OrphanInv, Accounted
<1> QED
  BY <1>4, <1>5, <1>6, <1>7, <1>8, <1>9, <1>10, <1>11, OrphanWrite, OrphanCommit, Zenon
  DEF Next, Continue, UploadStep, DeleteStep, ActivateStep, CreateStep, Stopped

(* As long as no program is deleted and no write fails half way, whatever   *)
(* uploads and deletions of files do at the same time, those of the same    *)
(* file included: once all have ended without a crash, only listed files    *)
(* are left (UploadFile's clean-up after a rollback, DeleteFile's removal). *)
THEOREM NothingIsOrphaned ==
  ASSUME NoProgramDeleted
  PROVE  Spec => []NoOrphans
<1>1. Init => TypeInv /\ OrphanInv
  <2> SUFFICES ASSUME Init PROVE OrphanInv BY InitTypeInv
  <2>1. /\ \A r \in Request : req[r] = Idle
        /\ \A d \in disk : \E f \in files : f.path = d.path
    <3>1. req = [r \in Request |-> Idle] BY Zenon DEF Init
    <3>2. PICK k \in 0 .. MaxInit :
            \E v \in [1 .. k -> Version], n \in [1 .. k -> FileName] :
            LET Earlier(i) == \E j \in 1 .. i - 1 : v[j] = v[i] /\ n[j] = n[i]
                path(i) == [version |-> v[i], name |-> n[i],
                            salt |-> IF Earlier(i) THEN i ELSE 0]
            IN  /\ files = {[id |-> i, version |-> v[i], path |-> path(i)] : i \in 1 .. k}
                /\ disk = {[path |-> path(i), file |-> i] : i \in 1 .. k}
                /\ nextFile = k + 1
      BY Zenon DEF Init
    <3>3. PICK v \in [1 .. k -> Version], n \in [1 .. k -> FileName] :
            LET Earlier(i) == \E j \in 1 .. i - 1 : v[j] = v[i] /\ n[j] = n[i]
                path(i) == [version |-> v[i], name |-> n[i],
                            salt |-> IF Earlier(i) THEN i ELSE 0]
            IN  /\ files = {[id |-> i, version |-> v[i], path |-> path(i)] : i \in 1 .. k}
                /\ disk = {[path |-> path(i), file |-> i] : i \in 1 .. k}
                /\ nextFile = k + 1
      BY <3>2, Zenon
    <3> DEFINE Earlier(i) == \E j \in 1 .. i - 1 : v[j] = v[i] /\ n[j] = n[i]
               path(i) == [version |-> v[i], name |-> n[i],
                           salt |-> IF Earlier(i) THEN i ELSE 0]
    <3>4. /\ files = {[id |-> i, version |-> v[i], path |-> path(i)] : i \in 1 .. k}
          /\ disk = {[path |-> path(i), file |-> i] : i \in 1 .. k}
      BY <3>3
    <3> HIDE DEF path
    <3>5. ASSUME NEW d \in disk PROVE \E f \in files : f.path = d.path
      <4>1. PICK i \in 1 .. k : d = [path |-> path(i), file |-> i] BY <3>4
      <4>2. [id |-> i, version |-> v[i], path |-> path(i)] \in files BY <3>4
      <4> QED BY <4>1, <4>2
    <3>6. \A r \in Request : req[r] = Idle BY <3>1
    <3> QED BY <3>5, <3>6
  <2> QED BY <2>1 DEF OrphanInv, Idle, Accounted
<1>2. TypeInv /\ OrphanInv /\ [Next]_vars => (TypeInv /\ OrphanInv)'
  BY StepTypeInv, OrphanStep
<1>3. OrphanInv => NoOrphans
  <2>1. Idle.at = "idle" BY DEF Idle
  <2> QED BY <2>1 DEF OrphanInv, NoOrphans, Accounted, Claimed
<1> QED BY <1>1, <1>2, <1>3, PTL DEF Spec

-----------------------------------------------------------------------------
(***************************************************************************)
(* A file deletion repairs the version rows, of programs that started      *)
(* without them too.                                                       *)
(***************************************************************************)
NoVersionByHand == \A r \in Request : "createVersion" \notin May[r]

UniqueNames == \A v, w \in versions : v.version = w.version => v = w

(* What a reconciliation may rely on, whatever rows are missing: it was     *)
(* told of every row there is, and no name has two.                         *)
RepairInv ==
  /\ \A r \in Request : req[r].op # "createVersion"
  /\ SlotInv
  /\ SeenIsCurrent
  /\ UniqueNames

(* A step of slot r that keeps the rows, or writes them with the program    *)
(* row in its hands or free.                                                *)
LEMMA RepairFrame ==
  ASSUME TypeInv, RepairInv, SlotInv', UniqueNames',
         NEW r \in Request, NEW x, req' = [req EXCEPT ![r] = x],
         x.op # "createVersion",
         x.op = "deleteFile" /\ x.at = "versions" => x.seen = versions',
         versions' = versions \/ Available("program", r)
  PROVE  RepairInv'
<1>1. req \in [Request -> RequestState] BY DEF TypeInv, TypeOK
<1>2. req'[r] = x /\ \A s \in Request \ {r} : req'[s] = req[s] BY <1>1
<1>3. \A s \in Request : req'[s].op # "createVersion" BY <1>2 DEF RepairInv
<1>4. SeenIsCurrent'
  <2> SUFFICES ASSUME NEW s \in Request,
                      req'[s].op = "deleteFile", req'[s].at = "versions"
               PROVE  req'[s].seen = versions'
    BY DEF SeenIsCurrent
  <2>1. CASE s = r BY <2>1, <1>2
  <2>2. CASE s # r
    <3>1. req'[s] = req[s] BY <2>2, <1>2
    <3>2. req[s].seen = versions BY <3>1 DEF RepairInv, SeenIsCurrent
    <3>3. lock["program"] = s BY <3>1 DEF RepairInv, SlotInv, HoldsProgram
    <3>4. ~Available("program", r) BY <2>2, <3>3, RequestAssumption DEF Available
    <3> QED BY <3>1, <3>2, <3>4
  <2> QED BY <2>1, <2>2
<1> QED BY <1>3, <1>4 DEF RepairInv

(* An upload's rows: its own, and those of the other names. *)
LEMMA PublishedUnique ==
  ASSUME TypeInv, UniqueNames, NEW v, NEW id, versions' = Published(v, id)
  PROVE  UniqueNames'
<1> DEFINE existing == {w \in versions : w.version = v}
           new == [id |-> nextVersion, version |-> v, file |-> id, current |-> TRUE]
           old == [Newest(existing) EXCEPT !.file = id, !.current = TRUE]
           own == IF existing = {} THEN new ELSE old
           off(w) == [w EXCEPT !.current = FALSE]
<1>1. /\ versions \subseteq ProgramVersion /\ Bounded(versions, nextVersion)
      /\ nextVersion \in Nat
  BY DEF TypeInv, TypeOK
<1>2. versions' = {off(w) : w \in {u \in versions : u.id # own.id}} \cup {own}
  BY DEF Published
<1>3. own.version = v /\ \A w \in versions : w.id # own.id => w.version # v
  <2>1. CASE existing = {}
    <3>1. own = new BY <2>1
    <3> HIDE DEF own
    <3> QED BY <2>1, <3>1
  <2>2. CASE existing # {}
    <3>1. Newest(existing) \in existing
      <4>1. Bounded(existing, nextVersion) BY <1>1 DEF Bounded
      <4> HIDE DEF existing
      <4> QED BY <4>1, <2>2, <1>1, NewestIsLatest
    <3>2. /\ Newest(existing) \in ProgramVersion
          /\ \A w \in versions : w.version = v => w = Newest(existing)
      BY <3>1, <1>1 DEF UniqueNames
    <3>3. own = old BY <2>2
    <3>4. own.id = Newest(existing).id /\ own.version = Newest(existing).version
      <4> HIDE DEF own, existing
      <4> QED BY <3>2, <3>3 DEF ProgramVersion
    <3> HIDE DEF own
    <3> QED BY <3>1, <3>2, <3>4
  <2> QED BY <2>1, <2>2
<1>4. \A w \in versions : off(w).version = w.version BY <1>1 DEF ProgramVersion
<1> HIDE DEF own, off
<1> SUFFICES ASSUME NEW y \in versions', NEW z \in versions', y.version = z.version
             PROVE  y = z
  BY DEF UniqueNames
<1>5. CASE y = own \/ z = own
  <2>1. \A w \in versions : w.id # own.id => off(w).version # own.version BY <1>3, <1>4
  <2> QED BY <1>2, <1>5, <2>1
<1>6. CASE y # own /\ z # own
  <2>1. PICK w \in versions : y = off(w) BY <1>2, <1>6
  <2>2. PICK u \in versions : z = off(u) BY <1>2, <1>6
  <2> QED BY <2>1, <2>2, <1>4 DEF UniqueNames
<1> QED BY <1>5, <1>6

(* What a reconciliation that was told of every row leaves: one row for     *)
(* every name in use and no other, linked to the newest file of the name,   *)
(* and marked current for the name that the program is given.               *)
LEMMA RepairedRows ==
  ASSUME TypeInv, UniqueNames, NEW fs \in SUBSET files, Reconcile(fs, versions)
  PROVE  LET names == {f.version : f \in fs}
             kept == {w \in versions : w.version \in names}
         IN  \E p \in Preferred(fs, kept) :
               /\ program' = [program EXCEPT !.version = p]
               /\ names = {y.version : y \in versions'}
               /\ \A y \in versions' : /\ y.file = Newest(FilesOf(fs, y.version)).id
                                       /\ y.current = (y.version = p)
               /\ \A y, z \in versions' : y.version = z.version => y = z
<1> DEFINE names == {f.version : f \in fs}
           kept == {w \in versions : w.version \in names}
           missing == names \ {w.version : w \in kept}
           link(w) == [w EXCEPT !.file = Newest(FilesOf(fs, w.version)).id]
           relinked == {link(w) : w \in kept}
           known == relinked \cup Created(fs, missing)
           unseen == {w \in versions : \A u \in versions : u.id # w.id}
<1>1. PICK p \in Preferred(fs, kept) :
        /\ versions' = {[w EXCEPT !.current =
                           /\ w \in known /\ w.version = p
                           /\ \A u \in known : u.version = p => u.id <= w.id]
                        : w \in known \cup unseen}
        /\ program' = [program EXCEPT !.version = p]
  BY Zenon DEF Reconcile
<1>2. /\ versions \subseteq ProgramVersion
      /\ \A w, u \in versions : w.version = u.version => w = u
      /\ fs \in SUBSET ProgramFile /\ IsFiniteSet(fs) /\ Bounded(fs, nextFile)
      /\ nextFile \in Nat /\ nextVersion \in Nat
  BY FS_Subset DEF TypeInv, TypeOK, UniqueNames, Bounded
<1>3. unseen = {} OBVIOUS
<1>4. \A w \in kept : /\ link(w).version = w.version /\ link(w) \in ProgramVersion
                      /\ link(w).file = Newest(FilesOf(fs, w.version)).id
  <2>1. \A v \in names : Newest(FilesOf(fs, v)).id \in Nat BY <1>2, NewestOfVersion
  <2> QED BY <1>2, <2>1 DEF ProgramVersion
<1>5. /\ Created(fs, missing) \subseteq ProgramVersion
      /\ \A x \in Created(fs, missing) :
           x.version \in missing /\ x.file = Newest(FilesOf(fs, x.version)).id
      /\ \A n \in missing : \E x \in Created(fs, missing) : x.version = n
      /\ \A x, y \in Created(fs, missing) : x.version = y.version => x = y
  <2>1. missing \in SUBSET names OBVIOUS
  <2> HIDE DEF missing
  <2>2. Created(fs, missing) \subseteq ProgramVersion BY <1>2, <2>1, CreatedType
  <2> DEFINE row(n) == [id |-> nextVersion
                                 + Cardinality({m \in missing : Newest(FilesOf(fs, m)).id
                                                                  > Newest(FilesOf(fs, n)).id}),
                        version |-> n, file |-> Newest(FilesOf(fs, n)).id, current |-> FALSE]
  <2>3. Created(fs, missing) = {row(n) : n \in missing} BY DEF Created
  <2>4. \A n \in missing : row(n).version = n /\ row(n).file = Newest(FilesOf(fs, n)).id
    OBVIOUS
  <2> HIDE DEF row
  <2> QED BY <2>2, <2>3, <2>4
<1>6. /\ known \subseteq ProgramVersion
      /\ \A x \in known : x.version \in names /\ x.file = Newest(FilesOf(fs, x.version)).id
      /\ \A n \in names : \E x \in known : x.version = n
      /\ \A x, y \in known : x.version = y.version => x = y
  <2>1. \A x \in relinked : \E w \in kept : x = link(w) OBVIOUS
  <2>2. \A w \in kept : link(w) \in relinked /\ w.version \in names /\ w \in versions OBVIOUS
  <2>3. \A n \in missing : n \in names /\ \A w \in kept : w.version # n OBVIOUS
  <2>4. \A n \in names : n \in missing \/ \E w \in kept : w.version = n OBVIOUS
  <2> HIDE DEF missing, kept, names, link, relinked
  <2>5. /\ relinked \subseteq ProgramVersion
        /\ \A x \in relinked : x.version \in names /\ x.file = Newest(FilesOf(fs, x.version)).id
        /\ \A x \in relinked : x.version \notin missing
        /\ \A x, y \in relinked : x.version = y.version => x = y
    BY <1>2, <1>4, <2>1, <2>2, <2>3
  <2>6. \A n \in names : n \in missing \/ \E x \in relinked : x.version = n
    BY <1>4, <2>2, <2>4
  <2> QED BY <1>5, <2>3, <2>5, <2>6
<1> DEFINE cur(x) == /\ x \in known /\ x.version = p
                     /\ \A u \in known : u.version = p => u.id <= x.id
           mark(x) == [x EXCEPT !.current = cur(x)]
<1>7. versions' = {mark(x) : x \in known} BY <1>1, <1>3
<1> HIDE DEF known
<1>8. ASSUME NEW x \in known
      PROVE  /\ mark(x).version = x.version /\ mark(x).file = x.file
             /\ mark(x).current = (x.version = p)
  <2>1. x \in ProgramVersion /\ x.id \in Nat BY <1>6 DEF ProgramVersion
  <2>2. ASSUME x.version = p, NEW u \in known, u.version = p PROVE u.id <= x.id
    <3>1. u = x BY <1>6, <2>2
    <3> QED BY <2>1, <3>1
  <2>3. cur(x) <=> x.version = p BY <2>2
  <2>4. cur(x) = (x.version = p)
    <3>1. cur(x) \in BOOLEAN OBVIOUS
    <3> HIDE DEF cur
    <3> QED BY <2>3, <3>1
  <2> HIDE DEF cur
  <2>5. mark(x) = [x EXCEPT !.current = (x.version = p)] BY <2>4
  <2> QED BY <2>1, <2>5 DEF ProgramVersion
<1> HIDE DEF mark, names
<1>9. names = {y.version : y \in versions'}
  <2>1. \A y \in versions' : y.version \in names BY <1>6, <1>7, <1>8
  <2>2. \A n \in names : \E y \in versions' : y.version = n BY <1>6, <1>7, <1>8
  <2> QED BY <2>1, <2>2
<1>10. \A y \in versions' : /\ y.file = Newest(FilesOf(fs, y.version)).id
                            /\ y.current = (y.version = p)
  BY <1>6, <1>7, <1>8
<1>11. \A y, z \in versions' : y.version = z.version => y = z
  BY <1>6, <1>7, <1>8
<1> QED BY <1>1, <1>9, <1>10, <1>11 DEF names

LEMMA RepairStep ==
  ASSUME NoVersionByHand, TypeInv, RepairInv, [Next]_vars
  PROVE  RepairInv'
<1>1. /\ req \in [Request -> RequestState] /\ versions \subseteq ProgramVersion
      /\ SlotInv /\ UniqueNames
      /\ \A r \in Request : req[r].op # "createVersion"
  BY DEF TypeInv, TypeOK, RepairInv
<1>2. SlotInv' BY <1>1, StepSlotInv
<1>3. versions' = versions => UniqueNames' BY <1>1 DEF UniqueNames
<1>4. ASSUME NEW r \in Request, NEW x, req' = [req EXCEPT ![r] = x],
             x.op # "createVersion",
             x.op = "deleteFile" => x.at # "versions" \/ x.seen = versions',
             versions' = versions
      PROVE  RepairInv'
  BY <1>2, <1>3, <1>4, RepairFrame
<1>5. Idle.op = "none" BY DEF Idle
<1>6. ASSUME NEW r \in Request, StartStep(r) PROVE RepairInv'
  <2>1. ASSUME NEW op \in Op, NEW q, Start(r, op, q),
               [q EXCEPT !.op = op].op = op, [q EXCEPT !.op = op].at = q.at,
               op = "deleteFile" => q.at = "program"
        PROVE  RepairInv'
    <3> DEFINE x == [q EXCEPT !.op = op]
    <3>1. req' = [req EXCEPT ![r] = x] /\ versions' = versions /\ op \in May[r]
      BY <2>1 DEF Start
    <3>2. x.op = op /\ x.at = q.at /\ op # "createVersion" BY <2>1, <3>1 DEF NoVersionByHand
    <3> HIDE DEF x
    <3> QED BY <2>1, <3>1, <3>2, <1>4
  <2>2. CASE StartUpload(r)
    <3>1. PICK v \in Version : Start(r, "upload", [Idle EXCEPT !.at = "program", !.want = v])
      BY <2>2 DEF StartUpload
    <3> QED BY <3>1, <2>1 DEF Idle, Op
  <2>3. CASE StartDeleteFile(r)
    <3>1. PICK f \in files : Start(r, "deleteFile", [Idle EXCEPT !.at = "program", !.rows = {f}])
      BY <2>3 DEF StartDeleteFile
    <3> QED BY <3>1, <2>1 DEF Idle, Op
  <2>4. CASE StartActivate(r)
    <3>1. PICK v \in versions :
            Start(r, "activate", [Idle EXCEPT !.at = "versions", !.vid = v.id])
      BY <2>4 DEF StartActivate
    <3> QED BY <3>1, <2>1 DEF Idle, Op
  <2>5. CASE StartCreateVersion(r)
    BY <2>5 DEF StartCreateVersion, Start, NoVersionByHand
  <2>6. CASE StartDeleteProgram(r)
    BY <2>6, <2>1 DEF StartDeleteProgram, Idle, Op
  <2> QED BY <1>6, <2>2, <2>3, <2>4, <2>5, <2>6 DEF StartStep
<1>7. ASSUME NEW r \in Request,
             ProgramGone(r) \/ ActivateVersionGone(r) \/ UploadClean(r) \/ RemoveFromDisk(r)
      PROVE  RepairInv'
  <2>1. req' = [req EXCEPT ![r] = Idle] /\ versions' = versions
    BY <1>7 DEF ProgramGone, ActivateVersionGone, UploadClean, RemoveFromDisk
  <2> QED BY <2>1, <1>4, <1>5
<1>8. ASSUME NEW r \in Request, Rollback(r) \/ \E n \in FileName : UploadWriteFails(r, n)
      PROVE  RepairInv'
  <2> DEFINE y == [req[r] EXCEPT !.at = "clean"]
  <2>1. /\ req' = [req EXCEPT ![r] = Idle] \/ req' = [req EXCEPT ![r] = y]
        /\ versions' = versions
    BY <1>1, <1>8 DEF Rollback, UploadWriteFails
  <2>2. y.op # "createVersion" /\ y.at = "clean" BY <1>1 DEF RequestState
  <2> HIDE DEF y
  <2> QED BY <2>1, <2>2, <1>4, <1>5
<1>9. ASSUME NEW r \in Request, NEW n \in FileName, UploadWrite(r, n) PROVE RepairInv'
  <2> DEFINE x == [req[r] EXCEPT !.rows =
                     @ \cup {[id |-> nextFile, version |-> req[r].want,
                              path |-> StorePath(req[r].want, n, nextFile)]}]
  <2>1. req' = [req EXCEPT ![r] = x] /\ versions' = versions /\ req[r].op = "upload"
    BY <1>1, <1>9 DEF UploadWrite
  <2>2. x.op = "upload" BY <1>1, <2>1 DEF RequestState
  <2> HIDE DEF x
  <2> QED BY <2>1, <2>2, <1>4
<1>10. ASSUME NEW r \in Request, NEW next \in Step,
              req' = [req EXCEPT ![r].at = next], versions' = versions,
              req[r].op # "deleteFile"
       PROVE  RepairInv'
  <2> DEFINE x == [req[r] EXCEPT !.at = next]
  <2>1. req' = [req EXCEPT ![r] = x] BY <1>1, <1>10
  <2>2. x.op = req[r].op BY <1>1 DEF RequestState
  <2> HIDE DEF x
  <2> QED BY <2>1, <2>2, <1>1, <1>4, <1>10
<1>11. ASSUME NEW r \in Request,
              \/ UploadLockProgram(r) \/ UploadLockVersions(r)
              \/ ActivateLockVersion(r) \/ DeleteProgramLockVersions(r)
       PROVE  RepairInv'
  BY <1>10, <1>11 DEF UploadLockProgram, UploadLockVersions, ActivateLockVersion,
                      DeleteProgramLockVersions, Step
<1>12. ASSUME NEW r \in Request, DeleteFileLockProgram(r) PROVE RepairInv'
  <2> DEFINE x == [req[r] EXCEPT !.at = "versions", !.seen = versions]
  <2>1. req' = [req EXCEPT ![r] = x] /\ versions' = versions
    BY <1>1, <1>12 DEF DeleteFileLockProgram
  <2>2. x.op # "createVersion" /\ x.seen = versions BY <1>1 DEF RequestState
  <2> HIDE DEF x
  <2> QED BY <2>1, <2>2, <1>4
<1>13. ASSUME NEW r \in Request, UploadCommit(r) PROVE RepairInv'
  <2>1. req' = [req EXCEPT ![r] = Idle] /\ UniqueNames'
    BY <1>1, <1>13, PublishedUnique DEF UploadCommit
  <2>2. Available("program", r)
    BY <1>1, <1>13 DEF UploadCommit, SlotInv, HoldsProgram, Available
  <2> QED BY <2>1, <2>2, <1>2, <1>5, RepairFrame
<1>14. ASSUME NEW r \in Request, ActivateCommit(r) PROVE RepairInv'
  <2>1. PICK v \in versions : versions' = {[w EXCEPT !.current = w.id = v.id] : w \in versions}
    BY <1>14 DEF ActivateCommit
  <2> DEFINE set(w) == [w EXCEPT !.current = w.id = v.id]
  <2>2. versions' = {set(w) : w \in versions} BY <2>1
  <2>3. \A w \in versions : set(w).version = w.version BY <1>1 DEF ProgramVersion
  <2> HIDE DEF set
  <2>4. UniqueNames' BY <1>1, <2>2, <2>3 DEF UniqueNames
  <2> QED BY <1>14, <2>4, <1>2, <1>5, RepairFrame DEF ActivateCommit
<1>15. ASSUME NEW r \in Request, DeleteFileCommit(r) PROVE RepairInv'
  <2> DEFINE x == [req[r] EXCEPT !.at = "remove", !.seen = {}]
  <2>1. /\ req' = [req EXCEPT ![r] = x] /\ Reconcile(files \ req[r].rows, versions)
        /\ Available("program", r)
    BY <1>1, <1>15 DEF DeleteFileCommit, RepairInv, SeenIsCurrent, SlotInv, HoldsProgram,
                       Available
  <2>2. \A y, z \in versions' : y.version = z.version => y = z
    <3> DEFINE fs == files \ req[r].rows
    <3>1. fs \in SUBSET files OBVIOUS
    <3> HIDE DEF fs
    <3> QED BY <1>1, <2>1, <3>1, RepairedRows DEF fs
  <2>3. x.op # "createVersion" /\ x.at = "remove" BY <1>1 DEF RequestState
  <2> HIDE DEF x
  <2> QED BY <2>1, <2>2, <2>3, <1>2, RepairFrame DEF UniqueNames
<1>16. ASSUME NEW r \in Request, DeleteProgramCommit(r) PROVE RepairInv'
  <2> DEFINE x == [req[r] EXCEPT !.at = "remove"]
  <2>1. /\ req' = [req EXCEPT ![r] = x] /\ versions' = {} /\ Available("program", r)
    BY <1>1, <1>16 DEF DeleteProgramCommit
  <2>2. x.op # "createVersion" /\ x.at = "remove" BY <1>1 DEF RequestState
  <2> HIDE DEF x
  <2> QED BY <2>1, <2>2, <1>2, RepairFrame DEF UniqueNames
<1>17. ASSUME NEW r \in Request, CreateStep(r) PROVE FALSE
  BY <1>1, <1>17 DEF CreateStep, CreateCheck, CreateInsert, CreateInsertFirst, CreateCommit
<1>18. CASE Crash
  <2>1. (\A r \in Request : req'[r] = Idle) /\ versions' = versions BY <1>18 DEF Crash
  <2> QED BY <2>1, <1>2, <1>3, <1>5 DEF RepairInv, SeenIsCurrent
<1>19. CASE UNCHANGED vars
  BY <1>19, <1>1, <1>2, <1>3 DEF vars, RepairInv, SeenIsCurrent
<1> QED
  BY <1>6, <1>7, <1>8, <1>9, <1>11, <1>12, <1>13, <1>14, <1>15, <1>16, <1>17, <1>18, <1>19,
     Zenon
  DEF Next, Continue, UploadStep, DeleteStep, ActivateStep, Stopped

(* One row per name in use, linked to its newest file, is what              *)
(* VersionsMatchFiles asks for; the name chosen has a row.                  *)
LEMMA CommitRepairs ==
  ASSUME TypeInv, RepairInv, NEW r \in Request, DeleteFileCommit(r)
  PROVE  (VersionsMatchFiles /\ CurrentIsPrograms)'
<1> DEFINE fs == files \ req[r].rows
           names == {f.version : f \in fs}
           kept == {w \in versions : w.version \in names}
<1>1. program \in Program /\ fs \in SUBSET files BY DEF TypeInv, TypeOK
<1>2. files' = fs /\ Reconcile(fs, versions) /\ UniqueNames
  BY DEF DeleteFileCommit, RepairInv, SeenIsCurrent
<1> HIDE DEF fs
<1>3. PICK p \in Preferred(fs, kept) :
        /\ program' = [program EXCEPT !.version = p]
        /\ names = {y.version : y \in versions'}
        /\ \A y \in versions' : /\ y.file = Newest(FilesOf(fs, y.version)).id
                                /\ y.current = (y.version = p)
        /\ \A y, z \in versions' : y.version = z.version => y = z
  BY <1>1, <1>2, RepairedRows, Zenon
<1>4. CurrentIsPrograms'
  <2>1. program'.version = p BY <1>1, <1>3 DEF Program
  <2>2. CASE fs = {}
    <3>1. kept = {} /\ names = {} BY <2>2
    <3>2. p = NoVersion BY <3>1, <2>2, <1>3 DEF Preferred
    <3>3. versions' = {} BY <3>1, <1>3
    <3> QED BY <3>2, <3>3, <2>1 DEF CurrentIsPrograms
  <2>3. CASE fs # {}
    <3>1. p \in names
      <4>1. CASE \E v \in kept : v.current
        <5>1. Preferred(fs, kept) = {v.version : v \in {u \in kept : u.current}}
          BY <4>1 DEF Preferred
        <5> QED BY <5>1, <1>3
      <4>2. CASE (~ \E v \in kept : v.current) /\ program.version \in names
        <5>1. Preferred(fs, kept) = {program.version} BY <4>2 DEF Preferred
        <5> QED BY <5>1, <4>2, <1>3
      <4>3. CASE (~ \E v \in kept : v.current) /\ program.version \notin names
        <5>1. Preferred(fs, kept) = {Newest(fs).version} BY <4>3, <2>3 DEF Preferred
        <5>2. Bounded(fs, nextFile) /\ nextFile \in Nat
          BY <1>1 DEF TypeInv, TypeOK, Bounded
        <5>3. Newest(fs) \in fs BY <5>2, <2>3, NewestIsLatest
        <5> QED BY <5>1, <5>3, <1>3
      <4> QED BY <4>1, <4>2, <4>3
    <3>2. PICK y \in versions' : y.version = p BY <3>1, <1>3
    <3>3. y.current BY <3>2, <1>3
    <3> QED BY <3>2, <3>3, <2>1 DEF CurrentIsPrograms
  <2> QED BY <2>2, <2>3
<1>5. VersionsMatchFiles'
  <2>1. \A f \in files' : f.version \in names BY <1>2
  <2>2. ASSUME NEW y \in versions'
        PROVE  \E f \in FilesOf(files', y.version) :
                 y.file = f.id /\ \A g \in FilesOf(files', y.version) : g.id <= f.id
    <3>1. y.version \in names BY <1>3
    <3>2. FilesOf(fs, y.version) # {} BY <3>1 DEF FilesOf
    <3>3. /\ Newest(FilesOf(fs, y.version)) \in FilesOf(fs, y.version)
          /\ \A g \in FilesOf(fs, y.version) : g.id <= Newest(FilesOf(fs, y.version)).id
      BY <3>2, <1>1, NewestFile
    <3> QED BY <3>3, <1>2, <1>3
  <2>3. \A f \in files' : \E y \in versions' : y.version = f.version BY <2>1, <1>3
  <2> HIDE DEF names
  <2> QED BY <2>2, <2>3, <1>3 DEF VersionsMatchFiles
<1> QED BY <1>4, <1>5

LEMMA InitRepair == Init => RepairInv
<1> SUFFICES ASSUME Init PROVE RepairInv OBVIOUS
<1> DEFINE latest(w) == Newest(FilesOf(files, w)).id
           row(w, c) == [id |-> latest(w), version |-> w, file |-> latest(w),
                         current |-> w = c]
           names == {f.version : f \in files}
<1>1. \A r \in Request : req[r] = Idle BY Zenon DEF Init
<1>2. versions = {} \/ \E c \in names : versions = {row(w, c) : w \in names}
  BY Zenon DEF Init
<1>3. UniqueNames
  <2>1. CASE versions = {} BY <2>1 DEF UniqueNames
  <2>2. ASSUME NEW c \in names, versions = {row(w, c) : w \in names} PROVE UniqueNames
    <3>1. \A w \in names : row(w, c).version = w OBVIOUS
    <3> HIDE DEF row, names
    <3> QED BY <2>2, <3>1 DEF UniqueNames
  <2> QED BY <1>2, <2>1, <2>2
<1>4. SlotInv /\ SeenIsCurrent BY <1>1 DEF SlotInv, SeenIsCurrent, HoldsProgram, Idle
<1> QED BY <1>1, <1>3, <1>4 DEF RepairInv, Idle

(* Whatever a program's version rows lack, the deletion of one of its files *)
(* leaves them complete and in agreement with programs.version, for every   *)
(* overlap of uploads, deletions and activations; only CreateVersion may    *)
(* add a row that the reconciliation was not told of (DeleteFile,           *)
(* reconcileProgramVersionState).                                           *)
THEOREM DeletionRepairs ==
  ASSUME NoVersionByHand
  PROVE  Spec => ReconcileRepairs
<1>1. Init => TypeInv /\ RepairInv BY InitTypeInv, InitRepair
<1>2. (TypeInv /\ RepairInv) /\ [Next]_vars => (TypeInv /\ RepairInv)'
  BY StepTypeInv, RepairStep
<1>3. (TypeInv /\ RepairInv) /\ [Next]_vars
        => [(\E r \in Request : DeleteFileCommit(r)) =>
              (VersionsMatchFiles /\ CurrentIsPrograms)']_vars
  BY CommitRepairs
<1> QED BY <1>1, <1>2, <1>3, PTL DEF Spec, ReconcileRepairs
=============================================================================
