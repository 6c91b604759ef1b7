---------------------- MODULE ProgramVersionsRefinement ----------------------
(***************************************************************************)
(* The interleaved handlers implement VersionHistory, for every number of  *)
(* slots, names, files and crashes, under the same restriction as          *)
(* the consistency of the rows: each commit is one operation of the        *)
(* history, every other step leaves it as it is.                           *)
(***************************************************************************)
EXTENDS ProgramVersionsProofs

-----------------------------------------------------------------------------
(***************************************************************************)
(* HistoryInv is an invariant.                                             *)
(***************************************************************************)
Fresh(N) == \A f, g \in N : f = g /\ f.id = nextFile

LEMMA KnownFilesStep ==
  ASSUME TypeInv, HistoryInv, NEW r \in Request, NEW x, NEW N,
         req' = [req EXCEPT ![r] = x],
         files' \cup x.rows \subseteq files \cup req[r].rows \cup N, Fresh(N),
         x.op = "deleteFile" => \E f \in ProgramFile : x.rows = {f},
         HoldsProgram(r)' => program'.live,
         \A s \in Request \ {r} : HoldsProgram(s) => program'.live
  PROVE  HistoryInv'
<1>1. req \in [Request -> RequestState] BY DEF TypeInv, TypeOK
<1>2. req'[r] = x /\ \A s \in Request \ {r} : req'[s] = req[s] BY <1>1
<1>3. KnownFiles' \subseteq KnownFiles \cup N
  BY <1>2 DEF KnownFiles
<1>4. \A f \in KnownFiles : f.id < nextFile
  BY DEF KnownFiles, TypeInv, Bounded, WellFormed
<1>5. nextFile \in Nat BY DEF TypeInv, TypeOK
<1>6. \A f \in KnownFiles, g \in N : f.id # g.id
  BY <1>4, <1>5 DEF Fresh
<1>7. \A f, g \in KnownFiles' : f.id = g.id => f = g
  BY <1>3, <1>6 DEF HistoryInv, Fresh
<1>8. \A s \in Request :
        req'[s].op = "deleteFile" => \E f \in ProgramFile : req'[s].rows = {f}
  BY <1>2 DEF HistoryInv
<1>9. \A s \in Request : HoldsProgram(s)' => program'.live
  BY <1>2 DEF HoldsProgram
<1> QED BY <1>7, <1>8, <1>9 DEF HistoryInv

LEMMA StartHistory ==
  ASSUME TypeInv, HistoryInv, NEW r \in Request, StartStep(r)
  PROVE  HistoryInv'
<1>1. ASSUME NEW op \in Op, NEW q, Start(r, op, q), q.at # "write",
             LET x == [q EXCEPT !.op = op]
             IN  /\ x.rows \subseteq files
                 /\ x.op \in {"upload", "deleteFile"} => x.at = "program"
                 /\ x.op = "deleteFile" => \E f \in ProgramFile : x.rows = {f}
      PROVE  HistoryInv'
  <2> DEFINE x == [q EXCEPT !.op = op]
  <2>1. /\ req' = [req EXCEPT ![r] = x]
        /\ UNCHANGED <<program, files>>
    BY <1>1 DEF Start
  <2>2. req'[r] = x BY <2>1 DEF TypeInv, TypeOK
  <2>3. /\ x.rows \subseteq files
        /\ x.op \in {"upload", "deleteFile"} => x.at = "program"
        /\ x.op = "deleteFile" => \E f \in ProgramFile : x.rows = {f}
    BY <1>1
  <2> HIDE DEF x
  <2>4. ~HoldsProgram(r)' BY <2>2, <2>3 DEF HoldsProgram
  <2>5. Fresh({}) BY DEF Fresh
  <2>6. \A s \in Request : HoldsProgram(s) => program'.live BY <2>1 DEF HistoryInv
  <2>7. files' \cup x.rows \subseteq files \cup req[r].rows \cup {} BY <2>1, <2>3
  <2> QED BY <2>1, <2>3, <2>4, <2>5, <2>6, <2>7, KnownFilesStep
<1>2. CASE StartUpload(r)
  <2>1. PICK v \in Version : Start(r, "upload", [Idle EXCEPT !.at = "program", !.want = v])
    BY <1>2 DEF StartUpload
  <2> QED BY <2>1, <1>1 DEF Idle, Op
<1>3. CASE StartDeleteFile(r)
  <2>1. PICK f \in files : Start(r, "deleteFile", [Idle EXCEPT !.at = "program", !.rows = {f}])
    BY <1>3 DEF StartDeleteFile
  <2>2. f \in ProgramFile BY DEF TypeInv, TypeOK
  <2> QED BY <2>1, <2>2, <1>1 DEF Idle, Op
<1>4. CASE StartActivate(r)
  <2>1. PICK v \in versions : Start(r, "activate", [Idle EXCEPT !.at = "versions", !.vid = v.id])
    BY <1>4 DEF StartActivate
  <2> QED BY <2>1, <1>1 DEF Idle, Op
<1>5. CASE StartCreateVersion(r)
  <2>1. PICK f \in files :
          Start(r, "createVersion",
                [Idle EXCEPT !.at = "check", !.want = f.version, !.rows = {f}])
    BY <1>5 DEF StartCreateVersion
  <2> QED BY <2>1, <1>1 DEF Idle, Op
<1>6. CASE StartDeleteProgram(r)
  BY <1>6, <1>1 DEF StartDeleteProgram, Idle, Op
<1> QED BY <1>2, <1>3, <1>4, <1>5, <1>6 DEF StartStep

(* Steps that add no file row anywhere and leave the program as it is. *)
LEMMA QuietHistory ==
  ASSUME TypeInv, HistoryInv, NEW r \in Request, NEW x,
         req' = [req EXCEPT ![r] = x],
         files' \subseteq files \cup req[r].rows,
         x = Idle \/ (x.rows = req[r].rows /\ x.op = req[r].op),
         program'.live = program.live,
         HoldsProgram(r)' => program.live
  PROVE  HistoryInv'
<1>1. Fresh({}) BY DEF Fresh
<1>2. Idle.rows = {} /\ Idle.op = "none" BY DEF Idle
<1>3. files' \cup x.rows \subseteq files \cup req[r].rows \cup {} BY <1>2
<1>4. x.op = "deleteFile" => \E f \in ProgramFile : x.rows = {f}
  BY <1>2 DEF HistoryInv
<1>5. \A s \in Request \ {r} : HoldsProgram(s) => program'.live BY DEF HistoryInv
<1>6. HoldsProgram(r)' => program'.live OBVIOUS
<1> QED BY <1>1, <1>3, <1>4, <1>5, <1>6, KnownFilesStep

LEMMA RowsKeptHistory ==
  ASSUME TypeInv, HistoryInv, NEW r \in Request,
         \/ ProgramGone(r) \/ ActivateVersionGone(r) \/ UploadClean(r)
         \/ RemoveFromDisk(r) \/ Rollback(r) \/ \E n \in FileName : UploadWriteFails(r, n)
         \/ UploadLockProgram(r) \/ UploadLockVersions(r) \/ DeleteFileLockProgram(r)
         \/ ActivateLockVersion(r) \/ DeleteProgramLockVersions(r) \/ ActivateCommit(r)
  PROVE  HistoryInv'
<1>1. req \in [Request -> RequestState] /\ program \in Program BY DEF TypeInv, TypeOK
<1>2. CASE \/ ProgramGone(r) \/ ActivateVersionGone(r) \/ UploadClean(r)
           \/ RemoveFromDisk(r) \/ Rollback(r) \/ \E n \in FileName : UploadWriteFails(r, n)
           \/ ActivateCommit(r)
  <2>1. PICK x \in {Idle, [req[r] EXCEPT !.at = "clean"]} : req' = [req EXCEPT ![r] = x]
    BY <1>1, <1>2 DEF ProgramGone, ActivateVersionGone, UploadClean, RemoveFromDisk,
       Rollback, UploadWriteFails, ActivateCommit
  <2>2. files' = files /\ program'.live = program.live
    BY <1>1, <1>2 DEF ProgramGone, ActivateVersionGone, UploadClean, RemoveFromDisk,
       Rollback, UploadWriteFails, ActivateCommit, Program
  <2>3. x = Idle \/ (x.rows = req[r].rows /\ x.op = req[r].op)
    BY <1>1 DEF RequestState
  <2>4. x.at \in {"idle", "clean"} BY <1>1 DEF RequestState, Idle
  <2>5. ~HoldsProgram(r)' BY <1>1, <2>1, <2>4 DEF HoldsProgram
  <2> QED BY <2>1, <2>2, <2>3, <2>5, QuietHistory
<1>3. CASE \/ UploadLockProgram(r) \/ UploadLockVersions(r)
           \/ ActivateLockVersion(r) \/ DeleteProgramLockVersions(r)
  <2>1. PICK a \in Step : req' = [req EXCEPT ![r] = [req[r] EXCEPT !.at = a]]
    BY <1>1, <1>3 DEF UploadLockProgram, UploadLockVersions, ActivateLockVersion,
       DeleteProgramLockVersions, Step
  <2> DEFINE x == [req[r] EXCEPT !.at = a]
  <2>2. files' = files /\ program' = program
    BY <1>3 DEF UploadLockProgram, UploadLockVersions, ActivateLockVersion,
       DeleteProgramLockVersions
  <2>3. x.rows = req[r].rows /\ x.op = req[r].op BY <1>1 DEF RequestState
  <2>4. HoldsProgram(r)' => program.live
    <3>1. req'[r].op = req[r].op BY <1>1, <2>1 DEF RequestState
    <3>2. CASE UploadLockProgram(r) BY <3>2 DEF UploadLockProgram
    <3>3. CASE UploadLockVersions(r)
      BY <3>3 DEF UploadLockVersions, HistoryInv, HoldsProgram
    <3>4. CASE ActivateLockVersion(r) \/ DeleteProgramLockVersions(r)
      BY <3>1, <3>4 DEF ActivateLockVersion, DeleteProgramLockVersions, HoldsProgram
    <3> QED BY <1>3, <3>2, <3>3, <3>4
  <2>5. req' = [req EXCEPT ![r] = x] BY <2>1
  <2> HIDE DEF x
  <2> QED BY <2>2, <2>3, <2>4, <2>5, QuietHistory
<1>4. CASE DeleteFileLockProgram(r)
  <2> DEFINE x == [req[r] EXCEPT !.at = "versions", !.seen = versions]
  <2>1. req' = [req EXCEPT ![r] = x] /\ files' = files /\ program' = program /\ program.live
    BY <1>1, <1>4 DEF DeleteFileLockProgram
  <2>2. x.rows = req[r].rows /\ x.op = req[r].op BY <1>1 DEF RequestState
  <2> HIDE DEF x
  <2> QED BY <2>1, <2>2, QuietHistory
<1> QED BY <1>2, <1>3, <1>4

LEMMA WritingHistory ==
  ASSUME TypeInv, ConsistencyInv, HistoryInv, NEW r \in Request,
         \/ \E n \in FileName : UploadWrite(r, n)
         \/ UploadCommit(r) \/ DeleteFileCommit(r) \/ DeleteProgramCommit(r)
  PROVE  HistoryInv'
<1>1. req \in [Request -> RequestState] /\ program \in Program BY DEF TypeInv, TypeOK
<1>2. ASSUME NEW n \in FileName, UploadWrite(r, n) PROVE HistoryInv'
  <2> DEFINE f == [id |-> nextFile, version |-> req[r].want,
                   path |-> StorePath(req[r].want, n, nextFile)]
             x == [req[r] EXCEPT !.rows = @ \cup {f}]
  <2>1. /\ req' = [req EXCEPT ![r] = x]
        /\ files' = files /\ program' = program
        /\ req[r].op = "upload" /\ req[r].at = "write"
    BY <1>1, <1>2 DEF UploadWrite
  <2>2. f.id = nextFile OBVIOUS
  <2> HIDE DEF f
  <2>3. Fresh({f}) BY <2>2 DEF Fresh
  <2>4. x.rows = req[r].rows \cup {f} /\ x.op # "deleteFile"
    BY <1>1, <2>1 DEF RequestState
  <2>5. HoldsProgram(r) => program.live BY DEF HistoryInv
  <2>6. program.live BY <2>1, <2>5 DEF HoldsProgram
  <2>7. files' \cup x.rows \subseteq files \cup req[r].rows \cup {f} BY <2>1, <2>4
  <2> HIDE DEF x
  <2> QED BY <2>1, <2>3, <2>4, <2>6, <2>7, KnownFilesStep
<1>3. CASE UploadCommit(r)
  <2>1. /\ req' = [req EXCEPT ![r] = Idle] /\ files' \subseteq files \cup req[r].rows
        /\ program'.live = program.live
    BY <1>1, <1>3 DEF UploadCommit, Program
  <2>2. ~HoldsProgram(r)' BY <1>1, <2>1 DEF HoldsProgram, Idle
  <2> QED BY <2>1, <2>2, QuietHistory
<1>4. CASE DeleteFileCommit(r)
  <2> DEFINE x == [req[r] EXCEPT !.at = "remove", !.seen = {}]
  <2>1. req' = [req EXCEPT ![r] = x] /\ files' \subseteq files \cup req[r].rows
    BY <1>1, <1>4 DEF DeleteFileCommit
  <2>2. program'.live = program.live
    BY <1>1, <1>4 DEF DeleteFileCommit, Reconcile, Program
  <2>3. x.rows = req[r].rows /\ x.op = req[r].op /\ x.at = "remove" BY <1>1 DEF RequestState
  <2>4. ~HoldsProgram(r)' BY <1>1, <2>1, <2>3 DEF HoldsProgram
  <2> HIDE DEF x
  <2> QED BY <2>1, <2>2, <2>3, <2>4, QuietHistory
<1>5. CASE DeleteProgramCommit(r)
  <2> DEFINE x == [req[r] EXCEPT !.at = "remove"]
  <2>1. req' = [req EXCEPT ![r] = x] /\ files' = {} /\ Available("program", r)
    BY <1>1, <1>5 DEF DeleteProgramCommit
  <2>2. x.rows = req[r].rows /\ x.op = req[r].op /\ x.at = "remove" BY <1>1 DEF RequestState
  <2>3. ~HoldsProgram(r)' BY <1>1, <2>1, <2>2 DEF HoldsProgram
  <2>4. \A s \in Request \ {r} : ~HoldsProgram(s)
    BY <2>1, RequestAssumption DEF ConsistencyInv, LocksKept, Available
  <2>5. files' \cup x.rows \subseteq files \cup req[r].rows \cup {} BY <2>1, <2>2
  <2>6. Fresh({}) BY DEF Fresh
  <2>7. x.op = "deleteFile" => \E f \in ProgramFile : x.rows = {f}
    BY <2>2 DEF HistoryInv
  <2> HIDE DEF x
  <2> QED BY <2>1, <2>3, <2>4, <2>5, <2>6, <2>7, KnownFilesStep
<1> QED BY <1>2, <1>3, <1>4, <1>5

LEMMA InitHistory == Init => HistoryInv
<1> SUFFICES ASSUME Init PROVE HistoryInv OBVIOUS
<1>1. \A r \in Request : req[r] = Idle BY Zenon DEF Init
<1>2. Idle.rows = {} /\ Idle.op = "none" BY DEF Idle
<1>3. KnownFiles = files BY <1>1, <1>2 DEF KnownFiles
<1>4. \A f, g \in files : f.id = g.id => f = g BY InitFiles
<1> QED BY <1>1, <1>2, <1>3, <1>4 DEF HistoryInv, HoldsProgram

LEMMA CrashHistory == HistoryInv /\ Crash => HistoryInv'
<1> SUFFICES ASSUME HistoryInv, Crash PROVE HistoryInv' OBVIOUS
<1>1. \A r \in Request : req'[r] = Idle BY DEF Crash
<1>2. Idle.rows = {} /\ Idle.op = "none" BY DEF Idle
<1>3. KnownFiles' \subseteq KnownFiles BY <1>1, <1>2 DEF KnownFiles, Crash
<1> QED BY <1>1, <1>2, <1>3 DEF HistoryInv, HoldsProgram

LEMMA StepHistory ==
  Restricted /\ TypeInv /\ ConsistencyInv /\ HistoryInv /\ [Next]_vars => HistoryInv'
<1> SUFFICES ASSUME Restricted, TypeInv, ConsistencyInv, HistoryInv, [Next]_vars
             PROVE  HistoryInv'
  OBVIOUS
<1>1. ASSUME NEW r \in Request, UploadStep(r) PROVE HistoryInv'
  BY <1>1, RowsKeptHistory, WritingHistory, Zenon DEF UploadStep
<1>2. ASSUME NEW r \in Request, DeleteStep(r) PROVE HistoryInv'
  BY <1>2, RowsKeptHistory, WritingHistory, Zenon DEF DeleteStep
<1>3. ASSUME NEW r \in Request, ActivateStep(r) PROVE HistoryInv'
  BY <1>3, RowsKeptHistory, Zenon DEF ActivateStep
<1>4. ASSUME NEW r \in Request, CreateStep(r) PROVE FALSE
  BY <1>4 DEF CreateStep, CreateCheck, CreateInsert, CreateInsertFirst, CreateCommit,
              ConsistencyInv
<1>5. CASE UNCHANGED vars
  <2>1. program' = program /\ files' = files /\ req' = req BY <1>5 DEF vars
  <2> QED BY <2>1 DEF HistoryInv, KnownFiles, HoldsProgram
<1>6. CASE Next
  BY <1>1, <1>2, <1>3, <1>4, <1>5, <1>6, RowsKeptHistory, StartHistory, CrashHistory, Zenon
     DEF Next, Continue, Stopped
<1> QED BY <1>5, <1>6

-----------------------------------------------------------------------------
(***************************************************************************)
(* Each commit is an operation of the history.                             *)
(***************************************************************************)
Entry(f) == [id |-> f.id, version |-> f.version]

LEMMA HeldRows ==
  /\ Held = {Entry(f) : f \in files}
  /\ Held' = {Entry(f) : f \in files'}
  /\ \A f : Entry(f).id = f.id /\ Entry(f).version = f.version
BY DEF Held, Entry

(* What a reconciliation prefers, when rows and program agree: the          *)
(* program's version as long as it has files, then the newest file's.       *)
LEMMA PreferredVersion ==
  ASSUME TypeInv, ConsistencyInv, program.live, NEW fs \in SUBSET files,
         NEW p \in Preferred(fs, {w \in versions : w.version \in {f.version : f \in fs}})
  PROVE  p = IF program.version \in {f.version : f \in fs} THEN program.version
             ELSE IF fs = {} THEN NoVersion ELSE Newest(fs).version
<1> DEFINE names == {f.version : f \in fs}
           kept == {w \in versions : w.version \in names}
<1>1. /\ \A v, w \in versions : v.current /\ w.current => v = w
      /\ versions # {} => \E v \in versions : v.current /\ v.version = program.version
      /\ \A f \in files : \E v \in versions : v.version = f.version
  BY DEF ConsistencyInv, SingleCurrent, CurrentIsPrograms, VersionsMatchFiles
<1>2. CASE program.version \in names
  <2>1. versions # {} BY <1>1, <1>2
  <2>2. PICK v \in versions : v.current /\ v.version = program.version BY <1>1, <2>1
  <2>3. v \in kept BY <2>2, <1>2
  <2>4. \A u \in kept : u.current => u = v BY <1>1, <2>2
  <2> HIDE DEF kept, names
  <2>5. Preferred(fs, kept) = {u.version : u \in {w \in kept : w.current}}
    BY <2>2, <2>3 DEF Preferred
  <2>6. p \in {u.version : u \in {w \in kept : w.current}} BY <2>5 DEF kept, names
  <2>7. PICK u \in kept : u.current /\ p = u.version BY <2>6
  <2>8. p = program.version BY <2>7, <2>4, <2>2
  <2> QED BY <2>8, <1>2 DEF names
<1>3. CASE program.version \notin names
  <2>1. \A u \in kept : ~u.current
    <3> SUFFICES ASSUME NEW u \in kept, u.current PROVE FALSE OBVIOUS
    <3>1. PICK v \in versions : v.current /\ v.version = program.version BY <1>1
    <3>2. u = v BY <3>1, <1>1
    <3> QED BY <3>1, <3>2, <1>3
  <2>2. Preferred(fs, kept) = IF fs # {} THEN {Newest(fs).version} ELSE {NoVersion}
    <3>1. program.version \notin {f.version : f \in fs} BY <1>3
    <3> HIDE DEF kept, names
    <3> QED BY <2>1, <3>1 DEF Preferred
  <2> QED BY <2>2, <1>3
<1> QED BY <1>2, <1>3

LEMMA LastAddedVersion ==
  ASSUME TypeInv, HistoryInv, NEW fs \in SUBSET files, fs # {}
  PROVE  History!LastAdded({Entry(f) : f \in fs}) = Newest(fs).version
<1> DEFINE es == {Entry(f) : f \in fs}
           last(e) == \A g \in es : g.id <= e.id
           chosen == CHOOSE e \in es : last(e)
<1>1. Bounded(fs, nextFile) /\ nextFile \in Nat BY DEF TypeInv, TypeOK, Bounded
<1>2. Newest(fs) \in fs /\ \A g \in fs : g.id <= Newest(fs).id BY <1>1, NewestIsLatest
<1>3. \A f : Entry(f).id = f.id /\ Entry(f).version = f.version BY DEF Entry
<1>4. Entry(Newest(fs)) \in es /\ last(Entry(Newest(fs))) BY <1>2, <1>3
<1>5. chosen \in es /\ last(chosen) BY <1>4
<1>6. PICK f \in fs : chosen = Entry(f) BY <1>5
<1>7. Newest(fs).id <= f.id
  <2>1. Newest(fs).id <= chosen.id BY <1>4, <1>5, <1>3
  <2> HIDE DEF chosen
  <2> QED BY <2>1, <1>6, <1>3
<1>8. f.id = Newest(fs).id BY <1>1, <1>2, <1>7 DEF Bounded
<1>9. f = Newest(fs) BY <1>2, <1>8 DEF HistoryInv, KnownFiles
<1>10. History!LastAdded(es) = chosen.version BY <1>4 DEF History!LastAdded
<1> HIDE DEF chosen
<1> QED BY <1>10, <1>6, <1>9, <1>3

LEMMA UploadPublishes ==
  ASSUME TypeInv, ConsistencyInv, HistoryInv, NEW r \in Request, UploadCommit(r)
  PROVE  History!Publish
<1> DEFINE v == req[r].want
<1>1. program \in Program BY DEF TypeInv, TypeOK
<1>2. /\ req[r].op = "upload" /\ req[r].at = "write" /\ req[r].rows # {}
      /\ files' = files \cup req[r].rows /\ program' = [program EXCEPT !.version = v]
  BY DEF UploadCommit
<1>3. WellFormed(req[r], nextFile, nextVersion) BY DEF TypeInv
<1>4. v \in Version BY <1>2, <1>3 DEF WellFormed
<1>5. program.live BY <1>2 DEF HistoryInv, HoldsProgram
<1>6. Current' = v BY <1>1, <1>2, <1>5 DEF Current, Program
<1>7. \A f \in req[r].rows : f.version = v /\ \A g \in files : g.id < f.id
  BY <1>2 DEF ConsistencyInv, StagedAbove
<1>8. \A g \in files : g.id \in Nat BY DEF TypeInv, Bounded
<1>9. Held \subseteq Held' BY <1>2, HeldRows
<1>10. Held' # Held
  <2>1. PICK f \in req[r].rows : TRUE BY <1>2
  <2>2. Entry(f) \in Held' BY <1>2, HeldRows
  <2>3. Entry(f) \notin Held
    <3> SUFFICES ASSUME NEW g \in files, Entry(f) = Entry(g) PROVE FALSE BY HeldRows
    <3>1. f.id = g.id BY HeldRows
    <3> QED BY <3>1, <1>7, <1>8
  <2> QED BY <2>2, <2>3
<1>11. \A e \in Held' \ Held : e.version = v /\ \A g \in Held : g.id < e.id
  BY <1>2, <1>7, HeldRows
<1> HIDE DEF v
<1> QED BY <1>4, <1>6, <1>9, <1>10, <1>11 DEF History!Publish

LEMMA ActivateActivates ==
  ASSUME TypeInv, ConsistencyInv, NEW r \in Request, ActivateCommit(r)
  PROVE  History!Activate \/ UNCHANGED <<Held, Current>>
<1>1. PICK v \in versions :
        program' = IF program.live THEN [program EXCEPT !.version = v.version] ELSE program
  BY DEF ActivateCommit
<1>2. files' = files /\ program \in Program BY DEF ActivateCommit, TypeInv, TypeOK
<1>3. Held' = Held BY <1>2 DEF Held
<1>4. CASE program.live
  <2>1. Current' = v.version BY <1>1, <1>2, <1>4 DEF Current, Program
  <2>2. PICK f \in files : f.version = v.version
    BY DEF ConsistencyInv, VersionsMatchFiles, FilesOf
  <2>3. v.version \in History!Names(Held)
    BY <2>2, HeldRows DEF History!Names
  <2> QED BY <1>3, <2>1, <2>3 DEF History!Activate
<1>5. CASE ~program.live BY <1>1, <1>3, <1>5 DEF Current
<1> QED BY <1>4, <1>5

LEMMA DeleteFileRemoves ==
  ASSUME TypeInv, ConsistencyInv, HistoryInv, NEW r \in Request, DeleteFileCommit(r)
  PROVE  History!Remove \/ UNCHANGED <<Held, Current>>
<1>1. program \in Program BY DEF TypeInv, TypeOK
<1>2. /\ req[r].op = "deleteFile" /\ req[r].at = "versions"
      /\ files' = files \ req[r].rows /\ Reconcile(files \ req[r].rows, req[r].seen)
  BY DEF DeleteFileCommit
<1>3. req[r].seen = versions BY <1>2 DEF ConsistencyInv, SeenIsCurrent
<1>4. PICK f \in ProgramFile : req[r].rows = {f} BY <1>2 DEF HistoryInv
<1>5. program.live BY <1>2 DEF HistoryInv, HoldsProgram
<1> DEFINE fs == files \ {f}
           names == {g.version : g \in fs}
           kept == {w \in versions : w.version \in names}
<1>6. files' = fs /\ Reconcile(fs, versions) BY <1>2, <1>3, <1>4
<1>7. fs \in SUBSET files OBVIOUS
<1> HIDE DEF fs
<1>8. PICK p \in Preferred(fs, kept) : program' = [program EXCEPT !.version = p]
  BY <1>6, <1>7, ReconciledRows, Zenon
<1>9. p = IF program.version \in names THEN program.version
          ELSE IF fs = {} THEN NoVersion ELSE Newest(fs).version
  BY <1>5, <1>7, <1>8, PreferredVersion
<1>10. Current' = p /\ Current = program.version BY <1>1, <1>5, <1>8 DEF Current, Program
<1>11. History!Names(Held') = names BY <1>6, HeldRows DEF History!Names
<1>12. Current' = IF Current \in History!Names(Held') THEN Current
                  ELSE History!LastAdded(Held')
  <2>1. Held' = {Entry(g) : g \in fs} BY <1>6, HeldRows
  <2>2. fs = {} => History!LastAdded(Held') = NoVersion BY <2>1 DEF History!LastAdded
  <2>3. fs # {} => History!LastAdded(Held') = Newest(fs).version
    BY <2>1, <1>7, LastAddedVersion
  <2> HIDE DEF names
  <2> QED BY <1>9, <1>10, <1>11, <2>2, <2>3
<1>13. CASE f \in files
  <2>1. Entry(f) \in Held BY <1>13, HeldRows
  <2>2. \A g \in files : Entry(g) = Entry(f) => g = f
    <3> SUFFICES ASSUME NEW g \in files, Entry(g) = Entry(f) PROVE g = f OBVIOUS
    <3>1. g.id = f.id BY HeldRows
    <3> QED BY <3>1, <1>13 DEF HistoryInv, KnownFiles
  <2>3. Held' = Held \ {Entry(f)} BY <1>6, <2>2, HeldRows DEF fs
  <2> QED BY <1>12, <2>1, <2>3 DEF History!Remove
<1>14. CASE f \notin files
  <2>1. fs = files BY <1>14 DEF fs
  <2>2. Held' = Held BY <1>6, <2>1, HeldRows
  <2>3. p = program.version
    <3>1. CASE files = {}
      <4>1. versions = {} BY <3>1 DEF ConsistencyInv, VersionsMatchFiles, FilesOf
      <4>2. program.version = NoVersion
        BY <4>1, <1>5 DEF ConsistencyInv, CurrentIsPrograms
      <4> QED BY <4>2, <3>1, <2>1, <1>9
    <3>2. CASE files # {}
      <4>1. versions # {} BY <3>2 DEF ConsistencyInv, VersionsMatchFiles
      <4>2. PICK v \in versions : v.version = program.version
        BY <4>1, <1>5 DEF ConsistencyInv, CurrentIsPrograms
      <4>3. PICK g \in files : g.version = v.version
        BY DEF ConsistencyInv, VersionsMatchFiles, FilesOf
      <4> QED BY <4>2, <4>3, <2>1, <1>9
    <3> QED BY <3>1, <3>2
  <2> QED BY <2>2, <2>3, <1>10
<1> QED BY <1>13, <1>14

LEMMA DeleteProgramDrops ==
  ASSUME TypeInv, NEW r \in Request, DeleteProgramCommit(r)
  PROVE  History!Drop
<1>1. program \in Program BY DEF TypeInv, TypeOK
<1>2. files' = {} /\ ~program'.live BY <1>1 DEF DeleteProgramCommit, Program
<1> QED BY <1>2 DEF History!Drop, Held, Current

LEMMA QuietSteps ==
  ASSUME UNCHANGED <<program, files>>
  PROVE  UNCHANGED <<Held, Current>>
BY DEF Held, Current

LEMMA StepImplements ==
  ASSUME Restricted, TypeInv, ConsistencyInv, HistoryInv, [Next]_vars
  PROVE  [History!HNext]_<<Held, Current>>
<1> DEFINE Implements == History!HNext \/ UNCHANGED <<Held, Current>>
<1>1. ASSUME NEW r \in Request, UploadStep(r) PROVE Implements
  <2>1. CASE UploadCommit(r) BY <2>1, UploadPublishes DEF History!HNext
  <2>2. CASE ~UploadCommit(r)
    <3>1. UNCHANGED <<program, files>>
      BY <1>1, <2>2 DEF UploadStep, UploadLockProgram, UploadLockVersions, UploadWrite,
         UploadWriteFails, UploadClean
    <3> QED BY <3>1, QuietSteps
  <2> QED BY <2>1, <2>2
<1>2. ASSUME NEW r \in Request, DeleteStep(r) PROVE Implements
  <2>1. CASE DeleteFileCommit(r) BY <2>1, DeleteFileRemoves DEF History!HNext
  <2>2. CASE DeleteProgramCommit(r) BY <2>2, DeleteProgramDrops DEF History!HNext
  <2>3. CASE DeleteFileLockProgram(r) \/ DeleteProgramLockVersions(r) \/ RemoveFromDisk(r)
    <3>1. UNCHANGED <<program, files>>
      BY <2>3 DEF DeleteFileLockProgram, DeleteProgramLockVersions, RemoveFromDisk
    <3> QED BY <3>1, QuietSteps
  <2> QED BY <1>2, <2>1, <2>2, <2>3 DEF DeleteStep
<1>3. ASSUME NEW r \in Request, ActivateStep(r) PROVE Implements
  <2>1. CASE ActivateCommit(r) BY <2>1, ActivateActivates DEF History!HNext
  <2>2. CASE ActivateLockVersion(r) \/ ActivateVersionGone(r)
    <3>1. UNCHANGED <<program, files>> BY <2>2 DEF ActivateLockVersion, ActivateVersionGone
    <3> QED BY <3>1, QuietSteps
  <2> QED BY <1>3, <2>1, <2>2 DEF ActivateStep
<1>4. ASSUME NEW r \in Request, CreateStep(r) PROVE FALSE
  BY <1>4 DEF CreateStep, CreateCheck, CreateInsert, CreateInsertFirst, CreateCommit,
              ConsistencyInv
<1>5. ASSUME NEW r \in Request, StartStep(r) \/ ProgramGone(r) \/ Rollback(r) PROVE Implements
  <2>1. UNCHANGED <<program, files>>
    BY <1>5 DEF StartStep, StartUpload, StartDeleteFile, StartActivate, StartCreateVersion,
       StartDeleteProgram, Start, ProgramGone, Rollback
  <2> QED BY <2>1, QuietSteps
<1>6. ASSUME Crash PROVE Implements
  <2>1. UNCHANGED <<program, files>> BY <1>6 DEF Crash
  <2> QED BY <2>1, QuietSteps
<1>7. ASSUME UNCHANGED vars PROVE Implements
  <2>1. UNCHANGED <<program, files>> BY <1>7 DEF vars
  <2> QED BY <2>1, QuietSteps
<1> HIDE DEF Implements
<1>8. ASSUME Next PROVE Implements
  BY <1>1, <1>2, <1>3, <1>4, <1>5, <1>6, <1>7, <1>8, Zenon DEF Next, Continue, Stopped
<1>9. Implements BY <1>7, <1>8
<1> QED BY <1>9 DEF Implements

LEMMA InitImplements ==
  ASSUME TypeInv, ConsistencyInv, program.live
  PROVE  History!HInit
<1>1. files \subseteq ProgramFile /\ program \in Program BY DEF TypeInv, TypeOK
<1>2. Held \subseteq History!Entry
  BY <1>1 DEF Held, History!Entry, ProgramFile
<1>3. CASE versions = {}
  <2>1. files = {} BY <1>3 DEF ConsistencyInv, VersionsMatchFiles
  <2>2. program.version = NoVersion
    BY <1>3 DEF ConsistencyInv, CurrentIsPrograms
  <2>3. Held = {} /\ Current = NoVersion BY <2>1, <2>2 DEF Held, Current
  <2> QED BY <1>2, <2>3 DEF History!HInit
<1>4. CASE versions # {}
  <2>1. PICK v \in versions : v.version = program.version
    BY <1>4 DEF ConsistencyInv, CurrentIsPrograms
  <2>2. PICK f \in files : f.version = program.version
    BY <2>1 DEF ConsistencyInv, VersionsMatchFiles, FilesOf
  <2>3. Current = f.version /\ f.version \in Version
    BY <1>1, <2>2 DEF Current, ProgramFile
  <2>4. Current \in History!Names(Held) BY <2>2, <2>3, HeldRows DEF History!Names
  <2>5. Current # NoVersion BY <2>3, VersionAssumption
  <2> QED BY <1>2, <2>4, <2>5 DEF History!HInit
<1> QED BY <1>3, <1>4

(* Uploads, activations and deletions take effect at once, in some order:   *)
(* the current version after any interleaving is the one VersionHistory     *)
(* computes from the order of the commits (UploadFile, ActivateVersion,     *)
(* DeleteFile with reconcileProgramVersionState, DeleteProgram).            *)
THEOREM Refinement ==
  ASSUME Restricted
  PROVE  Spec => ImplementsHistory
<1> DEFINE IInv == TypeInv /\ ConsistencyInv /\ HistoryInv
<1>1. Init => IInv BY InitTypeInv, InitConsistent, InitHistory
<1>2. IInv /\ [Next]_vars => IInv' BY StepTypeInv, StepConsistent, StepHistory
<1>3. Init => History!HInit
  <2>1. Init => program.live
    <3> SUFFICES ASSUME Init PROVE program.live OBVIOUS
    <3> DEFINE names == {f.version : f \in files}
    <3>1. \/ \E c \in names : program = [live |-> TRUE, version |-> c]
          \/ program = [live |-> TRUE, version |-> NoVersion]
          \/ program \in [live : {TRUE}, version : names \cup {NoVersion}]
      BY Zenon DEF Init
    <3> HIDE DEF names
    <3>2. program.live = TRUE
      <4>1. CASE \E c \in names : program = [live |-> TRUE, version |-> c] BY <4>1
      <4>2. CASE program = [live |-> TRUE, version |-> NoVersion] BY <4>2
      <4>3. CASE program \in [live : {TRUE}, version : names \cup {NoVersion}] BY <4>3
      <4> QED BY <3>1, <4>1, <4>2, <4>3
    <3> QED BY <3>2
  <2> QED BY <1>1, <2>1, InitImplements
<1>4. IInv /\ [Next]_vars => [History!HNext]_<<Held, Current>> BY StepImplements
<1> QED BY <1>1, <1>2, <1>3, <1>4, PTL DEF Spec, ImplementsHistory, History!HSpec
=============================================================================
