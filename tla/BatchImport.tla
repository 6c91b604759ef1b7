----------------------------- MODULE BatchImport -----------------------------
(***************************************************************************)
(* Batch import of programs (controllers/file_batch_import_controller.go). *)
(*                                                                         *)
(* An upload unpacks the table of contents of an archive, keeps the        *)
(* archive in a temporary directory and remembers it as a preview that     *)
(* expires; an import request consumes the preview and starts a goroutine  *)
(* that creates one program after another and reports through a task.      *)
(*                                                                         *)
(* Every critical section of batchPreviewMu and of batchTaskMu is one      *)
(* action, so are a removal of a directory and a commit.  The timer of a   *)
(* preview is a goroutine of its own: it fires, waits for the lock, and    *)
(* removes the directory after it has let go of the lock.                  *)
(*                                                                         *)
(* The mapping of a workstation to a production line is one answer, "all   *)
(* mappings are there and allowed" or "refused"; the branch for a missing  *)
(* mapping inside the goroutine cannot be taken, the preview consumed      *)
(* being the preview that was checked.                                     *)
(***************************************************************************)
EXTENDS Naturals, FiniteSets

CONSTANTS
    Archives,       \* archives users upload; one names its preview as well
    Users,          \* users who may manage the production lines
    Requests,       \* calls of POST /api/batch/import
    MaxPrograms,    \* bound: programs in one archive
    PreviewTTL,     \* batchPreviewTTL, in ticks
    TaskTTL,        \* batchTaskStatusTTL, in ticks
    MaxClock,       \* bound: past it the clock only runs while a preview waits
    MaxRestarts     \* bound: restarts of the server

ASSUME ConstantsAssumption ==
    /\ MaxPrograms \in Nat /\ MaxClock \in Nat /\ MaxRestarts \in Nat
    /\ PreviewTTL \in Nat \ {0} /\ TaskTTL \in Nat \ {0}
    /\ Archives # {} /\ Users # {} /\ IsFiniteSet(Requests)

VARIABLES
    now,        \* time.Now()
    archives,   \* what the upload handler knows of each archive
    temp,       \* archives whose temporary directory exists
    previews,   \* keys of batchPreviews
    expiresAt,  \* ExpiresAt of each preview
    timers,     \* CleanupJob of each preview, and the goroutine it starts
    imports,    \* the import requests, each with the goroutine it starts
    tasks,      \* batchTasks, a function on the live task ids
    nextTask,   \* batchTaskSeq
    rows,       \* <<request, k>>: the k-th program was committed
    disk,       \* <<request, k>>: the directory of the k-th program exists
    restarts

memory == <<previews, expiresAt, timers, tasks, nextTask>>
vars == <<now, archives, temp, previews, expiresAt, timers, imports, tasks,
          nextTask, rows, disk, restarts>>

-----------------------------------------------------------------------------
NoArchive == [state |-> "none", owner |-> CHOOSE u \in Users : TRUE, programs |-> 0]
NoImport  == [pc |-> "idle", archive |-> CHOOSE a \in Archives : TRUE,
              task |-> 0, k |-> 0]

\* Where the goroutine of a started import may be.
Working == {"opening", "next", "writing", "committing", "committed",
            "succeeded", "refused", "failing", "completing", "leaving"}
RequestPC == {"idle", "checking", "consumed"} \cup Working \cup {"done", "lost"}

Status(status, owner, total, r) ==
    [status |-> status, owner |-> owner, total |-> total, processed |-> 0,
     success |-> 0, failed |-> 0, expiresAt |-> now + TaskTTL, request |-> r]

Init ==
    /\ now = 0
    /\ archives = [a \in Archives |-> NoArchive]
    /\ temp = {} /\ previews = {}
    /\ expiresAt = [a \in Archives |-> 0]
    /\ timers = [a \in Archives |-> "none"]
    /\ imports = [r \in Requests |-> NoImport]
    /\ tasks = [t \in {} |-> 0]
    /\ nextTask = 1
    /\ rows = {} /\ disk = {}
    /\ restarts = 0

\* Time passes; it always does, the bound only ends it when nothing waits.
Tick ==
    /\ \/ now < MaxClock
       \/ \E a \in previews : expiresAt[a] > now
    /\ now' = now + 1
    /\ UNCHANGED <<archives, temp, imports, rows, disk, restarts, memory>>

-----------------------------------------------------------------------------
(* Previews, under batchPreviewMu.                                         *)

ExpiredPreviews == {a \in previews : expiresAt[a] <= now}

\* Stop: a timer that has fired already is not stopped by it.
StopTimers(A) ==
    [a \in Archives |-> IF a \in A /\ timers[a] = "armed" THEN "stopped"
                                                         ELSE timers[a]]

\* BatchUploadPrograms up to the call of createBatchPreview: the directory is
\* made and the archive of n programs copied into it.
ReceiveArchive(a, u, n) ==
    /\ archives[a].state = "none"
    /\ archives' = [archives EXCEPT ![a] =
                        [state |-> "receiving", owner |-> u, programs |-> n]]
    /\ temp' = temp \cup {a}
    /\ UNCHANGED <<now, imports, rows, disk, restarts, memory>>

\* An archive that is too large, unreadable or over its limits: the deferred
\* call removes the directory.
RefuseArchive(a) ==
    /\ archives[a].state = "receiving"
    /\ archives' = [archives EXCEPT ![a].state = "gone"]
    /\ temp' = temp \ {a}
    /\ UNCHANGED <<now, imports, rows, disk, restarts, memory>>

CreatePreview(a) ==
    /\ archives[a].state = "receiving"
    /\ archives' = [archives EXCEPT ![a].state = "previewed"]
    /\ previews' = (previews \ ExpiredPreviews) \cup {a}
    /\ temp' = temp \ ExpiredPreviews
    /\ expiresAt' = [expiresAt EXCEPT ![a] = now + PreviewTTL]
    /\ timers' = [StopTimers(ExpiredPreviews) EXCEPT ![a] = "armed"]
    /\ UNCHANGED <<now, imports, tasks, nextTask, rows, disk, restarts>>

FireTimer(a) ==
    /\ timers[a] = "armed" /\ expiresAt[a] <= now
    /\ timers' = [timers EXCEPT ![a] = "fired"]
    /\ UNCHANGED <<now, archives, temp, previews, expiresAt, imports, tasks,
                   nextTask, rows, disk, restarts>>

\* expireBatchPreview up to Unlock.
ExpirePreview(a) ==
    /\ timers[a] = "fired"
    /\ previews' = previews \ {a}
    /\ timers' = [timers EXCEPT ![a] = IF a \in previews THEN "removing" ELSE "stopped"]
    /\ UNCHANGED <<now, archives, temp, expiresAt, imports, tasks, nextTask,
                   rows, disk, restarts>>

\* expireBatchPreview after Unlock.
RemoveExpired(a) ==
    /\ timers[a] = "removing"
    /\ temp' = temp \ {a}
    /\ timers' = [timers EXCEPT ![a] = "stopped"]
    /\ UNCHANGED <<now, archives, previews, expiresAt, imports, tasks, nextTask,
                   rows, disk, restarts>>

Goto(r, pc) == imports' = [imports EXCEPT ![r].pc = pc]

\* The first lookup of an import request, getBatchPreview: the preview must be
\* there and belong to the caller.
GetPreview(r, u, a) ==
    /\ imports[r].pc = "idle" /\ archives[a].state = "previewed"
    /\ previews' = previews \ ExpiredPreviews
    /\ temp' = temp \ ExpiredPreviews
    /\ timers' = StopTimers(ExpiredPreviews)
    /\ imports' = [imports EXCEPT ![r].archive = a, ![r].pc =
                      IF a \in previews' /\ archives[a].owner = u
                      THEN "checking" ELSE "done"]
    /\ UNCHANGED <<now, archives, expiresAt, tasks, nextTask, rows, disk, restarts>>

\* As it would be if a refused request cleaned up the archive it had looked at.
RefuseRemoving(r) ==
    /\ imports[r].pc = "checking"
    /\ temp' = temp \ {imports[r].archive}
    /\ Goto(r, "done")
    /\ UNCHANGED <<now, archives, rows, disk, restarts, memory>>

\* A mapping is missing or not allowed to the caller.
RefuseMappings(r) ==
    /\ imports[r].pc = "checking"
    /\ Goto(r, "done")
    /\ UNCHANGED <<now, archives, temp, rows, disk, restarts, memory>>

\* As it would be if the second lookup were getBatchPreview again.
ConsumeKeeping(r) ==
    /\ imports[r].pc = "checking"
    /\ previews' = previews \ ExpiredPreviews
    /\ temp' = temp \ ExpiredPreviews
    /\ timers' = StopTimers(ExpiredPreviews)
    /\ Goto(r, IF imports[r].archive \in previews' THEN "consumed" ELSE "done")
    /\ UNCHANGED <<now, archives, expiresAt, tasks, nextTask, rows, disk, restarts>>

\* consumeBatchPreview: the preview is looked up again and taken.
ConsumePreview(r) ==
    LET a == imports[r].archive IN
    /\ imports[r].pc = "checking"
    /\ previews' = previews \ (ExpiredPreviews \cup {a})
    /\ temp' = temp \ ExpiredPreviews
    /\ timers' = StopTimers(ExpiredPreviews \cup {a})
    /\ Goto(r, IF a \in previews \ ExpiredPreviews THEN "consumed" ELSE "done")
    /\ UNCHANGED <<now, archives, expiresAt, tasks, nextTask, rows, disk, restarts>>

-----------------------------------------------------------------------------
(* Tasks, under batchTaskMu.                                               *)

LiveTasks == {t \in DOMAIN tasks : tasks[t].expiresAt > now}

KeepTasks(T) == [t \in T |-> tasks[t]]

\* updateBatchTask: an update of a task that is gone is dropped, any other
\* pushes its expiry back.
Update(t, status) ==
    tasks' = [s \in DOMAIN tasks |->
                IF s = t THEN [status EXCEPT !.expiresAt = now + TaskTTL]
                         ELSE tasks[s]]

Touch(t) == \/ t \in DOMAIN tasks /\ Update(t, tasks[t])
            \/ t \notin DOMAIN tasks /\ UNCHANGED tasks

SetStatus(t, status) ==
    \/ t \in DOMAIN tasks /\ Update(t, [tasks[t] EXCEPT !.status = status])
    \/ t \notin DOMAIN tasks /\ UNCHANGED tasks

Count(t, success, failed) ==
    \/ /\ t \in DOMAIN tasks
       /\ Update(t, [tasks[t] EXCEPT !.processed = @ + 1,
                                     !.success = @ + success,
                                     !.failed = @ + failed])
    \/ t \notin DOMAIN tasks /\ UNCHANGED tasks

\* As it would be without batchTaskSeq++.
CreateTaskSameId(r) ==
    LET a == archives[imports[r].archive] IN
    /\ imports[r].pc = "consumed"
    /\ tasks' = [t \in LiveTasks \cup {nextTask} |->
                    Status("processing", a.owner, a.programs, r)]
    /\ imports' = [imports EXCEPT ![r].pc = "opening", ![r].task = nextTask,
                                  ![r].k = 0]
    /\ UNCHANGED <<now, archives, temp, previews, expiresAt, timers, nextTask,
                   rows, disk, restarts>>

\* createBatchTask and the go statement after it.
CreateTask(r) ==
    LET a == archives[imports[r].archive] IN
    /\ imports[r].pc = "consumed"
    /\ tasks' = [t \in LiveTasks \cup {nextTask} |->
                    IF t = nextTask
                    THEN Status("processing", a.owner, a.programs, r)
                    ELSE tasks[t]]
    /\ nextTask' = nextTask + 1
    /\ imports' = [imports EXCEPT ![r].pc = "opening", ![r].task = nextTask,
                                  ![r].k = 0]
    /\ UNCHANGED <<now, archives, temp, previews, expiresAt, timers, rows, disk,
                   restarts>>

\* GetTaskStatus: whoever asks, and whatever the answer, the tasks that have
\* not been updated for TaskTTL are dropped, a running one like any other.
PollTask ==
    /\ LiveTasks # DOMAIN tasks
    /\ tasks' = KeepTasks(LiveTasks)
    /\ UNCHANGED <<now, archives, temp, previews, expiresAt, timers, imports,
                   nextTask, rows, disk, restarts>>

-----------------------------------------------------------------------------
(* runBatchImportTask, the goroutine of a started import.                  *)

unchanged == <<now, archives, previews, expiresAt, timers, nextTask, restarts>>

OpenArchive(r) ==
    /\ imports[r].pc = "opening"
    /\ Goto(r, "next")
    /\ UNCHANGED <<temp, tasks, rows, disk, unchanged>>

\* As it would be without the return after the failure.
OpenFailsGoingOn(r) ==
    /\ imports[r].pc = "opening"
    /\ SetStatus(imports[r].task, "failed")
    /\ Goto(r, "next")
    /\ UNCHANGED <<temp, rows, disk, unchanged>>

\* As it would be with the deferred removal set up after the archive is open.
OpenFailsLeaving(r) ==
    /\ imports[r].pc = "opening"
    /\ SetStatus(imports[r].task, "failed")
    /\ Goto(r, "done")
    /\ UNCHANGED <<temp, rows, disk, unchanged>>

\* The archive cannot be read or breaks its limits.
OpenFails(r) ==
    /\ imports[r].pc = "opening"
    /\ SetStatus(imports[r].task, "failed")
    /\ Goto(r, "leaving")
    /\ UNCHANGED <<temp, rows, disk, unchanged>>

Remaining(r) == imports[r].k < archives[imports[r].archive].programs

\* CurrentItem is set, importBatchProgramFiles called.
BeginProgram(r) ==
    /\ imports[r].pc = "next" /\ Remaining(r)
    /\ Touch(imports[r].task)
    /\ imports' = [imports EXCEPT ![r].pc = "writing", ![r].k = @ + 1]
    /\ UNCHANGED <<temp, rows, disk, unchanged>>

Item(r) == <<r, imports[r].k>>

\* Inside the transaction: the files of the program are written.
WriteFiles(r) ==
    /\ imports[r].pc = "writing"
    /\ disk' = disk \cup {Item(r)}
    /\ Goto(r, "committing")
    /\ UNCHANGED <<temp, tasks, rows, unchanged>>

\* As it would be with the deferred removal alone, which does nothing once a
\* file was written.
RefuseKeepingFiles(r) ==
    /\ imports[r].pc \in {"writing", "committing"}
    /\ Goto(r, "refused")
    /\ UNCHANGED <<temp, tasks, rows, disk, unchanged>>

\* An unknown line or model, two files of one name, a file missing in the
\* archive, a disk or a database error: rolled back, the directory removed.
RefuseProgram(r) ==
    /\ imports[r].pc \in {"writing", "committing"}
    /\ disk' = disk \ {Item(r)}
    /\ Goto(r, "refused")
    /\ UNCHANGED <<temp, tasks, rows, unchanged>>

CommitProgram(r) ==
    /\ imports[r].pc = "committing"
    /\ rows' = rows \cup {Item(r)}
    /\ Goto(r, "committed")
    /\ UNCHANGED <<temp, tasks, disk, unchanged>>

\* The deferred call of importBatchProgramFiles: createdFilePaths has just been
\* set to nil, so the list is empty and the directory of the program goes.
DeferredRemoval(r) ==
    /\ imports[r].pc = "committed"
    /\ disk' = disk \ {Item(r)}
    /\ Goto(r, "succeeded")
    /\ UNCHANGED <<temp, tasks, rows, unchanged>>

CountProgram(r) ==
    /\ \/ imports[r].pc = "succeeded" /\ Count(imports[r].task, 1, 0)
       \/ imports[r].pc = "refused" /\ Count(imports[r].task, 0, 1)
    /\ Goto(r, "next")
    /\ UNCHANGED <<temp, rows, disk, unchanged>>

\* As it would be without the test for an import that failed altogether.
ConcludeCompleted(r) ==
    /\ imports[r].pc = "next" /\ ~Remaining(r)
    /\ tasks' = KeepTasks(LiveTasks)
    /\ Goto(r, IF imports[r].task \in LiveTasks THEN "completing" ELSE "leaving")
    /\ UNCHANGED <<temp, rows, disk, unchanged>>

\* snapshotBatchTask after the last program: a task that is gone ends the work
\* without a status.
Conclude(r) ==
    LET t == imports[r].task IN
    /\ imports[r].pc = "next" /\ ~Remaining(r)
    /\ tasks' = KeepTasks(LiveTasks)
    /\ Goto(r, IF t \notin LiveTasks THEN "leaving"
               ELSE IF tasks[t].failed > 0 /\ tasks[t].success = 0
                    THEN "failing" ELSE "completing")
    /\ UNCHANGED <<temp, rows, disk, unchanged>>

\* As it would be if only failures were reported at the end.
FinishFailures(r) ==
    /\ \/ imports[r].pc = "failing" /\ SetStatus(imports[r].task, "failed")
       \/ imports[r].pc = "completing" /\ UNCHANGED tasks
    /\ Goto(r, "leaving")
    /\ UNCHANGED <<temp, rows, disk, unchanged>>

Finish(r) ==
    /\ \/ imports[r].pc = "failing" /\ SetStatus(imports[r].task, "failed")
       \/ imports[r].pc = "completing" /\ SetStatus(imports[r].task, "completed")
    /\ Goto(r, "leaving")
    /\ UNCHANGED <<temp, rows, disk, unchanged>>

\* The deferred call of runBatchImportTask.
RemoveTempDir(r) ==
    /\ imports[r].pc = "leaving"
    /\ temp' = temp \ {imports[r].archive}
    /\ Goto(r, "done")
    /\ UNCHANGED <<tasks, rows, disk, unchanged>>

-----------------------------------------------------------------------------
\* The process ends and starts again: memory is lost, the database rolls back
\* what was not committed, the directories stay.
Restart ==
    /\ restarts < MaxRestarts
    /\ restarts' = restarts + 1
    /\ archives' = [a \in Archives |->
            IF archives[a].state = "none" THEN archives[a]
                                          ELSE [archives[a] EXCEPT !.state = "gone"]]
    /\ previews' = {}
    /\ timers' = [a \in Archives |-> "none"]
    /\ imports' = [r \in Requests |->
            IF imports[r].pc \in {"idle", "done", "lost"} THEN imports[r]
                                       ELSE [imports[r] EXCEPT !.pc = "lost"]]
    /\ tasks' = KeepTasks({})
    /\ nextTask' = 1
    /\ UNCHANGED <<now, temp, expiresAt, rows, disk>>

ArchiveStep(a) ==
    \/ \E u \in Users, n \in 0..MaxPrograms : ReceiveArchive(a, u, n)
    \/ RefuseArchive(a) \/ CreatePreview(a)
    \/ FireTimer(a) \/ ExpirePreview(a) \/ RemoveExpired(a)

RequestStep(r) ==
    RefuseMappings(r) \/ ConsumePreview(r) \/ CreateTask(r)

ImportStep(r) ==
    \/ OpenArchive(r) \/ OpenFails(r)
    \/ BeginProgram(r) \/ WriteFiles(r) \/ RefuseProgram(r)
    \/ CommitProgram(r) \/ DeferredRemoval(r) \/ CountProgram(r)
    \/ Conclude(r) \/ Finish(r) \/ RemoveTempDir(r)

Next ==
    \/ Tick \/ PollTask \/ Restart
    \/ \E a \in Archives : ArchiveStep(a)
    \/ \E r \in Requests : RequestStep(r) \/ ImportStep(r)
    \/ \E r \in Requests, u \in Users, a \in Archives : GetPreview(r, u, a)

\* Time passes; a handler, a timer or a goroutine that can go on goes on.
Fairness ==
    /\ WF_vars(Tick)
    /\ \A a \in Archives :
          /\ WF_vars(RefuseArchive(a) \/ CreatePreview(a))
          /\ WF_vars(FireTimer(a)) /\ WF_vars(ExpirePreview(a))
          /\ WF_vars(RemoveExpired(a))
    /\ \A r \in Requests : WF_vars(RequestStep(r)) /\ WF_vars(ImportStep(r))

Spec == Init /\ [][Next]_vars /\ Fairness

-----------------------------------------------------------------------------
TypeInv ==
    /\ now \in Nat /\ restarts \in 0..MaxRestarts
    /\ archives \in [Archives -> [state : {"none", "receiving", "previewed", "gone"},
                                  owner : Users,
                                  programs : 0..MaxPrograms]]
    /\ temp \subseteq Archives /\ previews \subseteq Archives
    /\ expiresAt \in [Archives -> Nat]
    /\ timers \in [Archives -> {"none", "armed", "fired", "removing", "stopped"}]
    /\ imports \in [Requests -> [pc : RequestPC,
                                 archive : Archives,
                                 task : Nat, k : 0..MaxPrograms]]
    /\ nextTask \in Nat \ {0}
    /\ DOMAIN tasks \subseteq 1..(nextTask - 1)
    /\ \A t \in DOMAIN tasks :
          tasks[t] \in [status : {"processing", "completed", "failed"},
                        owner : Users, total : Nat,
                        processed : Nat, success : Nat, failed : Nat,
                        expiresAt : Nat, request : Requests]
    /\ rows \subseteq Requests \X (0..MaxPrograms)
    /\ disk \subseteq Requests \X (0..MaxPrograms)

\* The archive of an import in progress stays on disk until the import removes
\* it itself: no expiry, however late its timer gets the lock, takes it away
\* (consumeBatchPreview against expireBatchPreview and the clean-up).
ArchiveKept ==
    \A r \in Requests :
        imports[r].pc \in {"consumed"} \cup Working => imports[r].archive \in temp

\* Request r got hold of its preview.
Started(r) == imports[r].pc = "consumed" \/ imports[r].task # 0

\* An archive is imported at most once, however many requests passed the first
\* lookup of its preview (getBatchPreview before consumeBatchPreview).
ImportedOnce ==
    \A r, s \in Requests :
        r # s /\ Started(r) /\ Started(s) => imports[r].archive # imports[s].archive

\* Committed programs of request r.
Committed(r) == {k \in 1..MaxPrograms : <<r, k>> \in rows}

\* What a task says is what happened: it counts the programs that were
\* committed, except one that is committed and not counted yet; "completed" is
\* said after the last program only, and never when all of them failed.
TaskTruth ==
    \A t \in DOMAIN tasks :
        LET s == tasks[t]
            r == s.request
            uncounted == IF imports[r].pc \in {"committed", "succeeded"} THEN 1 ELSE 0 IN
        /\ s.processed = s.success + s.failed
        /\ s.success + uncounted = Cardinality(Committed(r))
        /\ s.status = "completed" =>
              s.processed = s.total /\ (s.failed > 0 => s.success > 0)

\* A program that could not be imported leaves no directory behind; only the
\* program being imported, a committed one, and one a restart interrupted have
\* theirs (the error path of importBatchProgramFiles).
NothingLeftBehind ==
    \A item \in disk :
        \/ item \in rows
        \/ imports[item[1]].pc \in {"committing", "lost"} /\ imports[item[1]].k = item[2]

\* A task that has ended keeps its answer for as long as it can be asked for:
\* an end is never taken back nor turned into the other one.
EndIsFinal ==
    [][\A t \in DOMAIN tasks :
         /\ tasks[t].status # "processing"
         /\ t \in DOMAIN tasks' /\ restarts' = restarts
         => tasks'[t].status = tasks[t].status]_vars

\* Every task ends or disappears: whoever polls does not wait for ever.
TaskEnds ==
    \A t \in 1..Cardinality(Requests) :
        (t \in DOMAIN tasks /\ tasks[t].status = "processing")
        ~> ~(t \in DOMAIN tasks /\ tasks[t].status = "processing")

\* Every temporary directory is removed, by its import, its timer, or the
\* handler that could not use it; stated for a server that is not restarted,
\* a restart leaves the directories it finds.
TempCleaned == \A a \in Archives : (a \in temp) ~> (a \notin temp)

\* "ProgramFile records the physical path of an uploaded file": the files of a
\* program that was imported are where its rows say they are.
ImportedFilesStored ==
    \A item \in rows :
        imports[item[1]].pc = "done" => item \in disk

-----------------------------------------------------------------------------
(* Why ArchiveKept and ImportedOnce hold: who may remove a directory.      *)

Holds(r) == imports[r].pc \in {"consumed"} \cup Working

\* An archive being received and a preview in the map have their directory; a
\* timer removes only the directory of a preview it took out of the map.
PreviewInv ==
    \A a \in Archives :
        /\ archives[a].state = "receiving" => a \in temp
        /\ a \in previews => /\ archives[a].state = "previewed" /\ a \in temp
                             /\ timers[a] \in {"armed", "fired"}
        /\ timers[a] = "removing" => archives[a].state = "previewed"

\* A started import has taken its preview out of the map for good; while it
\* works nothing else removes the directory.
HeldInv ==
    \A r \in Requests :
        /\ Holds(r) => Started(r)
        /\ imports[r].pc = "idle" => ~Started(r)
        /\ imports[r].pc = "checking" \/ Started(r) =>
              archives[imports[r].archive].state \in {"previewed", "gone"}
        /\ Started(r) => imports[r].archive \notin previews
        /\ Holds(r) => /\ archives[imports[r].archive].state = "previewed"
                       /\ timers[imports[r].archive] # "removing"

ArchiveInv == PreviewInv /\ HeldInv /\ ArchiveKept /\ ImportedOnce

=============================================================================
