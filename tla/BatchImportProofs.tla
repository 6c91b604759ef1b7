-------------------------- MODULE BatchImportProofs --------------------------
(***************************************************************************)
(* Proofs about BatchImport: type correctness; that an archive is imported *)
(* at most once and stays on disk while it is; that failed programs leave  *)
(* nothing behind; that tasks tell the truth and their ends are final.     *)
(*                                                                         *)
(* ArchiveKept and ImportedOnce are not inductive.  What makes them so is  *)
(* who may remove a directory: PreviewInv says of a preview in the map     *)
(* that its directory is there and its timer has not begun to remove it,   *)
(* HeldInv of an archive an import holds that no preview of it is in the   *)
(* map and its timer is not removing it, and ImportedOnce that no other    *)
(* import will.                                                            *)
(*                                                                         *)
(* Nor are TaskTruth and EndIsFinal.  TaskInv says whose task a task is:   *)
(* of one import, which counts in it what it has begun, and which sets its *)
(* end as the last thing it says.                                          *)
(***************************************************************************)
EXTENDS BatchImport, FiniteSetTheorems, TLAPS

-----------------------------------------------------------------------------
(* Type correctness.                                                       *)

ArchiveType == [state : {"none", "receiving", "previewed", "gone"},
                owner : Users, programs : 0..MaxPrograms]
ImportType == [pc : RequestPC, archive : Archives,
               task : Nat, k : 0..MaxPrograms]
TaskType == [status : {"processing", "completed", "failed"},
             owner : Users, total : Nat,
             processed : Nat, success : Nat, failed : Nat,
             expiresAt : Nat, request : Requests]
TasksOK == /\ DOMAIN tasks \subseteq 1..(nextTask - 1)
           /\ \A t \in DOMAIN tasks : tasks[t] \in TaskType

\* The state the program starts in has the right types.
LEMMA InitType == Init => TypeInv
<1> SUFFICES ASSUME Init PROVE TypeInv
  OBVIOUS
<1> USE ConstantsAssumption DEF Init
<1>1. archives \in [Archives -> ArchiveType]
  <2>1. NoArchive \in ArchiveType
    BY DEF NoArchive, ArchiveType
  <2> QED BY <2>1
<1>2. imports \in [Requests -> ImportType]
  <2>1. NoImport \in ImportType
    BY DEF NoImport, ImportType, RequestPC
  <2> QED BY <2>1
<1> QED BY <1>1, <1>2 DEF TypeInv, ArchiveType, ImportType

\* Moving a request to another place keeps the type of imports.
LEMMA GotoType ==
    ASSUME TypeInv, NEW r \in Requests, NEW pc \in RequestPC, Goto(r, pc)
    PROVE  imports' \in [Requests -> ImportType]
  BY DEF TypeInv, Goto, ImportType

\* Stopping timers keeps their type.
LEMMA StopType ==
    ASSUME TypeInv, NEW A
    PROVE  StopTimers(A) \in
             [Archives -> {"none", "armed", "fired", "removing", "stopped"}]
  BY DEF TypeInv, StopTimers

\* An update of a task keeps the types of the tasks.
LEMMA UpdateType ==
    ASSUME TypeInv, NEW t \in DOMAIN tasks, NEW s \in TaskType,
           Update(t, s), nextTask' = nextTask
    PROVE  TasksOK'
<1>1. now + TaskTTL \in Nat
  BY ConstantsAssumption DEF TypeInv
<1>2. [s EXCEPT !.expiresAt = now + TaskTTL] \in TaskType
  BY <1>1 DEF TaskType
<1> QED BY <1>2 DEF Update, TypeInv, TasksOK, TaskType

\* So do the updates of the import goroutine, whether the task is there or not.
LEMMA TouchType ==
    ASSUME TypeInv, NEW t, Touch(t), nextTask' = nextTask
    PROVE  TasksOK'
<1>1. CASE t \in DOMAIN tasks /\ Update(t, tasks[t])
  BY <1>1, UpdateType DEF TypeInv, TaskType
<1>2. CASE UNCHANGED tasks
  BY <1>2 DEF TypeInv, TasksOK, TaskType
<1> QED BY <1>1, <1>2 DEF Touch

\* The same for a new status.
LEMMA SetStatusType ==
    ASSUME TypeInv, NEW t, NEW status \in {"processing", "completed", "failed"},
           SetStatus(t, status), nextTask' = nextTask
    PROVE  TasksOK'
<1>1. CASE t \in DOMAIN tasks /\ Update(t, [tasks[t] EXCEPT !.status = status])
  <2>1. tasks[t] \in TaskType
    BY <1>1 DEF TypeInv, TaskType
  <2>2. [tasks[t] EXCEPT !.status = status] \in TaskType
    BY <2>1 DEF TaskType
  <2> QED BY <1>1, <2>2, UpdateType
<1>2. CASE UNCHANGED tasks
  BY <1>2 DEF TypeInv, TasksOK, TaskType
<1> QED BY <1>1, <1>2 DEF SetStatus

\* The same for a program counted.
LEMMA CountType ==
    ASSUME TypeInv, NEW t, NEW n \in Nat, NEW m \in Nat,
           Count(t, n, m), nextTask' = nextTask
    PROVE  TasksOK'
<1>1. CASE UNCHANGED tasks
  BY <1>1 DEF TypeInv, TasksOK, TaskType
<1>2. CASE t \in DOMAIN tasks /\ ~UNCHANGED tasks
  <2> DEFINE s == [tasks[t] EXCEPT !.processed = @ + 1,
                                   !.success = @ + n, !.failed = @ + m]
  <2>1. tasks[t] \in TaskType
    BY <1>2 DEF TypeInv, TaskType
  <2> DEFINE p == tasks[t].processed + 1
             q == tasks[t].success + n
             f == tasks[t].failed + m
  <2>a. p \in Nat /\ q \in Nat /\ f \in Nat
    BY <2>1 DEF TaskType
  <2>b. s = [tasks[t] EXCEPT !.processed = p, !.success = q, !.failed = f]
    OBVIOUS
  <2>2. s \in TaskType
    <3> HIDE DEF s, p, q, f
    <3> QED BY <2>1, <2>a, <2>b DEF TaskType
  <2>3. Update(t, s)
    BY <1>2 DEF Count
  <2> HIDE DEF s
  <2> QED BY <1>2, <2>2, <2>3, UpdateType
<1> QED BY <1>1, <1>2 DEF Count

\* So does dropping tasks.
LEMMA KeepType ==
    ASSUME TypeInv, NEW T \in SUBSET DOMAIN tasks, tasks' = KeepTasks(T),
           nextTask' = nextTask
    PROVE  TasksOK'
  BY DEF TypeInv, TasksOK, TaskType, KeepTasks

\* Every step keeps the types.
LEMMA TypeStep == TypeInv /\ [Next]_vars => TypeInv'
<1> SUFFICES ASSUME TypeInv, [Next]_vars PROVE TypeInv'
  OBVIOUS
<1> USE ConstantsAssumption
<1> DEFINE TimerType == [Archives -> {"none", "armed", "fired", "removing", "stopped"}]
<1>0. /\ now \in Nat /\ archives \in [Archives -> ArchiveType]
      /\ imports \in [Requests -> ImportType] /\ timers \in TimerType
      /\ nextTask \in Nat \ {0} /\ TasksOK
  BY DEF TypeInv, ArchiveType, ImportType, TasksOK, TaskType
<1>q. ASSUME now' \in Nat, restarts' \in 0..MaxRestarts,
             archives' \in [Archives -> ArchiveType],
             temp' \subseteq Archives, previews' \subseteq Archives,
             expiresAt' \in [Archives -> Nat], timers' \in TimerType,
             imports' \in [Requests -> ImportType],
             nextTask' \in Nat \ {0}, TasksOK',
             rows' \subseteq Requests \X (0..MaxPrograms),
             disk' \subseteq Requests \X (0..MaxPrograms)
      PROVE  TypeInv'
  BY <1>q DEF TypeInv, ArchiveType, ImportType, TasksOK, TaskType
<1>u. ASSUME UNCHANGED <<tasks, nextTask>> PROVE TasksOK'
  BY <1>u, <1>0 DEF TasksOK
<1>1. CASE UNCHANGED vars
  BY <1>1, <1>u, <1>q, <1>0 DEF vars, TypeInv
<1>2. CASE Tick
  BY <1>2, <1>u, <1>q, <1>0 DEF Tick, memory, TypeInv
<1>3. CASE PollTask
  <2>1. TasksOK'
    BY <1>3, KeepType DEF PollTask, LiveTasks
  <2> QED BY <1>3, <2>1, <1>q, <1>0 DEF PollTask, TypeInv
<1>4. CASE Restart
  <2>1. TasksOK'
    BY <1>4, <1>0 DEF Restart, KeepTasks, TasksOK
  <2>2. archives' \in [Archives -> ArchiveType]
    BY <1>4, <1>0 DEF Restart, ArchiveType
  <2>3. imports' \in [Requests -> ImportType]
    BY <1>4, <1>0 DEF Restart, ImportType, RequestPC
  <2>4. restarts' \in 0..MaxRestarts
    BY <1>4 DEF Restart, TypeInv
  <2> QED BY <1>4, <2>1, <2>2, <2>3, <2>4, <1>q, <1>0 DEF Restart, TypeInv
<1>5. ASSUME NEW a \in Archives, ArchiveStep(a) PROVE TypeInv'
  <2>1. CASE \E u \in Users, n \in 0..MaxPrograms : ReceiveArchive(a, u, n)
    <3>1. PICK u \in Users, n \in 0..MaxPrograms : ReceiveArchive(a, u, n)
      BY <2>1
    <3>2. archives' \in [Archives -> ArchiveType]
      BY <3>1, <1>0 DEF ReceiveArchive, ArchiveType
    <3> QED BY <3>1, <3>2, <1>u, <1>q, <1>0 DEF ReceiveArchive, memory, TypeInv
  <2>2. CASE RefuseArchive(a)
    <3>1. archives' \in [Archives -> ArchiveType]
      BY <2>2, <1>0 DEF RefuseArchive, ArchiveType
    <3> QED BY <2>2, <3>1, <1>u, <1>q, <1>0 DEF RefuseArchive, memory, TypeInv
  <2>3. CASE CreatePreview(a)
    <3>1. archives' \in [Archives -> ArchiveType]
      BY <2>3, <1>0 DEF CreatePreview, ArchiveType
    <3>2. timers' \in TimerType
      BY <2>3, StopType DEF CreatePreview
    <3>3. expiresAt' \in [Archives -> Nat]
      BY <2>3 DEF CreatePreview, TypeInv
    <3> QED BY <2>3, <3>1, <3>2, <3>3, <1>u, <1>q, <1>0 DEF CreatePreview, TypeInv
  <2>4. CASE FireTimer(a)
    BY <2>4, <1>u, <1>q, <1>0 DEF FireTimer, TypeInv
  <2>5. CASE ExpirePreview(a)
    BY <2>5, <1>u, <1>q, <1>0 DEF ExpirePreview, TypeInv
  <2>6. CASE RemoveExpired(a)
    BY <2>6, <1>u, <1>q, <1>0 DEF RemoveExpired, TypeInv
  <2> QED BY <1>5, <2>1, <2>2, <2>3, <2>4, <2>5, <2>6 DEF ArchiveStep
<1>6. ASSUME NEW r \in Requests, NEW u \in Users, NEW a \in Archives, GetPreview(r, u, a)
      PROVE  TypeInv'
  <2>1. imports' \in [Requests -> ImportType]
    BY <1>6, <1>0 DEF GetPreview, ImportType, RequestPC
  <2>2. timers' \in TimerType
    BY <1>6, StopType DEF GetPreview
  <2> QED BY <1>6, <2>1, <2>2, <1>u, <1>q, <1>0 DEF GetPreview, TypeInv
<1>7. ASSUME NEW r \in Requests, RequestStep(r) PROVE TypeInv'
  <2>1. CASE RefuseMappings(r)
    <3>1. imports' \in [Requests -> ImportType]
      BY <2>1, GotoType DEF RefuseMappings, RequestPC
    <3> QED BY <2>1, <3>1, <1>u, <1>q, <1>0 DEF RefuseMappings, memory, TypeInv
  <2>2. CASE ConsumePreview(r)
    <3>1. imports' \in [Requests -> ImportType]
      BY <2>2, GotoType DEF ConsumePreview, RequestPC
    <3>2. timers' \in TimerType
      BY <2>2, StopType DEF ConsumePreview
    <3> QED BY <2>2, <3>1, <3>2, <1>u, <1>q, <1>0 DEF ConsumePreview, TypeInv
  <2>3. CASE CreateTask(r)
    <3> DEFINE a == archives[imports[r].archive]
               new == Status("processing", a.owner, a.programs, r)
    <3>0. imports[r].archive \in Archives
      BY <1>0 DEF ImportType
    <3>1. new \in TaskType
      <4>1. a \in ArchiveType
        BY <3>0, <1>0
      <4>2. now + TaskTTL \in Nat
        BY <1>0
      <4>3. a.owner \in Users /\ a.programs \in Nat
        BY <4>1 DEF ArchiveType
      <4> HIDE DEF a
      <4> QED BY <4>2, <4>3 DEF Status, TaskType
    <3>2. TasksOK'
      <4>1. tasks' = [t \in LiveTasks \cup {nextTask} |->
                        IF t = nextTask THEN new ELSE tasks[t]]
        BY <2>3 DEF CreateTask
      <4>2. nextTask' = nextTask + 1
        BY <2>3 DEF CreateTask
      <4> HIDE DEF new
      <4> QED BY <4>1, <4>2, <3>1, <1>0 DEF TasksOK, LiveTasks
    <3>3. imports' \in [Requests -> ImportType]
      <4>1. imports' = [imports EXCEPT ![r] =
                [imports[r] EXCEPT !.pc = "opening", !.task = nextTask, !.k = 0]]
        BY <2>3, <1>0 DEF CreateTask
      <4>2. [imports[r] EXCEPT !.pc = "opening", !.task = nextTask, !.k = 0] \in ImportType
        <5>1. "opening" \in RequestPC /\ 0 \in 0..MaxPrograms /\ nextTask \in Nat
          BY <1>0 DEF RequestPC, Working
        <5>2. imports[r] \in ImportType
          BY <1>0
        <5> QED BY <5>1, <5>2 DEF ImportType
      <4> QED BY <4>1, <4>2, <1>0
    <3>4. nextTask' \in Nat \ {0}
      BY <2>3, <1>0 DEF CreateTask
    <3> QED BY <2>3, <3>2, <3>3, <3>4, <1>q, <1>0 DEF CreateTask, TypeInv
  <2> QED BY <1>7, <2>1, <2>2, <2>3 DEF RequestStep
<1>8. ASSUME NEW r \in Requests, ImportStep(r) PROVE TypeInv'
  <2> USE DEF unchanged
  <2>t. ASSUME UNCHANGED <<temp, unchanged>>, TasksOK',
               imports' \in [Requests -> ImportType],
               rows' \subseteq Requests \X (0..MaxPrograms),
               disk' \subseteq Requests \X (0..MaxPrograms)
        PROVE  TypeInv'
    BY <2>t, <1>q, <1>0 DEF TypeInv
  <2>g. ASSUME NEW pc \in RequestPC, Goto(r, pc)
        PROVE  imports' \in [Requests -> ImportType]
    BY <2>g, GotoType
  <2>p. /\ "next" \in RequestPC /\ "leaving" \in RequestPC /\ "done" \in RequestPC
        /\ "committing" \in RequestPC /\ "refused" \in RequestPC
        /\ "committed" \in RequestPC /\ "succeeded" \in RequestPC
        /\ "failing" \in RequestPC /\ "completing" \in RequestPC
    BY DEF RequestPC, Working
  <2>1. CASE OpenArchive(r)
    BY <2>1, <2>g, <2>p, <2>t, <1>u DEF OpenArchive, TypeInv
  <2>2. CASE OpenFails(r)
    <3>1. TasksOK'
      BY <2>2, SetStatusType DEF OpenFails
    <3> QED BY <2>2, <3>1, <2>g, <2>p, <2>t DEF OpenFails, TypeInv
  <2>3. CASE BeginProgram(r)
    <3>1. TasksOK'
      BY <2>3, TouchType DEF BeginProgram
    <3>2. imports' \in [Requests -> ImportType]
      <4>1. imports[r].archive \in Archives
        BY <1>0 DEF ImportType
      <4>2. imports[r].k + 1 \in 0..MaxPrograms
        BY <2>3, <4>1, <1>0 DEF BeginProgram, Remaining, ImportType, ArchiveType
      <4>3. imports' = [imports EXCEPT ![r] =
                          [imports[r] EXCEPT !.pc = "writing", !.k = imports[r].k + 1]]
        BY <2>3, <1>0 DEF BeginProgram
      <4> QED BY <4>2, <4>3, <1>0 DEF ImportType, RequestPC, Working
    <3> QED BY <2>3, <3>1, <3>2, <2>t DEF BeginProgram, TypeInv
  <2>4. CASE WriteFiles(r)
    <3>1. Item(r) \in Requests \X (0..MaxPrograms)
      BY <1>0 DEF Item, ImportType
    <3>2. disk' \subseteq Requests \X (0..MaxPrograms)
      BY <2>4, <3>1 DEF WriteFiles, TypeInv
    <3> QED BY <2>4, <3>2, <1>u, <2>g, <2>p, <2>t DEF WriteFiles, TypeInv
  <2>i. Item(r) \in Requests \X (0..MaxPrograms)
    BY <1>0 DEF Item, ImportType
  <2>5. CASE RefuseProgram(r)
    BY <2>5, <2>g, <2>p, <2>t, <1>u DEF RefuseProgram, TypeInv
  <2>6. CASE CommitProgram(r)
    <3>1. rows' \subseteq Requests \X (0..MaxPrograms)
      BY <2>6, <2>i DEF CommitProgram, TypeInv
    <3> QED BY <2>6, <3>1, <2>g, <2>p, <2>t, <1>u DEF CommitProgram, TypeInv
  <2>7. CASE DeferredRemoval(r)
    BY <2>7, <2>g, <2>p, <2>t, <1>u DEF DeferredRemoval, TypeInv
  <2>8. CASE CountProgram(r)
    <3>1. TasksOK'
      BY <2>8, CountType DEF CountProgram
    <3> QED BY <2>8, <3>1, <2>g, <2>p, <2>t DEF CountProgram, TypeInv
  <2>9. CASE Conclude(r)
    <3>1. TasksOK'
      BY <2>9, KeepType DEF Conclude, LiveTasks
    <3>2. imports' \in [Requests -> ImportType]
      <4> DEFINE pc == IF imports[r].task \notin LiveTasks THEN "leaving"
                       ELSE IF tasks[imports[r].task].failed > 0
                               /\ tasks[imports[r].task].success = 0
                            THEN "failing" ELSE "completing"
      <4>1. Goto(r, pc)
        BY <2>9 DEF Conclude
      <4>2. pc \in RequestPC
        BY <2>p
      <4> HIDE DEF pc
      <4> QED BY <4>1, <4>2, <2>g
    <3> QED BY <2>9, <3>1, <3>2, <2>t DEF Conclude, TypeInv
  <2>10. CASE Finish(r)
    <3>1. TasksOK'
      BY <2>10, SetStatusType DEF Finish
    <3> QED BY <2>10, <3>1, <2>g, <2>p, <2>t DEF Finish, TypeInv
  <2>11. CASE RemoveTempDir(r)
    <3>1. imports' \in [Requests -> ImportType]
      BY <2>11, <2>g, <2>p DEF RemoveTempDir
    <3> QED BY <2>11, <3>1, <1>u, <1>q, <1>0 DEF RemoveTempDir, TypeInv
  <2> QED BY <1>8, <2>1, <2>2, <2>3, <2>4, <2>5, <2>6, <2>7, <2>8, <2>9, <2>10,
             <2>11 DEF ImportStep
<1> QED BY <1>1, <1>2, <1>3, <1>4, <1>5, <1>6, <1>7, <1>8 DEF Next

\* Every variable of BatchImport has its type in every reachable state.
THEOREM TypeCorrect == Spec => []TypeInv
<1>1. Init => TypeInv
  BY InitType
<1>2. TypeInv /\ [Next]_vars => TypeInv'
  BY TypeStep
<1> QED BY <1>1, <1>2, PTL DEF Spec

-----------------------------------------------------------------------------
\* The part of the types this argument needs.
Shape == /\ archives \in [Archives -> ArchiveType]
         /\ imports \in [Requests -> ImportType]
         /\ timers \in [Archives -> {"none", "armed", "fired", "removing", "stopped"}]
         /\ temp \subseteq Archives /\ previews \subseteq Archives
         /\ nextTask \in Nat \ {0}

\* It is part of TypeInv.
LEMMA TypeShape == TypeInv => Shape
  BY DEF TypeInv, Shape, ArchiveType, ImportType

\* Before anything was uploaded.
LEMMA InitArchives == Init => ArchiveInv
  BY DEF Init, ArchiveInv, PreviewInv, HeldInv, ArchiveKept, ImportedOnce, Holds,
         Started, NoArchive, NoImport, Working

\* The invariant reads the state of the archives, the directories, the map, the
\* timers, and of a request its archive, whether it checks, started or holds.
LEMMA ArchivesStutter ==
    ASSUME ArchiveInv, Shape, Shape',
           UNCHANGED <<archives, previews, timers>>, temp \subseteq temp',
           \A r \in Requests :
              /\ imports'[r].archive = imports[r].archive
              /\ imports'[r].pc \in {"idle", "checking"} => imports'[r].pc = imports[r].pc
              /\ Started(r)' => Started(r)
              /\ Holds(r)' => Holds(r) /\ Started(r)'
    PROVE  ArchiveInv'
<1>1. PreviewInv'
  BY DEF ArchiveInv, PreviewInv
<1>2. HeldInv'
  BY DEF ArchiveInv, HeldInv
<1>3. ArchiveKept'
  BY DEF ArchiveInv, ArchiveKept, Holds
<1>4. ImportedOnce'
  BY DEF ArchiveInv, ImportedOnce
<1> QED BY <1>1, <1>2, <1>3, <1>4 DEF ArchiveInv

\* One step of an import that works and goes on working, or ends.
LEMMA WorkingStutter ==
    ASSUME ArchiveInv, Shape, Shape', NEW r \in Requests,
           UNCHANGED <<archives, previews, timers, temp>>,
           imports[r].pc \in Working, imports'[r].pc \in Working,
           imports'[r].archive = imports[r].archive,
           imports'[r].task = imports[r].task,
           \A s \in Requests \ {r} : imports'[s] = imports[s]
    PROVE  ArchiveInv'
<1>1. Holds(r) /\ Started(r) /\ imports[r].task # 0
  BY DEF ArchiveInv, HeldInv, Holds, Started, Working
<1>2. Started(r)' /\ imports'[r].pc \notin {"idle", "checking"}
  BY <1>1 DEF Started, Working
<1>3. \A s \in Requests \ {r} : /\ Started(s)' <=> Started(s)
                                /\ Holds(s)' <=> Holds(s)
                                /\ Holds(s) => Started(s)
  BY DEF Started, Holds, ArchiveInv, HeldInv
<1>4. \A s \in Requests :
         /\ imports'[s].archive = imports[s].archive
         /\ imports'[s].pc \in {"idle", "checking"} => imports'[s].pc = imports[s].pc
         /\ Started(s)' => Started(s)
         /\ Holds(s)' => Holds(s) /\ Started(s)'
  BY <1>1, <1>2, <1>3
<1> QED BY <1>4, ArchivesStutter

\* A step of an import keeps the invariant.
LEMMA ImportArchives ==
    ASSUME ArchiveInv, Shape, Shape', NEW r \in Requests, ImportStep(r)
    PROVE  ArchiveInv'
<1>w. ASSUME NEW pc \in Working, Goto(r, pc), imports[r].pc \in Working,
             UNCHANGED <<temp, unchanged>>
      PROVE  ArchiveInv'
  BY <1>w, WorkingStutter DEF Goto, Shape, ImportType, unchanged
<1>p. {"opening", "next", "writing", "committing", "committed", "succeeded",
       "refused", "failing", "completing", "leaving"} = Working
  BY DEF Working
<1>1. CASE OpenArchive(r)
  BY <1>1, <1>w, <1>p DEF OpenArchive
<1>2. CASE OpenFails(r)
  BY <1>2, <1>w, <1>p DEF OpenFails
<1>3. CASE BeginProgram(r)
  BY <1>3, <1>p, WorkingStutter DEF BeginProgram, Shape, ImportType, unchanged
<1>4. CASE WriteFiles(r)
  BY <1>4, <1>w, <1>p DEF WriteFiles
<1>5. CASE RefuseProgram(r)
  BY <1>5, <1>w, <1>p DEF RefuseProgram
<1>6. CASE CommitProgram(r)
  BY <1>6, <1>w, <1>p DEF CommitProgram
<1>7. CASE DeferredRemoval(r)
  BY <1>7, <1>w, <1>p DEF DeferredRemoval
<1>8. CASE CountProgram(r)
  BY <1>8, <1>w, <1>p DEF CountProgram
<1>9. CASE Conclude(r)
  <2>1. PICK pc \in {"leaving", "failing", "completing"} : Goto(r, pc)
    BY <1>9 DEF Conclude
  <2> QED BY <1>9, <2>1, <1>w, <1>p DEF Conclude
<1>10. CASE Finish(r)
  BY <1>10, <1>w, <1>p DEF Finish
<1>11. CASE RemoveTempDir(r)
  <2>1. /\ imports[r].pc = "leaving" /\ temp' = temp \ {imports[r].archive}
        /\ imports' = [imports EXCEPT ![r].pc = "done"]
        /\ UNCHANGED <<archives, previews, timers>>
    BY <1>11 DEF RemoveTempDir, Goto, unchanged
  <2>2. Holds(r) /\ Started(r) /\ archives[imports[r].archive].state = "previewed"
        /\ imports[r].archive \notin previews
    BY <2>1 DEF Holds, Working, ArchiveInv, HeldInv
  <2>3. /\ imports'[r].archive = imports[r].archive
        /\ imports'[r].pc = "done" /\ imports'[r].task = imports[r].task
        /\ \A s \in Requests \ {r} : imports'[s] = imports[s]
    BY <2>1 DEF Shape, ImportType
  <2>4. ~Holds(r)' /\ (Started(r)' => Started(r))
    BY <2>2, <2>3 DEF Holds, Working, Started
  <2>5. \A s \in Requests \ {r} : (Holds(s)' <=> Holds(s)) /\ (Started(s)' <=> Started(s))
    BY <2>3 DEF Holds, Started
  <2>6. PreviewInv'
    BY <2>1, <2>2 DEF ArchiveInv, PreviewInv
  <2>7. HeldInv'
    BY <2>1, <2>2, <2>3, <2>4, <2>5 DEF ArchiveInv, HeldInv
  <2>8. ArchiveKept'
    <3> SUFFICES ASSUME NEW s \in Requests, Holds(s)' PROVE imports'[s].archive \in temp'
      BY DEF ArchiveKept, Holds
    <3>1. s # r /\ Holds(s) /\ Started(s)
      BY <2>4, <2>5 DEF ArchiveInv, HeldInv
    <3>2. imports[s].archive # imports[r].archive /\ imports[s].archive \in temp
      BY <3>1, <2>2 DEF ArchiveInv, ImportedOnce, ArchiveKept, Holds
    <3> QED BY <3>1, <3>2, <2>1, <2>3
  <2>9. ImportedOnce'
    BY <2>2, <2>3, <2>4, <2>5 DEF ArchiveInv, ImportedOnce
  <2> QED BY <2>6, <2>7, <2>8, <2>9 DEF ArchiveInv
<1> QED BY <1>1, <1>2, <1>3, <1>4, <1>5, <1>6, <1>7, <1>8, <1>9, <1>10, <1>11
        DEF ImportStep

\* Dropping the expired previews keeps what is known of previews and holders.
LEMMA CleanUp ==
    ASSUME ArchiveInv, Shape, NEW r \in Requests
    PROVE  /\ Holds(r) => imports[r].archive \in temp \ ExpiredPreviews
           /\ \A A : \A a \in Archives :
                 /\ StopTimers(A)[a] = "removing" => timers[a] = "removing"
                 /\ a \notin A => StopTimers(A)[a] = timers[a]
<1>1. Holds(r) => imports[r].archive \notin ExpiredPreviews
  BY DEF ArchiveInv, HeldInv, ExpiredPreviews
<1>2. Holds(r) => imports[r].archive \in temp
  BY DEF ArchiveInv, ArchiveKept, Holds
<1> QED BY <1>1, <1>2 DEF StopTimers, Shape

\* The lookups of an import request and the start of its goroutine keep it.
LEMMA RequestArchives ==
    ASSUME ArchiveInv, Shape, Shape', NEW r \in Requests,
           RequestStep(r) \/ \E u \in Users, a \in Archives : GetPreview(r, u, a)
    PROVE  ArchiveInv'
<1>t. \A s \in Requests : imports[s].archive \in Archives
  BY DEF Shape, ImportType
<1>1. CASE RefuseMappings(r)
  <2>1. /\ UNCHANGED <<archives, previews, timers, temp>>
        /\ imports[r].pc = "checking" /\ imports' = [imports EXCEPT ![r].pc = "done"]
    BY <1>1 DEF RefuseMappings, Goto, memory
  <2>2. \A s \in Requests :
          /\ imports'[s].archive = imports[s].archive
          /\ imports'[s].pc \in {"idle", "checking"} => imports'[s].pc = imports[s].pc
          /\ Started(s)' => Started(s)
          /\ Holds(s)' => Holds(s) /\ Started(s)'
    BY <2>1 DEF Shape, ImportType, Started, Holds, Working, ArchiveInv, HeldInv
  <2> QED BY <2>1, <2>2, ArchivesStutter
<1>2. CASE CreateTask(r)
  <2>1. /\ UNCHANGED <<archives, previews, timers, temp>>
        /\ imports[r].pc = "consumed"
        /\ imports' = [imports EXCEPT ![r].pc = "opening", ![r].task = nextTask, ![r].k = 0]
    BY <1>2 DEF CreateTask
  <2>2. \A s \in Requests :
          /\ imports'[s].archive = imports[s].archive
          /\ imports'[s].pc \in {"idle", "checking"} => imports'[s].pc = imports[s].pc
          /\ Started(s)' => Started(s)
          /\ Holds(s)' => Holds(s) /\ Started(s)'
    BY <2>1 DEF Shape, ImportType, Started, Holds, Working, ArchiveInv, HeldInv
  <2> QED BY <2>1, <2>2, ArchivesStutter
<1>3. CASE ConsumePreview(r)
  <2> DEFINE a == imports[r].archive
             got == a \in previews \ ExpiredPreviews
  <2>1. /\ UNCHANGED archives /\ imports[r].pc = "checking" /\ a \in Archives
        /\ previews' = previews \ (ExpiredPreviews \cup {a})
        /\ temp' = temp \ ExpiredPreviews
        /\ timers' = StopTimers(ExpiredPreviews \cup {a})
    BY <1>3, <1>t DEF ConsumePreview
  <2>2. /\ imports'[r].archive = a /\ imports'[r].task = imports[r].task
        /\ imports'[r].pc = IF got THEN "consumed" ELSE "done"
        /\ \A s \in Requests \ {r} : imports'[s] = imports[s]
    BY <1>3 DEF ConsumePreview, Goto, Shape, ImportType
  <2>3. \A s \in Requests \ {r} : (Holds(s)' <=> Holds(s)) /\ (Started(s)' <=> Started(s))
    BY <2>2 DEF Holds, Started
  <2>4. /\ Holds(r)' <=> got
        /\ Started(r)' <=> (got \/ Started(r))
        /\ Holds(r)' => Started(r)'
        /\ imports'[r].pc \notin {"idle", "checking"}
    BY <2>1, <2>2 DEF Holds, Working, Started
  <2>5. \A b \in Archives : /\ timers'[b] = "removing" => timers[b] = "removing"
                            /\ b \notin ExpiredPreviews \cup {a} => timers'[b] = timers[b]
    BY <2>1 DEF StopTimers, Shape
  <2>6. got => /\ archives[a].state = "previewed" /\ a \in temp'
               /\ timers'[a] # "removing"
               /\ \A s \in Requests : Started(s) => imports[s].archive # a
    BY <2>1, <2>5 DEF ArchiveInv, PreviewInv, HeldInv
  <2>7. PreviewInv'
    BY <2>1, <2>5 DEF ArchiveInv, PreviewInv, ExpiredPreviews
  <2>8. HeldInv'
    <3> SUFFICES ASSUME NEW s \in Requests
                 PROVE  /\ Holds(s)' => Started(s)'
                        /\ imports'[s].pc = "idle" => ~Started(s)'
                        /\ imports'[s].pc = "checking" \/ Started(s)' =>
                             archives[imports'[s].archive].state \in {"previewed", "gone"}
                        /\ Started(s)' => imports'[s].archive \notin previews'
                        /\ Holds(s)' => /\ archives[imports'[s].archive].state = "previewed"
                                        /\ timers'[imports'[s].archive] # "removing"
      BY <2>1 DEF HeldInv
    <3>1. CASE s = r
      BY <3>1, <2>1, <2>2, <2>4, <2>6 DEF ArchiveInv, HeldInv
    <3>2. CASE s # r
      <4>1. /\ imports'[s] = imports[s] /\ imports[s].archive \in Archives
            /\ Holds(s)' <=> Holds(s)
            /\ Started(s)' <=> Started(s)
        BY <3>2, <2>2, <2>3, <1>t
      <4>2. /\ Holds(s) => Started(s)
            /\ imports[s].pc = "idle" => ~Started(s)
            /\ imports[s].pc = "checking" \/ Started(s) =>
                  archives[imports[s].archive].state \in {"previewed", "gone"}
            /\ Started(s) => imports[s].archive \notin previews
            /\ Holds(s) => /\ archives[imports[s].archive].state = "previewed"
                           /\ timers[imports[s].archive] # "removing"
        BY DEF ArchiveInv, HeldInv
      <4> HIDE DEF a, got
      <4>3. previews' \subseteq previews
        BY <2>1
      <4> QED BY <4>1, <4>2, <4>3, <2>5
    <3> QED BY <3>1, <3>2
  <2>9. ArchiveKept'
    <3>1. \A s \in Requests : Holds(s)' => imports'[s].archive \in temp'
      BY <2>1, <2>2, <2>3, <2>4, <2>6, CleanUp
    <3> QED BY <3>1 DEF ArchiveKept, Holds
  <2>10. ImportedOnce'
    BY <2>2, <2>3, <2>4, <2>6 DEF ArchiveInv, ImportedOnce
  <2> QED BY <2>7, <2>8, <2>9, <2>10 DEF ArchiveInv
<1>4. ASSUME NEW u \in Users, NEW a \in Archives, GetPreview(r, u, a)
      PROVE  ArchiveInv'
  <2>1. /\ UNCHANGED archives /\ imports[r].pc = "idle"
        /\ archives[a].state = "previewed"
        /\ previews' = previews \ ExpiredPreviews
        /\ temp' = temp \ ExpiredPreviews
        /\ timers' = StopTimers(ExpiredPreviews)
    BY <1>4 DEF GetPreview
  <2>2. /\ imports'[r].archive = a /\ imports'[r].task = imports[r].task
        /\ imports'[r].pc \in {"checking", "done"}
        /\ \A s \in Requests \ {r} : imports'[s] = imports[s]
    BY <1>4 DEF GetPreview, Shape, ImportType
  <2>3. \A s \in Requests \ {r} : (Holds(s)' <=> Holds(s)) /\ (Started(s)' <=> Started(s))
    BY <2>2 DEF Holds, Started
  <2>4. ~Holds(r)' /\ ~Started(r)' /\ imports'[r].pc # "idle"
    BY <2>1, <2>2 DEF Holds, Working, Started, ArchiveInv, HeldInv
  <2>5. \A b \in Archives : /\ timers'[b] = "removing" => timers[b] = "removing"
                            /\ b \notin ExpiredPreviews => timers'[b] = timers[b]
    BY <2>1 DEF StopTimers, Shape
  <2>7. PreviewInv'
    BY <2>1, <2>5 DEF ArchiveInv, PreviewInv, ExpiredPreviews
  <2>8. HeldInv'
    BY <2>1, <2>2, <2>3, <2>4, <2>5, <1>t DEF ArchiveInv, HeldInv
  <2>9. ArchiveKept'
    <3>1. \A s \in Requests : Holds(s)' => imports'[s].archive \in temp'
      BY <2>1, <2>2, <2>3, <2>4, CleanUp
    <3> QED BY <3>1 DEF ArchiveKept, Holds
  <2>10. ImportedOnce'
    BY <2>2, <2>3, <2>4 DEF ArchiveInv, ImportedOnce
  <2> QED BY <2>7, <2>8, <2>9, <2>10 DEF ArchiveInv
<1> QED BY <1>1, <1>2, <1>3, <1>4 DEF RequestStep

\* A step that leaves the requests alone keeps the part about them when it keeps
\* the directories, the states and the timers of the archives that are held.
LEMMA ArchivesOnly ==
    ASSUME ArchiveInv, Shape, Shape', UNCHANGED imports, PreviewInv',
           \A r \in Requests :
              LET a == imports[r].archive IN
              /\ archives[a].state \in {"previewed", "gone"} => archives'[a] = archives[a]
              /\ Started(r) => a \notin previews'
              /\ Holds(r) => a \in temp' /\ timers'[a] # "removing"
    PROVE  ArchiveInv'
<1>0. \A r \in Requests : (Started(r)' <=> Started(r)) /\ (Holds(r)' <=> Holds(r))
  BY DEF Started, Holds
<1>1. HeldInv'
  BY <1>0 DEF ArchiveInv, HeldInv
<1>2. ArchiveKept'
  BY <1>0 DEF ArchiveKept, Holds
<1>3. ImportedOnce'
  BY <1>0 DEF ArchiveInv, ImportedOnce
<1> QED BY <1>1, <1>2, <1>3 DEF ArchiveInv

\* What a holder knows of its archive.
LEMMA HolderKnows ==
    ASSUME ArchiveInv, Shape, NEW r \in Requests
    PROVE  LET a == imports[r].archive IN
           /\ a \in Archives
           /\ Started(r) => a \notin previews /\ archives[a].state \in {"previewed", "gone"}
           /\ Holds(r) => /\ Started(r) /\ a \in temp /\ timers[a] # "removing"
                          /\ archives[a].state = "previewed"
  BY DEF ArchiveInv, HeldInv, ArchiveKept, Holds, Shape, ImportType

\* A step of an upload or of a timer keeps the invariant.
LEMMA UploadArchives ==
    ASSUME ArchiveInv, Shape, Shape', NEW a \in Archives, ArchiveStep(a)
    PROVE  ArchiveInv'
<1>p. \A b \in Archives :
        /\ archives[b].state = "receiving" => b \in temp
        /\ b \in previews => /\ archives[b].state = "previewed" /\ b \in temp
                             /\ timers[b] \in {"armed", "fired"}
        /\ timers[b] = "removing" => archives[b].state = "previewed"
  BY DEF ArchiveInv, PreviewInv
<1>1. ASSUME NEW u \in Users, NEW n \in 0..MaxPrograms, ReceiveArchive(a, u, n)
      PROVE  ArchiveInv'
  <2>1. /\ archives[a].state = "none" /\ temp' = temp \cup {a}
        /\ UNCHANGED <<imports, previews, timers>>
        /\ archives'[a].state = "receiving"
        /\ \A b \in Archives \ {a} : archives'[b] = archives[b]
    BY <1>1 DEF ReceiveArchive, memory, Shape, ArchiveType
  <2>2. PreviewInv'
    BY <2>1, <1>p DEF PreviewInv
  <2> QED BY <2>1, <2>2, HolderKnows, ArchivesOnly
<1>2. CASE RefuseArchive(a)
  <2>1. /\ archives[a].state = "receiving" /\ temp' = temp \ {a}
        /\ UNCHANGED <<imports, previews, timers>>
        /\ archives'[a].state = "gone"
        /\ \A b \in Archives \ {a} : archives'[b] = archives[b]
    BY <1>2 DEF RefuseArchive, memory, Shape, ArchiveType
  <2>2. PreviewInv'
    BY <2>1, <1>p DEF PreviewInv
  <2> QED BY <2>1, <2>2, HolderKnows, ArchivesOnly
<1>3. CASE CreatePreview(a)
  <2>1. /\ archives[a].state = "receiving" /\ temp' = temp \ ExpiredPreviews
        /\ previews' = (previews \ ExpiredPreviews) \cup {a}
        /\ UNCHANGED imports
        /\ archives'[a].state = "previewed"
        /\ \A b \in Archives \ {a} : archives'[b] = archives[b]
    BY <1>3 DEF CreatePreview, Shape, ArchiveType
  <2>2. /\ timers'[a] = "armed"
        /\ \A b \in Archives \ {a} :
             /\ timers'[b] = "removing" => timers[b] = "removing"
             /\ b \notin ExpiredPreviews => timers'[b] = timers[b]
    BY <1>3 DEF CreatePreview, StopTimers, Shape
  <2>3. ExpiredPreviews \subseteq previews
    BY DEF ExpiredPreviews
  <2>4. PreviewInv'
    BY <2>1, <2>2, <2>3, <1>p DEF PreviewInv
  <2>5. \A r \in Requests :
          /\ archives[imports[r].archive].state \in {"previewed", "gone"} =>
                archives'[imports[r].archive] = archives[imports[r].archive]
          /\ Started(r) => imports[r].archive \notin previews'
          /\ Holds(r) => /\ imports[r].archive \in temp'
                         /\ timers'[imports[r].archive] # "removing"
    BY <2>1, <2>2, <2>3, HolderKnows
  <2> QED BY <2>1, <2>4, <2>5, ArchivesOnly
<1>4. CASE FireTimer(a)
  <2>1. /\ timers[a] = "armed" /\ UNCHANGED <<imports, previews, temp, archives>>
        /\ timers'[a] = "fired" /\ \A b \in Archives \ {a} : timers'[b] = timers[b]
    BY <1>4 DEF FireTimer, Shape
  <2>2. PreviewInv'
    BY <2>1, <1>p DEF PreviewInv
  <2> QED BY <2>1, <2>2, HolderKnows, ArchivesOnly
<1>5. CASE ExpirePreview(a)
  <2>1. /\ UNCHANGED <<imports, temp, archives>> /\ previews' = previews \ {a}
        /\ timers'[a] = IF a \in previews THEN "removing" ELSE "stopped"
        /\ \A b \in Archives \ {a} : timers'[b] = timers[b]
    BY <1>5 DEF ExpirePreview, Shape
  <2>2. PreviewInv'
    BY <2>1, <1>p DEF PreviewInv
  <2> QED BY <2>1, <2>2, HolderKnows, ArchivesOnly
<1>6. CASE RemoveExpired(a)
  <2>1. /\ timers[a] = "removing" /\ UNCHANGED <<imports, previews, archives>>
        /\ temp' = temp \ {a}
        /\ timers'[a] = "stopped" /\ \A b \in Archives \ {a} : timers'[b] = timers[b]
    BY <1>6 DEF RemoveExpired, Shape
  <2>2. PreviewInv'
    BY <2>1, <1>p DEF PreviewInv
  <2> QED BY <2>1, <2>2, HolderKnows, ArchivesOnly
<1> QED BY <1>1, <1>2, <1>3, <1>4, <1>5, <1>6 DEF ArchiveStep

\* A restart takes the previews, the timers and the requests at once.
LEMMA RestartArchives ==
    ASSUME ArchiveInv, Shape, Shape', Restart PROVE ArchiveInv'
<1>1. /\ previews' = {} /\ temp' = temp
      /\ \A a \in Archives : /\ timers'[a] = "none"
                             /\ archives'[a].state \in {"none", "gone"}
                             /\ archives[a].state # "none" => archives'[a].state = "gone"
  BY DEF Restart, Shape, ArchiveType
<1>2. \A r \in Requests :
        /\ imports'[r].archive = imports[r].archive /\ imports'[r].archive \in Archives
        /\ imports'[r].task = imports[r].task
        /\ imports'[r].pc \in {"idle", "done", "lost"}
        /\ imports'[r].pc = "idle" => imports[r].pc = "idle"
  BY DEF Restart, Shape, ImportType
<1>3. \A r \in Requests : ~Holds(r)' /\ (Started(r)' => Started(r))
  BY <1>2 DEF Holds, Started, Working
<1>4. PreviewInv'
  BY <1>1 DEF PreviewInv
<1>5. HeldInv'
  BY <1>1, <1>2, <1>3, HolderKnows DEF ArchiveInv, HeldInv
<1>6. ArchiveKept'
  BY <1>3 DEF ArchiveKept, Holds
<1>7. ImportedOnce'
  BY <1>2, <1>3 DEF ArchiveInv, ImportedOnce
<1> QED BY <1>4, <1>5, <1>6, <1>7 DEF ArchiveInv

\* The invariant holds in every reachable state.
THEOREM ArchivesSafe == Spec => []ArchiveInv
<1>1. Init => ArchiveInv
  BY InitArchives
<1>2. ArchiveInv /\ TypeInv /\ TypeInv' /\ [Next]_vars => ArchiveInv'
  <2> SUFFICES ASSUME ArchiveInv, TypeInv, TypeInv', [Next]_vars PROVE ArchiveInv'
    OBVIOUS
  <2>0. Shape /\ Shape'
    BY TypeShape DEF TypeInv, Shape, ArchiveType, ImportType
  <2>s. ASSUME UNCHANGED <<archives, temp, previews, timers, imports>>
        PROVE  ArchiveInv'
    <3>1. PreviewInv'
      BY <2>s DEF ArchiveInv, PreviewInv
    <3> QED BY <2>s, <2>0, <3>1, HolderKnows, ArchivesOnly
  <2>1. CASE UNCHANGED vars
    BY <2>1, <2>s DEF vars
  <2>2. CASE Tick
    BY <2>2, <2>s DEF Tick, memory
  <2>3. CASE PollTask
    BY <2>3, <2>s DEF PollTask
  <2>4. CASE Restart
    BY <2>4, <2>0, RestartArchives
  <2>5. ASSUME NEW a \in Archives, ArchiveStep(a) PROVE ArchiveInv'
    BY <2>5, <2>0, UploadArchives
  <2>6. ASSUME NEW r \in Requests, RequestStep(r) PROVE ArchiveInv'
    BY <2>6, <2>0, RequestArchives
  <2>7. ASSUME NEW r \in Requests, ImportStep(r) PROVE ArchiveInv'
    BY <2>7, <2>0, ImportArchives
  <2>8. ASSUME NEW r \in Requests, NEW u \in Users, NEW a \in Archives, GetPreview(r, u, a)
        PROVE  ArchiveInv'
    BY <2>8, <2>0, RequestArchives
  <2> QED BY <2>1, <2>2, <2>3, <2>4, <2>5, <2>6, <2>7, <2>8 DEF Next
<1> QED BY <1>1, <1>2, TypeCorrect, PTL DEF Spec

\* For any number of archives, users and requests: the archive of an import in
\* progress is not removed under it.
THEOREM ImportKeepsArchive == Spec => []ArchiveKept
<1>1. ArchiveInv => ArchiveKept
  BY DEF ArchiveInv
<1> QED BY <1>1, ArchivesSafe, PTL

\* For any number of archives, users and requests: no archive is imported twice.
THEOREM NoArchiveTwice == Spec => []ImportedOnce
<1>1. ArchiveInv => ImportedOnce
  BY DEF ArchiveInv
<1> QED BY <1>1, ArchivesSafe, PTL

-----------------------------------------------------------------------------
(* What a failed program leaves behind.                                    *)

\* A step that leaves rows and disk alone, and a request that is between the
\* write and the end of its transaction where it is.
LEMMA DirectoriesStutter ==
    ASSUME TypeInv, NothingLeftBehind, UNCHANGED <<rows, disk>>,
           \A r \in Requests :
              imports[r].pc \in {"committing", "lost"} =>
                 imports'[r].pc \in {"committing", "lost"} /\ imports'[r].k = imports[r].k
    PROVE  NothingLeftBehind'
  BY DEF NothingLeftBehind, TypeInv

\* Every step keeps the directories apart from what it commits and removes.
LEMMA DirectoriesStep ==
    ASSUME TypeInv, NothingLeftBehind, [Next]_vars PROVE NothingLeftBehind'
<1>0. /\ imports \in [Requests -> ImportType] /\ disk \subseteq Requests \X (0..MaxPrograms)
      /\ rows \subseteq Requests \X (0..MaxPrograms)
  BY DEF TypeInv, ImportType
<1>g. ASSUME NEW r \in Requests, NEW pc, Goto(r, pc), UNCHANGED <<rows, disk>>,
             imports[r].pc \notin {"committing", "lost"}
      PROVE  NothingLeftBehind'
  BY <1>g, <1>0, DirectoriesStutter DEF Goto, ImportType
<1>1. CASE UNCHANGED vars
  BY <1>1, DirectoriesStutter DEF vars
<1>2. CASE Tick
  BY <1>2, DirectoriesStutter DEF Tick
<1>3. CASE PollTask
  BY <1>3, DirectoriesStutter DEF PollTask
<1>4. CASE Restart
  BY <1>4, <1>0, DirectoriesStutter DEF Restart, ImportType
<1>5. ASSUME NEW a \in Archives, ArchiveStep(a) PROVE NothingLeftBehind'
  BY <1>5, DirectoriesStutter DEF ArchiveStep, ReceiveArchive, RefuseArchive, CreatePreview,
        FireTimer, ExpirePreview, RemoveExpired
<1>6. ASSUME NEW r \in Requests, NEW u \in Users, NEW a \in Archives, GetPreview(r, u, a)
      PROVE  NothingLeftBehind'
  BY <1>6, <1>0, DirectoriesStutter DEF GetPreview, ImportType
<1>7. ASSUME NEW r \in Requests, RequestStep(r) PROVE NothingLeftBehind'
  <2>1. CASE RefuseMappings(r)
    BY <2>1, <1>g DEF RefuseMappings
  <2>2. CASE ConsumePreview(r)
    BY <2>2, <1>g DEF ConsumePreview
  <2>3. CASE CreateTask(r)
    BY <2>3, <1>0, DirectoriesStutter DEF CreateTask, ImportType
  <2> QED BY <1>7, <2>1, <2>2, <2>3 DEF RequestStep
<1>8. ASSUME NEW r \in Requests, ImportStep(r) PROVE NothingLeftBehind'
  <2> DEFINE item == Item(r)
  <2>o. ASSUME NEW i \in disk, i # item, imports[r].pc \in {"writing", "committing", "committed"}
        PROVE  i \in rows \/ /\ i[1] # r
                             /\ imports[i[1]].pc \in {"committing", "lost"}
                             /\ imports[i[1]].k = i[2]
    BY <2>o, <1>0 DEF NothingLeftBehind, Item
  <2>g. ASSUME NEW pc, Goto(r, pc)
        PROVE  /\ \A s \in Requests \ {r} : imports'[s] = imports[s]
               /\ imports'[r].pc = pc /\ imports'[r].k = imports[r].k
    BY <2>g, <1>0 DEF Goto, ImportType
  <2>i. item = <<r, imports[r].k>>
    BY DEF Item
  <2> HIDE DEF item
  <2>1. CASE OpenArchive(r) \/ OpenFails(r)
    BY <2>1, <1>g DEF OpenArchive, OpenFails
  <2>2. CASE BeginProgram(r)
    BY <2>2, <1>0, DirectoriesStutter DEF BeginProgram, ImportType
  <2>3. CASE WriteFiles(r)
    <3>1. disk' = disk \cup {item} /\ rows' = rows /\ Goto(r, "committing") /\ imports[r].pc = "writing"
      BY <2>3 DEF WriteFiles, item
    <3> QED BY <3>1, <2>o, <2>g, <2>i, <1>0 DEF NothingLeftBehind
  <2>4. CASE RefuseProgram(r)
    <3>1. disk' = disk \ {item} /\ rows' = rows /\ Goto(r, "refused")
          /\ imports[r].pc \in {"writing", "committing"}
      BY <2>4 DEF RefuseProgram, item
    <3> QED BY <3>1, <2>o, <2>g, <2>i, <1>0 DEF NothingLeftBehind
  <2>5. CASE CommitProgram(r)
    <3>1. disk' = disk /\ rows' = rows \cup {item} /\ Goto(r, "committed") /\ imports[r].pc = "committing"
      BY <2>5 DEF CommitProgram, item
    <3> QED BY <3>1, <2>o, <2>g, <2>i, <1>0 DEF NothingLeftBehind
  <2>6. CASE DeferredRemoval(r)
    <3>1. disk' = disk \ {item} /\ rows' = rows /\ Goto(r, "succeeded") /\ imports[r].pc = "committed"
      BY <2>6 DEF DeferredRemoval, item
    <3> QED BY <3>1, <2>o, <2>g, <2>i, <1>0 DEF NothingLeftBehind
  <2>7. CASE CountProgram(r) \/ Conclude(r) \/ Finish(r) \/ RemoveTempDir(r)
    BY <2>7, <1>g DEF CountProgram, Conclude, Finish, RemoveTempDir
  <2> QED BY <1>8, <2>1, <2>2, <2>3, <2>4, <2>5, <2>6, <2>7 DEF ImportStep
<1> QED BY <1>1, <1>2, <1>3, <1>4, <1>5, <1>6, <1>7, <1>8 DEF Next

\* A program that failed leaves no directory, and one that a restart interrupts
\* only the one it was writing.
THEOREM FailuresLeaveNothing == Spec => []NothingLeftBehind
<1>1. Init => NothingLeftBehind
  BY DEF Init, NothingLeftBehind
<1>2. TypeInv /\ NothingLeftBehind /\ [Next]_vars => NothingLeftBehind'
  BY DirectoriesStep
<1> QED BY <1>1, <1>2, TypeCorrect, PTL DEF Spec

-----------------------------------------------------------------------------
(* What a task says.  A request commits its programs one after the other;   *)
(* while it works its task, if it is still there, is its own and counts the *)
(* programs up to the one begun.                                            *)

Total(r) == archives[imports[r].archive].programs

\* The program request r has begun and not counted yet.
Begun(r) == imports[r].pc \in {"writing", "committing", "committed", "succeeded", "refused"}
Uncounted(r) == imports[r].pc \in {"committed", "succeeded"}

\* What has been committed, and whose task it is.
RequestOK(r) ==
    /\ imports[r].pc \in {"idle", "checking", "consumed", "opening"} => Committed(r) = {}
    /\ \A k \in Committed(r) : k <= imports[r].k
    /\ Begun(r) => imports[r].k >= 1
    /\ imports[r].pc \in {"writing", "committing", "refused"} => imports[r].k \notin Committed(r)
    /\ imports[r].pc = "opening" => imports[r].k = 0
    /\ imports[r].pc \in Working =>
          /\ imports[r].task \in 1..(nextTask - 1)
          /\ imports[r].k <= Total(r)
          /\ imports[r].task \in DOMAIN tasks => tasks[imports[r].task].request = r

\* What a task says of the request that works on it, has left it or is done.
ReportOK(t) ==
    LET s == tasks[t]
        r == s.request
        pc == imports[r].pc IN
    /\ imports[r].task = t
    /\ pc \in Working \cup {"done"}
    /\ s.processed = s.success + s.failed
    /\ s.success + (IF Uncounted(r) THEN 1 ELSE 0) = Cardinality(Committed(r))
    /\ s.status = "completed" => s.processed = s.total /\ (s.failed > 0 => s.success > 0)
    /\ pc \in Working \ {"leaving"} =>
          /\ s.status = "processing" /\ s.total = Total(r)
          /\ s.processed + (IF Begun(r) THEN 1 ELSE 0) = imports[r].k
    /\ pc \in {"failing", "completing"} => s.processed = s.total
    /\ pc = "completing" /\ s.failed > 0 => s.success > 0

TaskInv ==
    /\ \A r \in Requests : RequestOK(r)
    /\ \A t \in DOMAIN tasks : ReportOK(t)

\* Task t says the same as before, whenever it expires.
Same(t) ==
    /\ tasks'[t].request = tasks[t].request /\ tasks'[t].status = tasks[t].status
    /\ tasks'[t].total = tasks[t].total /\ tasks'[t].processed = tasks[t].processed
    /\ tasks'[t].success = tasks[t].success /\ tasks'[t].failed = tasks[t].failed

\* One more program committed is one more to count.
LEMMA CommittedFinite ==
    ASSUME NEW r \in Requests, NEW R, NEW k \in 1..MaxPrograms,
           {j \in 1..MaxPrograms : <<r, j>> \in R} = Committed(r) \cup {k},
           k \notin Committed(r)
    PROVE  Cardinality({j \in 1..MaxPrograms : <<r, j>> \in R}) = Cardinality(Committed(r)) + 1
<1>1. IsFiniteSet(1..MaxPrograms)
  BY FS_Interval, ConstantsAssumption
<1>2. IsFiniteSet(Committed(r))
  BY <1>1, FS_Subset DEF Committed
<1> QED BY <1>2, FS_AddElement

\* Requests that do not move, and tasks of theirs that say the same, are as before.
LEMMA TasksFrame ==
    ASSUME TypeInv, TypeInv', ArchiveInv, TaskInv, NEW M \in SUBSET Requests,
           nextTask' >= nextTask,
           \A a \in Archives :
              archives[a].state # "none" => archives'[a].programs = archives[a].programs,
           \A s \in Requests \ M :
              imports'[s] = imports[s] /\ Committed(s)' = Committed(s),
           \A t \in DOMAIN tasks' :
              \/ t \in DOMAIN tasks /\ Same(t)
              \/ /\ tasks'[t].request \in M
                 /\ t \in DOMAIN tasks => tasks[t].request = tasks'[t].request
                 /\ t \notin DOMAIN tasks => t >= nextTask,
           \A r \in M : RequestOK(r)',
           \A t \in DOMAIN tasks' : tasks'[t].request \in M => ReportOK(t)'
    PROVE  TaskInv'
<1>0. /\ imports \in [Requests -> ImportType] /\ archives \in [Archives -> ArchiveType]
      /\ nextTask \in Nat /\ nextTask' \in Nat
      /\ \A t \in DOMAIN tasks : tasks[t] \in TaskType /\ tasks[t].request \in Requests
      /\ \A t \in DOMAIN tasks' : tasks'[t].request \in Requests
  BY DEF TypeInv, ImportType, ArchiveType, TaskType
<1>t. ASSUME NEW s \in Requests \ M, imports[s].pc \in Working
      PROVE  Total(s)' = Total(s)
  <2>1. imports[s].archive \in Archives
    BY <1>0 DEF ImportType
  <2>2. archives[imports[s].archive].state # "none"
    BY <1>t DEF ArchiveInv, HeldInv, Holds
  <2> QED BY <2>1, <2>2 DEF Total
<1>1. ASSUME NEW s \in Requests \ M PROVE RequestOK(s)'
  <2>1. RequestOK(s) /\ imports'[s] = imports[s] /\ Committed(s)' = Committed(s)
    BY DEF TaskInv
  <2>2. imports[s].pc \in Working => imports[s].task \in 1..(nextTask' - 1)
    BY <2>1, <1>0 DEF RequestOK
  <2>3. ASSUME imports[s].pc \in Working, imports[s].task \in DOMAIN tasks'
        PROVE  tasks'[imports[s].task].request = s
    BY <2>1, <2>3, <1>0 DEF RequestOK, Same
  <2>4. Begun(s)' <=> Begun(s)
    BY <2>1 DEF Begun
  <2> QED BY <2>1, <2>2, <2>3, <2>4, <1>t DEF RequestOK
<1>2. ASSUME NEW t \in DOMAIN tasks', tasks'[t].request \notin M PROVE ReportOK(t)'
  <2>1. t \in DOMAIN tasks /\ Same(t) /\ ReportOK(t)
    BY <1>2 DEF TaskInv
  <2>2. PICK s \in Requests \ M : s = tasks[t].request /\ s = tasks'[t].request
    BY <1>0, <1>2, <2>1 DEF Same
  <2>3. imports'[s] = imports[s] /\ Committed(s)' = Committed(s)
    OBVIOUS
  <2>4. (Begun(s)' <=> Begun(s)) /\ (Uncounted(s)' <=> Uncounted(s))
    BY <2>3 DEF Begun, Uncounted
  <2> QED BY <2>1, <2>2, <2>3, <2>4, <1>t DEF ReportOK, Same
<1> QED BY <1>1, <1>2 DEF TaskInv

\* Steps in which no request moves and no task says anything new.
LEMMA TasksStutter ==
    ASSUME TypeInv, TypeInv', ArchiveInv, TaskInv, UNCHANGED <<imports, rows, nextTask>>,
           \A a \in Archives :
              archives[a].state # "none" => archives'[a].programs = archives[a].programs,
           \A t \in DOMAIN tasks' : t \in DOMAIN tasks /\ Same(t)
    PROVE  TaskInv'
<1>1. \A s \in Requests : Committed(s)' = Committed(s)
  BY DEF Committed
<1>2. nextTask \in Nat
  BY DEF TypeInv
<1> DEFINE M == {}
<1>3. M \in SUBSET Requests /\ \A s : s \notin M
  OBVIOUS
<1> HIDE DEF M
<1>4. \A r \in M : RequestOK(r)'
  BY <1>3
<1>5. \A t \in DOMAIN tasks' : tasks'[t].request \in M => ReportOK(t)'
  BY <1>3
<1> QED BY <1>1, <1>2, <1>3, <1>4, <1>5, TasksFrame

\* The case of one request that moves.
LEMMA OneMoves ==
    ASSUME TypeInv, TypeInv', ArchiveInv, TaskInv, NEW r \in Requests,
           nextTask' >= nextTask,
           \A a \in Archives :
              archives[a].state # "none" => archives'[a].programs = archives[a].programs,
           \A s \in Requests \ {r} :
              imports'[s] = imports[s] /\ Committed(s)' = Committed(s),
           \A t \in DOMAIN tasks' :
              \/ t \in DOMAIN tasks /\ Same(t)
              \/ /\ tasks'[t].request \in {r}
                 /\ t \in DOMAIN tasks => tasks[t].request = tasks'[t].request
                 /\ t \notin DOMAIN tasks => t >= nextTask,
           RequestOK(r)',
           \A t \in DOMAIN tasks' : tasks'[t].request = r => ReportOK(t)'
    PROVE  TaskInv'
<1> DEFINE M == {r}
<1>1. M \in SUBSET Requests /\ \A s : s \in M <=> s = r
  OBVIOUS
<1> HIDE DEF M
<1> QED BY <1>1, TasksFrame

\* A request that has no task yet moves on without one.
LEMMA TasklessStep ==
    ASSUME TypeInv, TypeInv', ArchiveInv, TaskInv, NEW r \in Requests,
           imports[r].pc \in {"idle", "checking", "consumed"},
           imports'[r].pc \in {"idle", "checking", "consumed", "done"},
           \A s \in Requests \ {r} : imports'[s] = imports[s],
           UNCHANGED <<rows, nextTask, tasks, archives>>
    PROVE  TaskInv'
<1>1. RequestOK(r) /\ (\A s \in Requests : Committed(s)' = Committed(s)) /\ nextTask \in Nat
  BY DEF TaskInv, Committed, TypeInv
<1>2. Committed(r) = {} /\ Committed(r)' = {}
  BY <1>1 DEF RequestOK
<1>3. RequestOK(r)'
  BY <1>2 DEF RequestOK, Begun, Working
<1>4. \A t \in DOMAIN tasks : tasks[t].request # r
  BY DEF TaskInv, ReportOK, Working
<1> DEFINE M == {r}
<1>5. M \in SUBSET Requests /\ \A s : s \in M <=> s = r
  OBVIOUS
<1> HIDE DEF M
<1>6. \A t \in DOMAIN tasks' : t \in DOMAIN tasks /\ Same(t) /\ tasks'[t].request \notin M
  BY <1>4, <1>5 DEF Same
<1> QED BY <1>1, <1>3, <1>5, <1>6, TasksFrame

\* A new task is its request's own and has counted nothing.
LEMMA CreateTaskStep ==
    ASSUME TypeInv, TypeInv', ArchiveInv, TaskInv, NEW r \in Requests, CreateTask(r)
    PROVE  TaskInv'
<1> DEFINE a == archives[imports[r].archive]
           new == Status("processing", a.owner, a.programs, r)
<1>0. /\ imports \in [Requests -> ImportType] /\ nextTask \in Nat \ {0}
      /\ DOMAIN tasks \subseteq 1..(nextTask - 1) /\ archives \in [Archives -> ArchiveType]
  BY DEF TypeInv, ImportType, ArchiveType
<1>1. /\ imports[r].pc = "consumed" /\ nextTask' = nextTask + 1
      /\ tasks' = [t \in LiveTasks \cup {nextTask} |->
                     IF t = nextTask THEN new ELSE tasks[t]]
      /\ imports' = [imports EXCEPT ![r] =
            [imports[r] EXCEPT !.pc = "opening", !.task = nextTask, !.k = 0]]
      /\ UNCHANGED <<archives, rows>>
  BY <1>0 DEF CreateTask
<1>2. /\ new.request = r /\ new.status = "processing" /\ new.total = a.programs
      /\ new.processed = 0 /\ new.success = 0 /\ new.failed = 0
  BY DEF Status
<1> HIDE DEF new
<1>3. /\ imports'[r].pc = "opening" /\ imports'[r].task = nextTask /\ imports'[r].k = 0
      /\ imports'[r].archive = imports[r].archive
      /\ \A s \in Requests \ {r} : imports'[s] = imports[s]
  BY <1>0, <1>1 DEF ImportType
<1>4. /\ Committed(r) = {} /\ \A s \in Requests : Committed(s)' = Committed(s)
  BY <1>1 DEF TaskInv, RequestOK, Committed
<1>5. /\ nextTask \in DOMAIN tasks' /\ tasks'[nextTask] = new
      /\ nextTask \notin DOMAIN tasks
      /\ \A t \in DOMAIN tasks' : t # nextTask => t \in DOMAIN tasks /\ tasks'[t] = tasks[t]
  BY <1>0, <1>1 DEF LiveTasks
<1>6. \A t \in DOMAIN tasks : tasks[t].request # r
  BY <1>1 DEF TaskInv, ReportOK, Working
<1>7. Total(r)' = a.programs /\ a.programs \in Nat
  BY <1>0, <1>1, <1>3 DEF Total, ImportType, ArchiveType
<1> HIDE DEF a
<1>8. RequestOK(r)'
  <2>1. imports'[r].task \in 1..(nextTask' - 1)
    BY <1>0, <1>1, <1>3
  <2> QED BY <2>1, <1>1, <1>2, <1>3, <1>4, <1>5, <1>7 DEF RequestOK, Begun
<1>9. ASSUME NEW t, t = nextTask PROVE ReportOK(t)'
  <2>1. /\ tasks'[t] = new /\ imports'[r].task = t /\ imports'[r].pc = "opening"
    BY <1>3, <1>5, <1>9
  <2>2. ~Uncounted(r)' /\ ~Begun(r)' /\ Cardinality(Committed(r)') = 0
    BY <1>3, <1>4, FS_EmptySet DEF Uncounted, Begun
  <2> QED BY <2>1, <2>2, <1>2, <1>3, <1>7 DEF ReportOK, Working
<1>10. \A t \in DOMAIN tasks' : tasks'[t].request = r => t = nextTask
  BY <1>5, <1>6
<1>11. \A t \in DOMAIN tasks' : tasks'[t].request = r => ReportOK(t)'
  BY <1>9, <1>10
<1>12. \A t \in DOMAIN tasks' :
          \/ t \in DOMAIN tasks /\ Same(t)
          \/ /\ tasks'[t].request \in {r}
             /\ t \in DOMAIN tasks => tasks[t].request = tasks'[t].request
             /\ t \notin DOMAIN tasks => t >= nextTask
  BY <1>0, <1>2, <1>5 DEF Same
<1>13. nextTask' >= nextTask
  BY <1>0, <1>1
<1> QED BY <1>1, <1>3, <1>4, <1>8, <1>11, <1>12, <1>13, OneMoves

\* One step of an import goroutine: only its own task may say something new.
LEMMA WorkingStep ==
    ASSUME TypeInv, TypeInv', ArchiveInv, TaskInv, NEW r \in Requests,
           imports[r].pc \in Working, UNCHANGED <<archives, nextTask>>,
           \A s \in Requests \ {r} : imports'[s] = imports[s] /\ Committed(s)' = Committed(s),
           \A t \in DOMAIN tasks' :
              /\ t \in DOMAIN tasks /\ tasks'[t].request = tasks[t].request
              /\ t # imports[r].task => Same(t),
           RequestOK(r)',
           \A t \in DOMAIN tasks' :
              t = imports[r].task /\ tasks'[t].request = r => ReportOK(t)'
    PROVE  TaskInv'
<1>1. nextTask \in Nat /\ \A t \in DOMAIN tasks : tasks[t].request = r => t = imports[r].task
  BY DEF TypeInv, TaskInv, ReportOK
<1>2. \A t \in DOMAIN tasks : t = imports[r].task => tasks[t].request = r
  BY DEF TaskInv, RequestOK
<1>3. \A t \in DOMAIN tasks' :
         \/ t \in DOMAIN tasks /\ Same(t)
         \/ /\ tasks'[t].request \in {r}
            /\ t \in DOMAIN tasks => tasks[t].request = tasks'[t].request
            /\ t \notin DOMAIN tasks => t >= nextTask
  BY <1>2
<1> QED BY <1>1, <1>3, OneMoves

\* An update changes one task, and what it sets.
LEMMA UpdateSays ==
    ASSUME TypeInv, NEW t, NEW status,
           \/ t \in DOMAIN tasks /\ Update(t, status)
           \/ t \notin DOMAIN tasks /\ UNCHANGED tasks,
           t \in DOMAIN tasks => status \in TaskType
    PROVE  /\ DOMAIN tasks' = DOMAIN tasks
           /\ \A s \in DOMAIN tasks : s # t => tasks'[s] = tasks[s]
           /\ t \in DOMAIN tasks =>
                /\ tasks'[t].request = status.request /\ tasks'[t].status = status.status
                /\ tasks'[t].total = status.total /\ tasks'[t].processed = status.processed
                /\ tasks'[t].success = status.success /\ tasks'[t].failed = status.failed
<1>1. t \in DOMAIN tasks => t \in DOMAIN tasks'
  BY DEF Update
<1>2. CASE t \in DOMAIN tasks
  <2>1. tasks'[t] = [status EXCEPT !.expiresAt = now + TaskTTL]
    BY <1>2 DEF Update
  <2> QED BY <1>2, <2>1 DEF Update, TaskType
<1> QED BY <1>2

\* A step of an import keeps what its task says true.
LEMMA ImportTasks ==
    ASSUME TypeInv, TypeInv', ArchiveInv, TaskInv, NEW r \in Requests, ImportStep(r)
    PROVE  TaskInv'
<1> DEFINE n == imports[r].task
           k == imports[r].k
           pc == imports[r].pc
<1>0. /\ imports \in [Requests -> ImportType] /\ n \in Nat /\ k \in 0..MaxPrograms
      /\ \A t \in DOMAIN tasks : tasks[t] \in TaskType
      /\ Total(r) \in 0..MaxPrograms
      /\ MaxPrograms \in Nat /\ Committed(r) \subseteq 1..MaxPrograms
  BY ConstantsAssumption DEF TypeInv, ImportType, TaskType, ArchiveType, Total, Committed
<1>r. /\ RequestOK(r)
      /\ n \in DOMAIN tasks => ReportOK(n) /\ (pc \in Working => tasks[n].request = r)
  BY DEF TaskInv, RequestOK
<1>n. /\ pc \in Working => n \in 1..(nextTask - 1) /\ k <= Total(r)
      /\ pc \in Working /\ n \in DOMAIN tasks =>
           /\ tasks[n].request = r
           /\ tasks[n].processed \in Nat /\ tasks[n].success \in Nat
           /\ tasks[n].failed \in Nat /\ tasks[n].total \in Nat
           /\ tasks[n].processed = tasks[n].success + tasks[n].failed
           /\ tasks[n].success + (IF Uncounted(r) THEN 1 ELSE 0) = Cardinality(Committed(r))
           /\ pc # "leaving" =>
                /\ tasks[n].status = "processing" /\ tasks[n].total = Total(r)
                /\ tasks[n].processed + (IF Begun(r) THEN 1 ELSE 0) = k
           /\ pc = "leaving" /\ tasks[n].status = "completed" =>
                /\ tasks[n].processed = tasks[n].total
                /\ tasks[n].failed > 0 => tasks[n].success > 0
           /\ pc \in {"failing", "completing"} => tasks[n].processed = tasks[n].total
           /\ pc = "completing" /\ tasks[n].failed > 0 => tasks[n].success > 0
  BY <1>0, <1>r DEF RequestOK, ReportOK, TaskType
<1>g. ASSUME NEW to, Goto(r, to)
      PROVE  /\ imports'[r].pc = to /\ imports'[r].k = k /\ imports'[r].task = n
             /\ imports'[r].archive = imports[r].archive
             /\ \A s \in Requests \ {r} : imports'[s] = imports[s]
  BY <1>g, <1>0 DEF Goto, ImportType
<1>c. ASSUME rows' = rows PROVE \A s \in Requests : Committed(s)' = Committed(s)
  BY <1>c DEF Committed
<1>t. ASSUME UNCHANGED archives, imports'[r].archive = imports[r].archive
      PROVE  Total(r)' = Total(r)
  BY <1>t DEF Total
\* The request after a step of its own.
<1>q. ASSUME UNCHANGED <<archives, nextTask, rows>>, pc \in Working \ {"opening"},
             imports'[r].pc \in (Working \ {"opening"}) \cup {"done"},
             imports'[r].k = k, imports'[r].task = n,
             imports'[r].archive = imports[r].archive,
             Begun(r)' => Begun(r),
             imports'[r].pc \in {"writing", "committing", "refused"} =>
                pc \in {"writing", "committing", "refused"},
             n \in DOMAIN tasks' => n \in DOMAIN tasks /\ tasks'[n].request = tasks[n].request
      PROVE  RequestOK(r)'
  BY <1>q, <1>r, <1>n, <1>c, <1>t DEF RequestOK, Working
\* An import that only moves on.
<1>m. ASSUME UNCHANGED <<archives, nextTask, rows>>, pc \in Working,
             NEW to, Goto(r, to), RequestOK(r)',
             \A t \in DOMAIN tasks' : t \in DOMAIN tasks /\ tasks'[t] = tasks[t],
             n \in DOMAIN tasks' =>
                /\ to \in Working \cup {"done"}
                /\ Uncounted(r)' <=> Uncounted(r)
                /\ to \in Working \ {"leaving"} => /\ pc # "leaving"
                                                   /\ Begun(r)' <=> Begun(r)
                /\ to \in {"failing", "completing"} => tasks[n].processed = tasks[n].total
                /\ to = "completing" /\ tasks[n].failed > 0 => tasks[n].success > 0
      PROVE  TaskInv'
  <2>1. ASSUME NEW t \in DOMAIN tasks', t = n PROVE ReportOK(t)'
    <3>1. tasks'[t] = tasks[n] /\ t \in DOMAIN tasks
      BY <1>m, <2>1
    <3>2. /\ tasks[n].status = "completed" => pc = "leaving"
      BY <1>m, <1>n, <3>1, <2>1
    <3>3. Committed(r)' = Committed(r) /\ Total(r)' = Total(r)
      BY <1>c, <1>t, <1>m, <1>g
    <3> HIDE DEF n, k, pc
    <3> QED BY <1>m, <1>n, <1>g, <2>1, <3>1, <3>2, <3>3 DEF ReportOK
  <2> QED BY <1>m, <1>c, <1>g, <2>1, WorkingStep DEF Same
<1>w. /\ "opening" \in Working /\ "next" \in Working /\ "writing" \in Working
      /\ "committing" \in Working /\ "committed" \in Working /\ "succeeded" \in Working
      /\ "refused" \in Working /\ "failing" \in Working /\ "completing" \in Working
      /\ "leaving" \in Working
  BY DEF Working
<1> USE DEF unchanged
<1>1. CASE OpenArchive(r)
  <2>1. Goto(r, "next") /\ pc = "opening" /\ UNCHANGED <<tasks, rows, archives, nextTask>>
    BY <1>1 DEF OpenArchive
  <2>2. RequestOK(r)'
    <3>1. Committed(r)' = {} /\ k = 0 /\ n \in 1..(nextTask - 1) /\ k <= Total(r)
      BY <2>1, <1>r, <1>c, <1>w DEF RequestOK
    <3>2. imports'[r].pc = "next" /\ imports'[r].k = 0 /\ imports'[r].task = n
          /\ Total(r)' = Total(r)
      BY <2>1, <3>1, <1>g, <1>t
    <3>3. n \in DOMAIN tasks => tasks[n].request = r
      BY <2>1, <1>n, <1>w
    <3> HIDE DEF n, k, pc
    <3> QED BY <2>1, <3>1, <3>2, <3>3 DEF RequestOK, Begun
  <2> QED BY <2>1, <2>2, <1>g, <1>m, <1>w DEF Begun, Uncounted
<1>3. CASE BeginProgram(r)
  <2>1. /\ pc = "next" /\ k < Total(r) /\ Touch(n)
        /\ UNCHANGED <<rows, archives, nextTask>>
        /\ imports' = [imports EXCEPT ![r] = [imports[r] EXCEPT !.pc = "writing", !.k = k + 1]]
    BY <1>3, <1>0 DEF BeginProgram, Remaining, Total
  <2>2. /\ imports'[r].pc = "writing" /\ imports'[r].k = k + 1 /\ imports'[r].task = n
        /\ imports'[r].archive = imports[r].archive
        /\ \A s \in Requests \ {r} : imports'[s] = imports[s]
    BY <2>1, <1>0 DEF ImportType
  <2>3. /\ DOMAIN tasks' = DOMAIN tasks
        /\ \A s \in DOMAIN tasks : s # n => tasks'[s] = tasks[s]
        /\ n \in DOMAIN tasks => Same(n)
    BY <2>1, <1>0, UpdateSays DEF Touch, Same
  <2>4. RequestOK(r)'
    <3>1. \A j \in Committed(r) : j <= k /\ j \in Nat
      BY <1>0, <1>r DEF RequestOK
    <3> QED BY <2>1, <2>2, <2>3, <3>1, <1>0, <1>n, <1>c, <1>t, <1>w DEF RequestOK, Begun, Same
  <2>5. ASSUME NEW t \in DOMAIN tasks', t = n PROVE ReportOK(t)'
    BY <2>1, <2>2, <2>3, <2>5, <1>0, <1>n, <1>c, <1>t, <1>w DEF ReportOK, Begun, Uncounted, Same
  <2> QED BY <2>1, <2>2, <2>3, <2>4, <2>5, <1>c, <1>w, WorkingStep DEF Same
<1>4. CASE WriteFiles(r)
  <2>1. Goto(r, "committing") /\ pc = "writing" /\ UNCHANGED <<tasks, rows, archives, nextTask>>
    BY <1>4 DEF WriteFiles
  <2> QED BY <2>1, <1>g, <1>m, <1>q, <1>w DEF Begun, Uncounted
<1>5. CASE RefuseProgram(r)
  <2>1. /\ Goto(r, "refused") /\ pc \in {"writing", "committing"}
        /\ UNCHANGED <<tasks, rows, archives, nextTask>>
    BY <1>5 DEF RefuseProgram
  <2> QED BY <2>1, <1>g, <1>m, <1>q, <1>w DEF Begun, Uncounted
<1>7. CASE DeferredRemoval(r)
  <2>1. Goto(r, "succeeded") /\ pc = "committed" /\ UNCHANGED <<tasks, rows, archives, nextTask>>
    BY <1>7 DEF DeferredRemoval
  <2> QED BY <2>1, <1>g, <1>m, <1>q, <1>w DEF Begun, Uncounted
<1>9. CASE Conclude(r)
  <2> DEFINE to == IF n \notin LiveTasks THEN "leaving"
                   ELSE IF tasks[n].failed > 0 /\ tasks[n].success = 0
                        THEN "failing" ELSE "completing"
  <2>1. /\ Goto(r, to) /\ pc = "next" /\ ~(k < Total(r)) /\ tasks' = KeepTasks(LiveTasks)
        /\ UNCHANGED <<rows, archives, nextTask>>
    BY <1>9 DEF Conclude, Remaining, Total
  <2>2. /\ DOMAIN tasks' = LiveTasks /\ LiveTasks \subseteq DOMAIN tasks
        /\ \A t \in DOMAIN tasks' : t \in DOMAIN tasks /\ tasks'[t] = tasks[t]
    BY <2>1 DEF KeepTasks, LiveTasks
  <2>3. n \in LiveTasks => /\ to \in {"failing", "completing"}
                           /\ tasks[n].processed = tasks[n].total
                           /\ to = "completing" /\ tasks[n].failed > 0 => tasks[n].success > 0
    BY <2>1, <2>2, <1>0, <1>n, <1>w DEF Begun
  <2>4. to \in {"leaving", "failing", "completing"}
    OBVIOUS
  <2> HIDE DEF to
  <2>5. RequestOK(r)'
    BY <2>1, <2>2, <2>4, <1>g, <1>q, <1>w DEF Begun
  <2> QED BY <2>1, <2>2, <2>3, <2>4, <2>5, <1>g, <1>m, <1>w DEF Begun, Uncounted
<1>11. CASE RemoveTempDir(r)
  <2>1. Goto(r, "done") /\ pc = "leaving" /\ UNCHANGED <<tasks, rows, archives, nextTask>>
    BY <1>11 DEF RemoveTempDir
  <2>2. RequestOK(r)'
    BY <2>1, <1>g, <1>q, <1>w DEF Begun
  <2> QED BY <2>1, <2>2, <1>g, <1>m, <1>w DEF Begun, Uncounted, Working
<1>s. ASSUME NEW status \in {"failed", "completed"}, SetStatus(n, status), Goto(r, "leaving"),
             pc \in {"opening", "failing", "completing"},
             status = "completed" => pc = "completing",
             UNCHANGED <<rows, archives, nextTask>>
      PROVE  TaskInv'
  <2>1. n \in DOMAIN tasks => [tasks[n] EXCEPT !.status = status] \in TaskType
    BY <1>0 DEF TaskType
  <2>2. /\ DOMAIN tasks' = DOMAIN tasks
        /\ \A t \in DOMAIN tasks : t # n => tasks'[t] = tasks[t]
        /\ n \in DOMAIN tasks =>
              /\ tasks'[n].status = status
              /\ tasks'[n].request = tasks[n].request /\ tasks'[n].total = tasks[n].total
              /\ tasks'[n].processed = tasks[n].processed
              /\ tasks'[n].success = tasks[n].success /\ tasks'[n].failed = tasks[n].failed
    BY <1>s, <1>0, <2>1, UpdateSays DEF SetStatus, TaskType
  <2>3. RequestOK(r)'
    BY <1>s, <2>2, <1>r, <1>n, <1>g, <1>c, <1>t, <1>w DEF RequestOK, Begun
  <2>4. ASSUME NEW t \in DOMAIN tasks', t = n PROVE ReportOK(t)'
    <3>1. Committed(r)' = Committed(r) /\ ~Uncounted(r) /\ ~Uncounted(r)'
      BY <1>s, <1>c, <1>g DEF Uncounted
    <3> QED BY <1>s, <2>2, <2>4, <3>1, <1>n, <1>g, <1>w DEF ReportOK
  <2> QED BY <1>s, <2>2, <2>3, <2>4, <1>c, <1>g, <1>w, WorkingStep DEF Same
<1>2. CASE OpenFails(r)
  BY <1>2, <1>s DEF OpenFails
<1>10. CASE Finish(r)
  BY <1>10, <1>s DEF Finish
<1>6. CASE CommitProgram(r)
  <2>1. /\ Goto(r, "committed") /\ pc = "committing" /\ rows' = rows \cup {<<r, k>>}
        /\ UNCHANGED <<tasks, archives, nextTask>>
    BY <1>6 DEF CommitProgram, Item
  <2>2. k \in 1..MaxPrograms /\ k \notin Committed(r)
    BY <2>1, <1>0, <1>r DEF RequestOK, Begun
  <2>3. /\ Committed(r)' = Committed(r) \cup {k}
        /\ \A s \in Requests \ {r} : Committed(s)' = Committed(s)
    BY <2>1, <2>2 DEF Committed
  <2>4. Cardinality(Committed(r)') = Cardinality(Committed(r)) + 1
    <3> HIDE DEF k
    <3> QED BY <2>2, <2>3, CommittedFinite DEF Committed
  <2>5. RequestOK(r)'
    BY <2>1, <2>2, <2>3, <1>0, <1>r, <1>n, <1>g, <1>t, <1>w DEF RequestOK, Begun
  <2>6. ASSUME NEW t \in DOMAIN tasks', t = n PROVE ReportOK(t)'
    BY <2>1, <2>4, <2>6, <1>n, <1>g, <1>t, <1>w DEF ReportOK, Begun, Uncounted
  <2> QED BY <2>1, <2>3, <2>5, <2>6, <1>g, <1>w, WorkingStep DEF Same
<1>8. CASE CountProgram(r)
  <2>1. PICK success \in {0, 1}, failed \in {0, 1} :
           /\ Count(n, success, failed) /\ success + failed = 1
           /\ pc = IF success = 1 THEN "succeeded" ELSE "refused"
    BY <1>8 DEF CountProgram
  <2>2. Goto(r, "next") /\ UNCHANGED <<rows, archives, nextTask>>
    BY <1>8 DEF CountProgram
  <2> DEFINE p == tasks[n].processed + 1
             g == tasks[n].success + success
             f == tasks[n].failed + failed
             s == [tasks[n] EXCEPT !.processed = @ + 1, !.success = @ + success, !.failed = @ + failed]
  <2>3. s = [tasks[n] EXCEPT !.processed = p, !.success = g, !.failed = f]
    OBVIOUS
  <2>4. n \in DOMAIN tasks => p \in Nat /\ g \in Nat /\ f \in Nat
    BY <1>0 DEF TaskType
  <2>5. n \in DOMAIN tasks =>
           /\ s \in TaskType /\ s.status = tasks[n].status /\ s.request = tasks[n].request
           /\ s.total = tasks[n].total /\ s.processed = p /\ s.success = g /\ s.failed = f
    <3> HIDE DEF p, g, f, s
    <3> QED BY <1>0, <2>3, <2>4 DEF TaskType
  <2>6. \/ n \in DOMAIN tasks /\ Update(n, s)
        \/ n \notin DOMAIN tasks /\ UNCHANGED tasks
    BY <2>1 DEF Count
  <2> HIDE DEF s
  <2>7. /\ DOMAIN tasks' = DOMAIN tasks
        /\ \A t \in DOMAIN tasks : t # n => tasks'[t] = tasks[t]
        /\ n \in DOMAIN tasks =>
              /\ tasks'[n].status = tasks[n].status
              /\ tasks'[n].request = tasks[n].request /\ tasks'[n].total = tasks[n].total
              /\ tasks'[n].processed = p
              /\ tasks'[n].success = g /\ tasks'[n].failed = f
    BY <2>5, <2>6, UpdateSays
  <2>8. RequestOK(r)'
    BY <2>1, <2>2, <2>7, <1>g, <1>q, <1>w DEF Begun
  <2>9. ASSUME NEW t \in DOMAIN tasks', t = n PROVE ReportOK(t)'
    <3>1. /\ Committed(r)' = Committed(r) /\ Total(r)' = Total(r) /\ ~Uncounted(r)' /\ ~Begun(r)'
          /\ Begun(r) /\ (Uncounted(r) <=> success = 1)
      BY <2>1, <2>2, <1>c, <1>g, <1>t DEF Uncounted, Begun
    <3>2. tasks[n].status = "processing" /\ tasks[n].total = Total(r)
          /\ tasks[n].request = r
      BY <2>1, <2>7, <2>9, <1>n, <1>w
    <3>3. /\ p = g + f /\ g = Cardinality(Committed(r)) /\ p = k
      BY <2>1, <2>7, <2>9, <3>1, <1>n, <1>w
    <3>4. tasks'[t].status = "processing" /\ tasks'[t].request = r /\ tasks'[t].total = Total(r)
          /\ tasks'[t].processed = p /\ tasks'[t].success = g /\ tasks'[t].failed = f
      BY <2>7, <2>9, <3>2
    <3>5. g \in Nat /\ f \in Nat
      BY <2>4, <2>7, <2>9
    <3> HIDE DEF p, g, f, n, k
    <3> QED BY <2>2, <2>9, <3>1, <3>3, <3>4, <3>5, <1>g, <1>w DEF ReportOK
  <2> QED BY <2>1, <2>2, <2>7, <2>8, <2>9, <1>c, <1>g, <1>w, WorkingStep DEF Same
<1> QED BY <1>1, <1>2, <1>3, <1>4, <1>5, <1>6, <1>7, <1>8, <1>9, <1>10, <1>11 DEF ImportStep

\* The counts of every task are true in every reachable state.
THEOREM TasksTrue == Spec => []TaskInv
<1>1. Init => TaskInv
  BY FS_EmptySet DEF Init, TaskInv, RequestOK, Committed, NoImport, Begun, Working
<1>2. TypeInv /\ TypeInv' /\ ArchiveInv /\ TaskInv /\ [Next]_vars => TaskInv'
  <2> SUFFICES ASSUME TypeInv, TypeInv', ArchiveInv, TaskInv, [Next]_vars PROVE TaskInv'
    OBVIOUS
  <2>0. /\ imports \in [Requests -> ImportType] /\ archives \in [Archives -> ArchiveType]
        /\ imports' \in [Requests -> ImportType]
    BY DEF TypeInv, ImportType, ArchiveType
  <2>1. CASE UNCHANGED vars
    BY <2>1, TasksStutter DEF vars, Same
  <2>2. CASE Tick
    BY <2>2, TasksStutter DEF Tick, memory, Same
  <2>3. CASE PollTask
    BY <2>3, TasksStutter DEF PollTask, KeepTasks, LiveTasks, Same
  <2>4. CASE Restart
    <3>1. /\ DOMAIN tasks' = {} /\ rows' = rows
          /\ \A r \in Requests : /\ imports'[r].pc \in {"idle", "done", "lost"}
                                 /\ imports'[r].pc = "idle" => imports[r].pc = "idle"
                                 /\ imports'[r].k = imports[r].k
      BY <2>4, <2>0 DEF Restart, KeepTasks, ImportType
    <3>2. \A r \in Requests : Committed(r)' = Committed(r)
      BY <3>1 DEF Committed
    <3> QED BY <3>1, <3>2 DEF TaskInv, RequestOK, Begun, Working
  <2>5. ASSUME NEW a \in Archives, ArchiveStep(a) PROVE TaskInv'
    <3>1. UNCHANGED <<imports, rows, nextTask, tasks>>
      BY <2>5 DEF ArchiveStep, ReceiveArchive, RefuseArchive, CreatePreview, FireTimer,
            ExpirePreview, RemoveExpired, memory
    <3>2. \A b \in Archives :
              archives[b].state # "none" => archives'[b].programs = archives[b].programs
      BY <2>5, <2>0 DEF ArchiveStep, ReceiveArchive, RefuseArchive, CreatePreview, FireTimer,
            ExpirePreview, RemoveExpired, ArchiveType
    <3> QED BY <3>1, <3>2, TasksStutter DEF Same
  <2>6. ASSUME NEW r \in Requests, RequestStep(r) PROVE TaskInv'
    <3>1. CASE RefuseMappings(r)
      BY <3>1, <2>0, TasklessStep DEF RefuseMappings, Goto, memory, ImportType
    <3>2. CASE ConsumePreview(r)
      BY <3>2, <2>0, TasklessStep DEF ConsumePreview, Goto, ImportType
    <3> QED BY <2>6, <3>1, <3>2, CreateTaskStep DEF RequestStep
  <2>7. ASSUME NEW r \in Requests, ImportStep(r) PROVE TaskInv'
    BY <2>7, ImportTasks
  <2>8. ASSUME NEW r \in Requests, NEW u \in Users, NEW a \in Archives, GetPreview(r, u, a)
        PROVE  TaskInv'
    BY <2>8, <2>0, TasklessStep DEF GetPreview, ImportType
  <2> QED BY <2>1, <2>2, <2>3, <2>4, <2>5, <2>6, <2>7, <2>8 DEF Next
<1> QED BY <1>1, <1>2, TypeCorrect, ArchivesSafe, PTL DEF Spec

\* Whatever a restart, an expiry or a failure interrupts, what a task says is what
\* was committed.
THEOREM TasksTellTheTruth == Spec => []TaskTruth
<1>1. TaskInv => TaskTruth
  BY DEF TaskInv, ReportOK, TaskTruth, Uncounted
<1> QED BY <1>1, TasksTrue, PTL

\* An import says something new of its own task only, which is then processing.
LEMMA ImportSays ==
    ASSUME TypeInv, TaskInv, NEW r \in Requests, ImportStep(r),
           NEW t \in DOMAIN tasks, t \in DOMAIN tasks', tasks[t].status # "processing"
    PROVE  tasks'[t].status = tasks[t].status
<1>0. \A s \in DOMAIN tasks : tasks[s] \in TaskType
  BY DEF TypeInv, TaskType
<1>1. imports[r].pc \in Working \ {"leaving"} => imports[r].task # t
  BY DEF TaskInv, RequestOK, ReportOK
<1>u. ASSUME NEW n, n # t, NEW s, (n \in DOMAIN tasks /\ Update(n, s)) \/ UNCHANGED tasks
      PROVE  tasks'[t].status = tasks[t].status
  BY <1>u DEF Update
<1>2. CASE UNCHANGED tasks \/ tasks' = KeepTasks(LiveTasks)
  BY <1>2 DEF KeepTasks
<1>3. CASE OpenFails(r) \/ Finish(r)
  BY <1>3, <1>1, <1>u DEF OpenFails, Finish, SetStatus, Working
<1>4. CASE BeginProgram(r)
  BY <1>4, <1>1, <1>u DEF BeginProgram, Touch, Working
<1>5. CASE CountProgram(r)
  BY <1>5, <1>1, <1>u DEF CountProgram, Count, Working
<1> QED BY <1>2, <1>3, <1>4, <1>5 DEF ImportStep, OpenArchive, WriteFiles, RefuseProgram,
        CommitProgram, DeferredRemoval, Conclude, RemoveTempDir

\* A task that has ended keeps its answer until it is dropped or the server is
\* restarted, whichever order the goroutines run in.
THEOREM EndsAreFinal == Spec => EndIsFinal
<1>1. TypeInv /\ TaskInv /\ [Next]_vars =>
        [\A t \in DOMAIN tasks :
           /\ tasks[t].status # "processing"
           /\ t \in DOMAIN tasks' /\ restarts' = restarts
           => tasks'[t].status = tasks[t].status]_vars
  <2> SUFFICES ASSUME TypeInv, TaskInv, Next, NEW t \in DOMAIN tasks,
                      tasks[t].status # "processing", t \in DOMAIN tasks', restarts' = restarts
               PROVE  tasks'[t].status = tasks[t].status
    OBVIOUS
  <2>0. DOMAIN tasks \subseteq 1..(nextTask - 1) /\ restarts \in Nat /\ nextTask \in Nat
    BY ConstantsAssumption DEF TypeInv
  <2>1. CASE UNCHANGED tasks
    BY <2>1
  <2>2. CASE PollTask
    BY <2>2 DEF PollTask, KeepTasks
  <2>3. CASE Restart
    BY <2>3, <2>0 DEF Restart
  <2>4. ASSUME NEW r \in Requests, CreateTask(r) PROVE tasks'[t].status = tasks[t].status
    BY <2>4, <2>0 DEF CreateTask
  <2>5. ASSUME NEW r \in Requests, ImportStep(r) PROVE tasks'[t].status = tasks[t].status
    BY <2>5, ImportSays
  <2> QED BY <2>1, <2>2, <2>3, <2>4, <2>5 DEF Next, Tick, memory, ArchiveStep, ReceiveArchive,
          RefuseArchive, CreatePreview, FireTimer, ExpirePreview, RemoveExpired, RequestStep,
          RefuseMappings, ConsumePreview, GetPreview
<1> QED BY <1>1, TypeCorrect, TasksTrue, PTL DEF Spec, EndIsFinal

=============================================================================
