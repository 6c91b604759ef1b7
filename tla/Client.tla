------------------------------- MODULE Client -------------------------------
(***************************************************************************)
(* The pages of the web client side by side.  Each keeps its state in its  *)
(* own React component and talks to the server by itself; they share       *)
(* nothing but what the server stores, so that a behaviour of the client   *)
(* is one of the page it is about, and the others may be left at rest.     *)
(***************************************************************************)
EXTENDS ImportDialog, PermissionMatrix, LineFields, Session, ProgramEditor,
        ProgramTable, ProgramRelations, AdminLists, MigrationPolling, BackupRestore,
        ExportCenter

CONSTANT Areas  \* the parts looked at

ASSUME ClientAssumption ==
    Areas \subseteq {"import", "matrix", "fields", "session", "editor", "table", "relations",
                     "lists", "migration", "backups", "export"}

VARIABLE area   \* the part of the client this behaviour is about

clientVars ==
    <<area, importVars, matrixVars, fieldVars, sessionVars, editorVars, tableVars,
      relationVars, listVars, migrationVars, backupVars, centerVars>>

-----------------------------------------------------------------------------
\* One area moves, the others rest.

ImportArea(A) ==
    /\ area = "import" /\ A
    /\ UNCHANGED <<area, matrixVars, fieldVars, sessionVars, editorVars, tableVars,
                    relationVars, listVars, migrationVars, backupVars, centerVars>>

MatrixArea(A) ==
    /\ area = "matrix" /\ A
    /\ UNCHANGED <<area, importVars, fieldVars, sessionVars, editorVars, tableVars,
                    relationVars, listVars, migrationVars, backupVars, centerVars>>

FieldsArea(A) ==
    /\ area = "fields" /\ A
    /\ UNCHANGED <<area, importVars, matrixVars, sessionVars, editorVars, tableVars,
                    relationVars, listVars, migrationVars, backupVars, centerVars>>

SessionArea(A) ==
    /\ area = "session" /\ A
    /\ UNCHANGED <<area, importVars, matrixVars, fieldVars, editorVars, tableVars,
                    relationVars, listVars, migrationVars, backupVars, centerVars>>

EditorArea(A) ==
    /\ area = "editor" /\ A
    /\ UNCHANGED <<area, importVars, matrixVars, fieldVars, sessionVars, tableVars,
                    relationVars, listVars, migrationVars, backupVars, centerVars>>

TableArea(A) ==
    /\ area = "table" /\ A
    /\ UNCHANGED <<area, importVars, matrixVars, fieldVars, sessionVars, editorVars,
                    relationVars, listVars, migrationVars, backupVars, centerVars>>

RelationsArea(A) ==
    /\ area = "relations" /\ A
    /\ UNCHANGED <<area, importVars, matrixVars, fieldVars, sessionVars, editorVars,
                    tableVars, listVars, migrationVars, backupVars, centerVars>>

AdminArea(A) ==
    /\ area = "lists" /\ A
    /\ UNCHANGED <<area, importVars, matrixVars, fieldVars, sessionVars, editorVars,
                    tableVars, relationVars, migrationVars, backupVars, centerVars>>

MigrationArea(A) ==
    /\ area = "migration" /\ A
    /\ UNCHANGED <<area, importVars, matrixVars, fieldVars, sessionVars, editorVars,
                    tableVars, relationVars, listVars, backupVars, centerVars>>

BackupArea(A) ==
    /\ area = "backups" /\ A
    /\ UNCHANGED <<area, importVars, matrixVars, fieldVars, sessionVars, editorVars,
                    tableVars, relationVars, listVars, migrationVars, centerVars>>

ExportArea(A) ==
    /\ area = "export" /\ A
    /\ UNCHANGED <<area, importVars, matrixVars, fieldVars, sessionVars, editorVars,
                    tableVars, relationVars, listVars, migrationVars, backupVars>>

-----------------------------------------------------------------------------

\* What rests starts from one of its initial states.
AtRest ==
    /\ area # "session" => \A u \in Users : accounts[u].role = CHOOSE r \in Roles : TRUE
    /\ area # "editor" => \A v \in DOMAIN described :
                            described[v].of = CHOOSE p \in Programs : TRUE
    /\ area # "lists" => entries = {} /\ list.kind = CHOOSE k \in ListKinds : TRUE
    /\ area # "backups" => stored = {}
    /\ area # "relations" => mapped = {}

ClientInit ==
    /\ area \in Areas
    /\ ImportInit /\ MatrixInit /\ FieldsInit /\ SessionInit /\ EditorInit
    /\ TableInit /\ RelationsInit /\ AdminInit /\ MigrationInit /\ BackupInit
    /\ CenterInit
    /\ AtRest

ClientNext ==
    \/ ImportArea(ImportNext)
    \/ MatrixArea(MatrixNext)
    \/ FieldsArea(FieldsNext)
    \/ SessionArea(SessionNext)
    \/ EditorArea(EditorNext)
    \/ TableArea(TableNext)
    \/ RelationsArea(RelationsNext)
    \/ AdminArea(AdminNext)
    \/ MigrationArea(MigrationNext)
    \/ BackupArea(BackupNext)
    \/ ExportArea(CenterNext)

\* What is loaded comes, or fails.
LoadsEnd ==
    \/ MatrixArea(LoadAnswers) \/ FieldsArea(FetchAnswers) \/ EditorArea(EditorAnswers)
    \/ TableArea(RowAnswers) \/ RelationsArea(MappingAnswers) \/ AdminArea(ListAnswers)
    \/ BackupArea(ListingAnswers) \/ ExportArea(CenterNext /\ ColumnAnswers)

\* What is saved, uploaded or made is done, or fails.
WorkEnds ==
    \/ ImportArea(UploadAnswers) \/ MatrixArea(SaveAnswers) \/ FieldsArea(SaverAnswers)
    \/ BackupArea(TaskAnswers) \/ ExportArea(CenterNext /\ ExportEnds)

\* What takes its time anyway.
TimePasses ==
    ImportArea(ServeTasks) \/ MigrationArea(MigrationGoesOn) \/ SessionArea(Tick)
IntervalFires ==
    \/ ImportArea(\E i \in alive : Poll(i)) \/ MigrationArea(\E p \in pollers : PollStatus(p))

(***************************************************************************)
(* The fairness of each part.  Only one of them moves, so that one         *)
(* condition stands for those of all of them.                              *)
(***************************************************************************)
ClientFairness ==
    /\ WF_clientVars(LoadsEnd) /\ WF_clientVars(WorkEnds)
    /\ WF_clientVars(TimePasses) /\ WF_clientVars(IntervalFires)
    /\ SF_clientVars(ImportArea(\E k \in DOMAIN polls : ServePoll(k)))
    /\ SF_clientVars(ImportArea(\E k \in DOMAIN polls : PollAnswered(k) \/ PollUnknown(k)))
    /\ WF_clientVars(MigrationArea(PollServed)) /\ WF_clientVars(MigrationArea(PollReturns))
    /\ WF_clientVars(ExportArea(PreviewAnswers)) /\ WF_clientVars(ExportArea(FigureAnswers))
    /\ WF_clientVars(BackupArea(TaskListingAnswers))
    /\ \A t \in Tabs : /\ WF_clientVars(SessionArea(CheckTimeout(t)))
                       /\ WF_clientVars(SessionArea(LoginGoesOn(t)))
                       /\ WF_clientVars(SessionArea(PasswordGoesOn(t)))

ClientSpec == ClientInit /\ [][ClientNext]_clientVars /\ ClientFairness

-----------------------------------------------------------------------------

(***************************************************************************)
(* The page that moves keeps the types of its state; the others rest.      *)
(***************************************************************************)
ClientTypeOK ==
    CASE area = "import" -> ImportTypeOK
      [] area = "matrix" -> MatrixTypeOK
      [] area = "fields" -> LineFieldsTypeOK
      [] area = "session" -> SessionTypeOK
      [] area = "editor" -> EditorTypeOK
      [] area = "table" -> TableTypeOK
      [] area = "relations" -> RelationsTypeOK
      [] area = "lists" -> ListTypeOK
      [] area = "migration" -> MigrationTypeOK
      [] area = "backups" -> BackupTypeOK
      [] area = "export" -> CenterTypeOK
      [] OTHER -> FALSE

\* The spinners of what is loaded.
Loading ==
    \/ area = "matrix" /\ busy.loading
    \/ area = "fields" /\ manager.loading
    \/ area = "editor" /\ editor.loading
    \/ area = "table" /\ table.loading
    \/ area = "relations" /\ drawer.loading
    \/ area = "lists" /\ list.loading
    \/ area = "backups" /\ backupTab.loading
    \/ area = "export" /\ center.columnsLoading

\* The buttons and dialogs that are locked until something is done.
Working ==
    \/ area = "import" /\ dialog.uploading
    \/ area = "matrix" /\ busy.saving
    \/ area = "fields" /\ manager.saving
    \/ area = "backups" /\ backupTab.working # ""
    \/ area = "export" /\ center.exporting

\* The intervals that ask how an import or a migration is doing.
Watching ==
    \/ area = "import" /\ alive # {}
    \/ area = "migration" /\ pollers # {}

(***************************************************************************)
(* No flag of Loading or Working, none of the forms of the session, and no *)
(* interval of Watching stays set for ever, whatever becomes of the        *)
(* requests: spinners stop, dialogs and buttons unlock, though several     *)
(* operations share a flag; and the intervals that watch an import or a    *)
(* migration end, also those whose handle was lost and those made for a    *)
(* page that is gone.  (Pages that are not modelled have flags of their    *)
(* own.)                                                                   *)
(***************************************************************************)
ClientSettles ==
    /\ []<>~Loading /\ []<>~Working /\ []<>~Watching
    /\ []<>~(area = "export" /\ center.loading)
    /\ []<>~(area = "export" /\ center.counting)
    /\ FormsUnlock
=============================================================================
