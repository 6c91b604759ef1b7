---------------------------- MODULE ImportDialog ----------------------------
(***************************************************************************)
(* The import dialog of the program page (useProgramBatchImport.ts): three *)
(* steps, and an interval that polls the status of the import.             *)
(*                                                                         *)
(* The interval outlives the dialog, the answers of its polls outlive the  *)
(* interval, and the answer to a start may come to a dialog that was       *)
(* closed, or opened anew, since.  An effect clears the interval whenever  *)
(* another takes its place.                                                *)
(***************************************************************************)
EXTENDS Naturals, Sequences, FiniteSets, SequencesExt

CONSTANTS
    Workstations,   \* names of workstations an archive may contain
    MaxOpenings,    \* bound: how often the dialog is opened
    MaxImports,     \* bound: imports started, here or elsewhere
    MaxPolls,       \* bound: polls in flight (timeout over interval)
    MaxRestarts     \* bound: restarts of the server

ASSUME ImportAssumption ==
    /\ {MaxOpenings, MaxImports, MaxPolls, MaxRestarts} \subseteq Nat
    /\ Workstations # {}

VARIABLES
    dialog,     \* the React state of the hook
    mounted,    \* whether the program page is on the screen
    alive,      \* intervals that have not been cleared
    calls,      \* uploads and starts in flight
    polls,      \* polls in flight, those answered in the order of the answers
    intervals,  \* how many intervals were made
    opening,    \* how often the dialog was opened
    imports,    \* history: the opening of each import, the workstations it lacks
    taskTable,  \* the server's tasks: task id -> import and state
    restarts,   \* restarts of the server
    past        \* history: which accidents have happened

importVars == <<dialog, mounted, alive, calls, polls, intervals, opening,
                imports, taskTable, restarts, past>>
server == <<imports, taskTable, restarts>>

Archives == SUBSET Workstations \ {{}}
NoArchive == {}
NoInterval == [no |-> 0, task |-> 0]
NoStatus == [import |-> 0, state |-> "none"]

Ended(state) == state \in {"completed", "failed"}

Closed == [supported |-> TRUE, visible |-> FALSE, step |-> 0, preview |-> NoArchive,
           mappings |-> {}, lined |-> {}, status |-> NoStatus,
           polling |-> NoInterval, uploading |-> FALSE]

ImportInit ==
    /\ dialog = Closed /\ mounted = TRUE
    /\ alive = {} /\ calls = {} /\ polls = <<>> /\ intervals = 0 /\ opening = 0
    /\ imports = <<>> /\ taskTable = <<>> /\ restarts = 0
    /\ past = [stray |-> FALSE, overtaken |-> FALSE]

\* Mutant: an opening keeps the status it last showed.
ResetButStatus(d) == [d EXCEPT !.step = 0, !.preview = NoArchive, !.mappings = {},
                               !.lined = {}]

\* What a new opening and a closing both reset.
Reset(d) == [d EXCEPT !.step = 0, !.preview = NoArchive, !.mappings = {},
                      !.lined = {}, !.status = NoStatus]

\* Mutant: no effect clears what is replaced.
ReplacedNothing(intervalsAlive, by) == intervalsAlive

\* setBatchImportPolling: the effect's cleanup clears the interval replaced.
Replaced(intervalsAlive, by) ==
    IF mounted /\ by # dialog.polling THEN intervalsAlive \ {dialog.polling} ELSE intervalsAlive

\* An answer to an opening that is over, or to a page that is gone.
Stray(c) == ~mounted \/ ~dialog.visible \/ c.opening # opening

\* React ignores what is set in a component that was unmounted.
Set(d) == dialog' = IF mounted THEN d ELSE dialog

Mark(stray, overtaken) ==
    past' = [stray |-> past.stray \/ stray, overtaken |-> past.overtaken \/ overtaken]

-----------------------------------------------------------------------------
\* The user.

Open ==
    /\ mounted /\ dialog.supported /\ ~dialog.visible /\ opening < MaxOpenings
    /\ dialog' = [Reset(dialog) EXCEPT !.visible = TRUE]
    /\ opening' = opening + 1
    /\ UNCHANGED <<mounted, alive, calls, polls, intervals, server, past>>

\* The first step: an area to drop an archive on.
OffersUpload == mounted /\ dialog.visible /\ dialog.step = 0 /\ ~dialog.uploading

Upload(archive) ==
    /\ OffersUpload
    /\ dialog' = [dialog EXCEPT !.uploading = TRUE]
    /\ calls' = calls \cup {[kind |-> "upload", opening |-> opening, archive |-> archive,
                             task |-> 0, polling |-> NoInterval]}
    /\ UNCHANGED <<mounted, alive, polls, intervals, opening, server, past>>

\* The second step: a line and a model for each workstation of the preview.
OffersMapping == mounted /\ dialog.visible /\ dialog.step = 1 /\ dialog.preview # NoArchive

\* production_line_id of the mapping whose workstation_name is w.
MapLine(w) ==
    /\ OffersMapping /\ w \in dialog.preview
    /\ w \in dialog.mappings \ dialog.lined
    /\ dialog' = [dialog EXCEPT !.lined = @ \cup {w}]
    /\ UNCHANGED <<mounted, alive, calls, polls, intervals, opening, server, past>>

BackToUpload ==
    /\ OffersMapping
    /\ dialog' = [dialog EXCEPT !.step = 0]
    /\ UNCHANGED <<mounted, alive, calls, polls, intervals, opening, server, past>>

\* The closure of the click keeps the preview, the mappings and the interval.
Confirm ==
    /\ OffersMapping /\ dialog.mappings \subseteq dialog.lined
    /\ dialog' = [dialog EXCEPT !.step = 2]
    /\ calls' = calls \cup {[kind |-> "start", opening |-> opening, archive |-> dialog.preview,
                             lined |-> dialog.lined, task |-> 0, polling |-> dialog.polling]}
    /\ UNCHANGED <<mounted, alive, polls, intervals, opening, server, past>>

\* batchImportPolling keeps the interval that is cleared here.
Close ==
    /\ mounted /\ dialog.visible
    /\ dialog' = [Reset(dialog) EXCEPT !.visible = FALSE]
    /\ alive' = alive \ {dialog.polling}
    /\ UNCHANGED <<mounted, calls, polls, intervals, opening, server, past>>

\* The page is unmounted: the cleanup of the effect runs a last time.
Leave ==
    /\ mounted /\ mounted' = FALSE
    /\ alive' = alive \ {dialog.polling}
    /\ dialog' = Closed
    /\ UNCHANGED <<calls, polls, intervals, opening, server, past>>

-----------------------------------------------------------------------------
\* Answers to an upload and to a start.

Answered(c) == calls' = calls \ {c}

\* The parsed archive, and a mapping without a line for each workstation.
UploadParsed(c) ==
    /\ c \in calls /\ c.kind = "upload" /\ Answered(c)
    /\ Set([dialog EXCEPT !.uploading = FALSE, !.step = 1, !.preview = c.archive,
                          !.mappings = c.archive, !.lined = {}])
    /\ Mark(Stray(c), FALSE)
    /\ UNCHANGED <<mounted, alive, polls, intervals, opening, server>>

\* missing: 404 or 405, from a server without the interface.
UploadFailed(c, missing) ==
    /\ c \in calls /\ c.kind = "upload" /\ Answered(c)
    /\ Set([dialog EXCEPT !.uploading = FALSE, !.supported = @ /\ ~missing])
    /\ Mark(Stray(c), FALSE)
    /\ UNCHANGED <<mounted, alive, polls, intervals, opening, server>>

StartAnswered(c) ==
    /\ c \in calls /\ c.kind = "start" /\ c.task # 0 /\ Answered(c)
    /\ LET interval == [no |-> intervals + 1, task |-> c.task] IN
         /\ alive' = Replaced(alive \ {c.polling}, interval) \cup {interval}
         /\ Set([dialog EXCEPT !.polling = interval])
    /\ intervals' = intervals + 1
    /\ Mark(Stray(c), FALSE)
    /\ UNCHANGED <<mounted, polls, opening, server>>

\* Also the answer of a start that took place may be lost.
StartFailed(c, missing) ==
    /\ c \in calls /\ c.kind = "start" /\ Answered(c) /\ (missing => c.task = 0)
    /\ Set([dialog EXCEPT !.supported = @ /\ ~missing, !.step = IF missing THEN 0 ELSE 1])
    /\ Mark(Stray(c), FALSE)
    /\ UNCHANGED <<mounted, alive, polls, intervals, opening, server>>

-----------------------------------------------------------------------------
\* Polling.

\* The interval fires, whether or not its last poll was answered.
Poll(i) ==
    /\ i \in alive /\ Len(polls) < MaxPolls
    /\ polls' = Append(polls, [interval |-> i, opening |-> opening,
                               status |-> NoStatus, passed |-> FALSE])
    /\ UNCHANGED <<dialog, mounted, alive, calls, intervals, opening, server, past>>

\* The k-th answer arrives; those the server gave before it are overtaken.
Removed(k) ==
    polls' = RemoveAt([j \in DOMAIN polls |->
                 [polls[j] EXCEPT !.passed = @ \/ (j < k /\ polls[j].status # NoStatus)]], k)

PollAnswered(k) ==
    LET p == polls[k]
        stops == Ended(p.status.state)
        polling == IF stops THEN NoInterval ELSE dialog.polling
    IN
    /\ p.status.import # 0 /\ Removed(k)
    /\ Set([dialog EXCEPT !.status = p.status, !.polling = polling])
    /\ alive' = IF stops THEN Replaced(alive \ {p.interval}, NoInterval) ELSE alive
    /\ Mark(Stray(p), p.passed)
    /\ UNCHANGED <<mounted, calls, intervals, opening, server>>

\* 404: a server that was restarted since knows no such task.
PollUnknown(k) ==
    LET p == polls[k] IN
    /\ p.status.state = "unknown" /\ Removed(k)
    /\ Set([dialog EXCEPT !.polling = NoInterval, !.supported = FALSE])
    /\ alive' = Replaced(alive \ {p.interval}, NoInterval)
    /\ Mark(Stray(p), p.passed)
    /\ UNCHANGED <<mounted, calls, intervals, opening, server>>

\* Mutant: any error stops the polling.
PollLostStopping(k) ==
    /\ polls' = RemoveAt(polls, k)
    /\ alive' = alive \ {polls[k].interval}
    /\ UNCHANGED <<dialog, mounted, calls, intervals, opening, server, past>>

\* Any other error leaves the interval as it is.
PollLost(k) ==
    /\ polls' = RemoveAt(polls, k)
    /\ UNCHANGED <<dialog, mounted, alive, calls, intervals, opening, server, past>>

-----------------------------------------------------------------------------
\* The server: ids of tasks count from 1 and start again after a restart.

CreateTask(unlined, of) ==
    /\ Len(imports) < MaxImports
    /\ imports' = Append(imports, [unlined |-> unlined, opening |-> of])
    /\ taskTable' = Append(taskTable, [import |-> Len(imports) + 1, state |-> "processing"])

ServeStart(c) ==
    /\ c \in calls /\ c.kind = "start" /\ c.task = 0
    /\ CreateTask(c.archive \ c.lined, c.opening)
    /\ calls' = (calls \ {c}) \cup {[c EXCEPT !.task = Len(taskTable) + 1]}
    /\ UNCHANGED <<dialog, mounted, alive, polls, intervals, opening, restarts, past>>

\* The same user starts an import in another window; before a restart that
\* would only make the ids skip a number.
StartElsewhere ==
    /\ restarts > 0
    /\ CreateTask({}, 0)
    /\ UNCHANGED <<dialog, mounted, alive, calls, polls, intervals, opening, restarts, past>>

RunTask(t, state) ==
    /\ taskTable[t].state = "processing"
    /\ taskTable' = [taskTable EXCEPT ![t].state = state]
    /\ UNCHANGED <<dialog, mounted, alive, calls, polls, intervals, opening,
                   imports, restarts, past>>

ServePoll(k) ==
    LET task == polls[k].interval.task
        status == IF task \in DOMAIN taskTable THEN taskTable[task]
                                           ELSE [import |-> 0, state |-> "unknown"]
    IN
    /\ polls[k].status = NoStatus
    /\ polls' = Append(RemoveAt(polls, k), [polls[k] EXCEPT !.status = status])
    /\ UNCHANGED <<dialog, mounted, alive, calls, intervals, opening, server, past>>

Restart ==
    /\ restarts < MaxRestarts /\ taskTable # <<>>
    /\ taskTable' = <<>> /\ restarts' = restarts + 1
    /\ UNCHANGED <<dialog, mounted, alive, calls, polls, intervals, opening, imports, past>>

-----------------------------------------------------------------------------

ImportUser ==
    \/ Open \/ BackToUpload \/ Confirm \/ Close \/ Leave
    \/ \E a \in Archives : Upload(a)
    \/ \E w \in Workstations : MapLine(w)

UploadAnswers ==
    \E c \in calls, missing \in BOOLEAN : UploadParsed(c) \/ UploadFailed(c, missing)
StartAnswers ==
    \E c \in calls, missing \in BOOLEAN : StartAnswered(c) \/ StartFailed(c, missing)

ServeTasks == \E t \in DOMAIN taskTable, s \in {"completed", "failed"} : RunTask(t, s)

ImportNext ==
    \/ ImportUser
    \/ \E c \in calls : ServeStart(c)
    \/ UploadAnswers \/ StartAnswers
    \/ \E i \in alive : Poll(i)
    \/ \E k \in DOMAIN polls :
         ServePoll(k) \/ PollAnswered(k) \/ PollUnknown(k) \/ PollLost(k)
    \/ ServeTasks \/ StartElsewhere \/ Restart

(***************************************************************************)
(* A browser fires its intervals, axios ends every request, and the        *)
(* goroutine of an import runs to its end.  A poll that is made again and  *)
(* again is at last answered: the network does not fail for ever.          *)
(***************************************************************************)
ImportFairness ==
    /\ WF_importVars(ServeTasks) /\ WF_importVars(UploadAnswers)
    /\ WF_importVars(\E i \in alive : Poll(i))
    /\ SF_importVars(\E k \in DOMAIN polls : ServePoll(k))
    /\ SF_importVars(\E k \in DOMAIN polls : PollAnswered(k) \/ PollUnknown(k))

ImportSpec == ImportInit /\ [][ImportNext]_importVars /\ ImportFairness

-----------------------------------------------------------------------------

ImportTypeOK ==
    /\ dialog \in [supported : BOOLEAN, visible : BOOLEAN, step : 0..2,
                   preview : SUBSET Workstations, mappings : SUBSET Workstations,
                   lined : SUBSET Workstations,
                   status : [import : 0..MaxImports,
                             state : {"none", "processing", "completed", "failed"}],
                   polling : [no : 0..intervals, task : 0..MaxImports],
                   uploading : BOOLEAN]
    /\ mounted \in BOOLEAN /\ opening \in 0..MaxOpenings
    /\ intervals \in 0..MaxImports /\ restarts \in 0..MaxRestarts
    /\ alive \subseteq [no : 1..intervals, task : 1..MaxImports]
    /\ Len(polls) <= MaxPolls /\ Len(imports) <= MaxImports /\ Len(taskTable) <= Len(imports)
    /\ past \in [stray : BOOLEAN, overtaken : BOOLEAN]

(***************************************************************************)
(* While the page is there at most one interval polls, and it is the one   *)
(* the state holds, so that closing or leaving clears it.  The closure of  *)
(* startBatchImportPolling cannot see an interval made since the click;    *)
(* the effect's cleanup can.                                               *)
(***************************************************************************)
OneInterval == mounted => alive \subseteq {dialog.polling}

\* The third step: nothing is shown until the first poll is answered.
ShownStatus == IF dialog.visible /\ dialog.step = 2 THEN dialog.status ELSE NoStatus

(***************************************************************************)
(* The dialog shows the import that was started in it.  Only an answer to  *)
(* an earlier opening, or a server that gave the task id a second time     *)
(* after a restart, can put another in its place.  And every import that   *)
(* is started here has a line for each workstation of its archive,         *)
(* whatever was uploaded, mapped, gone back from and uploaded before.      *)
(***************************************************************************)
ShowsItsImport ==
    /\ \A n \in DOMAIN imports : imports[n].unlined = {}
    /\ (ShownStatus.import # 0 /\ ~past.stray /\ restarts = 0)
          => imports[ShownStatus.import].opening = opening

WatchedToTheEnd ==
    \/ dialog.polling \in alive
    \/ \E c \in calls : c.kind = "start" /\ c.opening = opening
    \/ \E k \in DOMAIN polls : polls[k].opening = opening
    \/ ShownStatus.state \in {"completed", "failed"}

(***************************************************************************)
(* The third step is left to itself only when it shows how the import      *)
(* ended: unless an answer overtook an earlier one, an answer to an        *)
(* earlier opening stopped the polling, or the server was restarted.       *)
(***************************************************************************)
NoStall ==
    (dialog.visible /\ dialog.step = 2 /\ dialog.supported /\ restarts = 0
       /\ ~past.stray /\ ~past.overtaken) => WatchedToTheEnd
=============================================================================
