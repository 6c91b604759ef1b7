--------------------------- MODULE BackupRestore ---------------------------
(***************************************************************************)
(* The backups of the system page (SystemManagement.tsx): the list, making *)
(* and deleting backups, and the dialog that restores one.                 *)
(*                                                                         *)
(* One string of React state, operationLoading, says which backup or       *)
(* restore is going on, though several may be.  The API client gives up    *)
(* after 10 s, the server goes on.                                         *)
(***************************************************************************)
EXTENDS Naturals, Sequences, FiniteSets

CONSTANTS
    BackupKinds,    \* what may be backed up: the database, files or both
    Backups,        \* backups there may be
    MaxListings,    \* bound: loads of the list in flight
    MaxTasks        \* bound: backups, deletions and restores under way

ASSUME BackupAssumption ==
    BackupKinds \cap {"", "restore"} = {} /\ MaxListings \in Nat \ {0} /\ MaxTasks \in Nat

VARIABLES
    backupTab,  \* the React state of the tab
    listings,   \* loads of the list in flight, in the order they were sent
    tasks,      \* requests that make, delete or restore a backup
    stored,     \* the server's backups
    mixedUp     \* history: tasks overlapped; the list shown is known to be old

backupVars == <<backupTab, listings, tasks, stored, mixedUp>>

NoBackup == "none"
NoTask == [does |-> "nothing", of |-> NoBackup, lost |-> FALSE]
Task(does, of) == [does |-> does, of |-> of, lost |-> FALSE]
Unread == {"unread"}

\* Who waits for the list: nobody, or the handler of a task.
Listing(task) == [found |-> Unread, task |-> task, passed |-> FALSE]

BackupInit ==
    /\ stored \in SUBSET Backups
    /\ backupTab = [listed |-> {}, loading |-> TRUE, working |-> "",
                    confirming |-> FALSE, operation |-> NoBackup]
    /\ listings = <<Listing(NoTask)>> /\ tasks = {}
    /\ mixedUp = [tasks |-> FALSE, list |-> FALSE]

\* The restores the page waits for: also those whose handler waits for the list.
Restoring ==
    {t \in tasks \cup {listings[i].task : i \in DOMAIN listings} :
       t.does = "restore" /\ ~t.lost}

-----------------------------------------------------------------------------
\* The list.

\* loadBackups, called by the handler of a task, in a step that leaves new.
LoadBackups(new, task) ==
    /\ Len(listings) < MaxListings /\ listings' = Append(listings, Listing(task))
    /\ backupTab' = [new EXCEPT !.loading = TRUE]

RefreshBackups ==
    /\ ~backupTab.confirming /\ ~backupTab.loading /\ LoadBackups(backupTab, NoTask)
    /\ UNCHANGED <<tasks, stored, mixedUp>>

BackupsRead(i) ==
    /\ i \in DOMAIN listings /\ listings[i].found = Unread
    /\ listings' = [listings EXCEPT ![i].found = stored]
    /\ UNCHANGED <<backupTab, tasks, stored, mixedUp>>

\* The finally of what waited: the flag goes, whosever it is by now, and a
\* restore forgets the operation, whichever is being confirmed by now.
Finally(tab, task) ==
    CASE task.does = "make" -> [tab EXCEPT !.working = ""]
      [] task.does = "restore" -> [tab EXCEPT !.working = "", !.operation = NoBackup]
      [] OTHER -> tab

\* History: a backup begins, or ends, while a restore goes on.
Overlaps(task) == mixedUp.tasks \/ (task.does = "make" /\ Restoring # {})

\* History: the loads sent before this one.
ListingEnded(i) ==
    [j \in 1..Len(listings) - 1 |-> IF j >= i THEN listings[j + 1]
                                    ELSE [listings[j] EXCEPT !.passed = TRUE]]

BackupsListed(i) ==
    /\ i \in DOMAIN listings /\ listings[i].found # Unread
    /\ backupTab' = [Finally(backupTab, listings[i].task) EXCEPT
                        !.listed = listings[i].found, !.loading = FALSE]
    /\ mixedUp' = [tasks |-> Overlaps(listings[i].task), list |-> listings[i].passed]
    /\ listings' = ListingEnded(i)
    /\ UNCHANGED <<tasks, stored>>

BackupsNotListed(i) ==
    /\ i \in DOMAIN listings /\ listings' = ListingEnded(i)
    /\ backupTab' = [Finally(backupTab, listings[i].task) EXCEPT !.loading = FALSE]
    /\ mixedUp' = [tasks |-> Overlaps(listings[i].task),
                   list |-> mixedUp.list \/ ~listings[i].passed]
    /\ UNCHANGED <<tasks, stored>>

-----------------------------------------------------------------------------
\* What is asked for.

Begin(task) ==
    /\ Cardinality(tasks) < MaxTasks /\ task \notin tasks /\ tasks' = tasks \cup {task}
    /\ mixedUp' = [mixedUp EXCEPT !.tasks = Overlaps(task)]
    /\ UNCHANGED <<listings, stored>>

\* The button of the kind being backed up waits, the others do not.
CreateBackup(kind) ==
    /\ ~backupTab.confirming /\ backupTab.working # kind
    /\ backupTab' = [backupTab EXCEPT !.working = kind] /\ Begin(Task("make", kind))

DeleteBackup(b) ==
    /\ ~backupTab.confirming /\ b \in backupTab.listed
    /\ UNCHANGED backupTab /\ Begin(Task("delete", b))

ConfirmRestore(b) ==
    /\ ~backupTab.confirming /\ b \in backupTab.listed
    /\ backupTab' = [backupTab EXCEPT !.operation = b, !.confirming = TRUE]
    /\ UNCHANGED <<listings, tasks, stored, mixedUp>>

\* Also while the restore goes on.
CancelRestore ==
    /\ backupTab.confirming
    /\ backupTab' = [backupTab EXCEPT !.operation = NoBackup, !.confirming = FALSE]
    /\ UNCHANGED <<listings, tasks, stored, mixedUp>>

\* Mutant: the button of the dialog does not wait.
MayRestoreAnyTime == backupTab.confirming /\ backupTab.operation # NoBackup

\* confirmLoading holds the button while a restore shows as going on; without
\* an operation it does nothing.
MayRestore ==
    /\ backupTab.confirming /\ backupTab.operation # NoBackup
    /\ backupTab.working # "restore"

ExecuteRestore ==
    /\ MayRestore
    /\ backupTab' = [backupTab EXCEPT !.working = "restore"]
    /\ Begin(Task("restore", backupTab.operation))

-----------------------------------------------------------------------------
\* The answers.

\* The server makes a backup b, also one to go back to before it restores.
NewBackup(b) == b \in Backups \ stored /\ stored' = stored \cup {b}
Performed(t, b) ==
    CASE t.does = "make" -> NewBackup(b)
      [] t.does = "delete" -> t.of = b /\ b \in stored /\ stored' = stored \ {b}
      [] t.does = "restore" -> t.of \in stored /\ (NewBackup(b) \/ UNCHANGED stored)

\* A backup that was made, deleted or restored has the list loaded again; a
\* restore closes whatever dialog is open by then.
TaskDone(t, b) ==
    /\ t \in tasks /\ ~t.lost /\ tasks' = tasks \ {t} /\ Performed(t, b)
    /\ LoadBackups([backupTab EXCEPT !.confirming = @ /\ t.does # "restore"], t)
    /\ UNCHANGED mixedUp

\* History: what the server changes without telling the page.
Untold ==
    listings' = IF stored' = stored THEN listings
                ELSE [i \in DOMAIN listings |->
                        [listings[i] EXCEPT !.passed = @ \/ listings[i].found # Unread]]

\* Refused, perhaps half way through a restore: nothing is loaded.
TaskFailed(t, b) ==
    /\ t \in tasks /\ ~t.lost /\ tasks' = tasks \ {t}
    /\ UNCHANGED stored \/ (t.does = "restore" /\ NewBackup(b))
    /\ backupTab' = Finally(backupTab, t)
    /\ mixedUp' = [tasks |-> Overlaps(t), list |-> mixedUp.list \/ stored' # stored]
    /\ Untold

\* The time is up for the page.
TaskTimesOut(t) ==
    /\ t \in tasks /\ ~t.lost
    /\ tasks' = (tasks \ {t}) \cup {[t EXCEPT !.lost = TRUE]}
    /\ backupTab' = Finally(backupTab, t)
    /\ mixedUp' = [mixedUp EXCEPT !.tasks = Overlaps(t)]
    /\ UNCHANGED <<listings, stored>>

\* The server comes to an end of what the page no longer waits for.
TaskEndsUnseen(t, b) ==
    /\ t \in tasks /\ t.lost /\ tasks' = tasks \ {t}
    /\ Performed(t, b) \/ UNCHANGED stored
    /\ mixedUp' = [mixedUp EXCEPT !.list = @ \/ stored' # stored]
    /\ Untold /\ UNCHANGED backupTab

-----------------------------------------------------------------------------

ListingAnswers ==
    \E i \in 1..MaxListings : BackupsRead(i) \/ BackupsListed(i) \/ BackupsNotListed(i)
Shows(t) == t.does \in {"make", "restore"} /\ ~t.lost
TaskListingAnswers ==
    \E i \in DOMAIN listings :
        Shows(listings[i].task) /\ (BackupsRead(i) \/ BackupsListed(i) \/ BackupsNotListed(i))
TaskAnswers == \E t \in tasks : Shows(t) /\ TaskTimesOut(t)

BackupNext ==
    \/ RefreshBackups \/ CancelRestore \/ ExecuteRestore
    \/ \E k \in BackupKinds : CreateBackup(k)
    \/ \E b \in Backups : DeleteBackup(b) \/ ConfirmRestore(b)
    \/ ListingAnswers
    \/ \E t \in tasks : \/ TaskTimesOut(t)
                      \/ \E b \in Backups : \/ TaskDone(t, b) \/ TaskFailed(t, b)
                                           \/ TaskEndsUnseen(t, b)

\* Every load ends, and what the page shows as going on is answered before
\* the API client gives it up, or ends then.
BackupFairness ==
    /\ WF_backupVars(ListingAnswers) /\ WF_backupVars(TaskListingAnswers)
    /\ WF_backupVars(TaskAnswers)
BackupSpec == BackupInit /\ [][BackupNext]_backupVars /\ BackupFairness

-----------------------------------------------------------------------------

BackupTypeOK ==
    /\ backupTab.listed \subseteq Backups /\ stored \subseteq Backups
    /\ backupTab.working \in BackupKinds \cup {"", "restore"}
    /\ backupTab.operation \in Backups \cup {NoBackup}
    /\ {backupTab.loading, backupTab.confirming, mixedUp.tasks, mixedUp.list} \subseteq BOOLEAN
    /\ tasks \subseteq [does : {"make"}, of : BackupKinds, lost : BOOLEAN]
                          \cup [does : {"delete", "restore"}, of : Backups, lost : BOOLEAN]
    /\ Len(listings) <= MaxListings

(***************************************************************************)
(* A page never waits for two restores at once, even when the dialog of    *)
(* the first is cancelled while it runs; unless a backup began or ended    *)
(* during it and took the place where the page keeps what is going on.  At *)
(* rest the list is what is stored, however many changes overlapped,       *)
(* unless an older list came last, the last one did not come, or the       *)
(* server changed something and the page was not told.                     *)
(***************************************************************************)
BackupsInOrder ==
    /\ ~mixedUp.tasks => Cardinality(Restoring) <= 1
    /\ (listings = <<>> /\ ~mixedUp.list) => backupTab.listed = stored
=============================================================================
