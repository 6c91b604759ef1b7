-------------------------- MODULE MigrationPolling --------------------------
(***************************************************************************)
(* The system page and the migration of files (SystemManagement.tsx): it   *)
(* starts a migration or its rollback and polls the status.                *)
(*                                                                         *)
(* The handle of the interval is React state: a handler sees the value of  *)
(* the render it was made in, and leaving the page sees the first one,     *)
(* null.  So intervals are not always cleared by those who replace them;   *)
(* each clears itself when it learns that no migration runs.               *)
(***************************************************************************)
EXTENDS Naturals, FiniteSets

CONSTANTS
    MaxVisits,          \* bound: times the page is opened
    MaxIntervals,       \* bound: intervals ever made
    MaxMigrations,      \* bound: migrations and rollbacks asked for
    MaxServerRestarts,  \* bound: restarts of the server
    MaxAsking           \* bound: requests of intervals in flight

ASSUME MigrationAssumption ==
    {MaxVisits, MaxIntervals, MaxMigrations, MaxServerRestarts, MaxAsking} \subseteq Nat

VARIABLES
    system,     \* the React state of the page, and which opening of it this is
    pollers,    \* live intervals: their number and the opening that made them
    statusAsked,\* requests about the migration in flight
    migration,  \* the server: its status and the goroutines about to begin
    pollMissed  \* history: a poll failed or came late

migrationVars == <<system, pollers, statusAsked, migration, pollMissed>>

NoPoller == 0
Running == "running"
MigrationStatus == {"not_started", Running, "completed", "failed"}

MigrationInit ==
    /\ system = [visit |-> 0, open |-> FALSE, shown |-> "not_started",
                 handle |-> NoPoller, made |-> 0]
    /\ pollers = {} /\ statusAsked = {} /\ pollMissed = FALSE
    /\ migration = [status |-> "not_started", begun |-> 0, asked |-> 0, restarts |-> 0]

-----------------------------------------------------------------------------
\* Opening and leaving.

\* Who asks (the opening, a button or an interval) and the interval it sees;
\* "posted" is the request of a button, "sent" that of the status, any other
\* state the status that is on its way back.
StatusRequest(by, sees, visit, state) ==
    [by |-> by, sees |-> sees, visit |-> visit, state |-> state]
AskStatus(by, sees, visit, state) ==
    LET r == StatusRequest(by, sees, visit, state) IN
    r \notin statusAsked /\ statusAsked' = statusAsked \cup {r}

\* The effect of the first render asks for the status.
OpenSystem ==
    /\ ~system.open /\ system.visit < MaxVisits
    /\ system' = [system EXCEPT !.visit = @ + 1, !.open = TRUE, !.shown = "not_started",
                                !.handle = NoPoller]
    /\ AskStatus("open", NoPoller, system.visit + 1, "sent")
    /\ pollMissed' = FALSE
    /\ UNCHANGED <<pollers, migration>>

\* Its cleanup clears no interval: the handle it sees is null.
LeaveSystem ==
    /\ system.open /\ system' = [system EXCEPT !.open = FALSE]
    /\ UNCHANGED <<pollers, statusAsked, migration, pollMissed>>

-----------------------------------------------------------------------------
\* Starting and ending.

\* Disabled while the page shows a running migration; a rollback also while it
\* shows none.
AskMigration(by) ==
    /\ system.open /\ system.shown # Running
    /\ by = "rollback" => system.shown # "not_started"
    /\ migration.asked < MaxMigrations
    /\ migration' = [migration EXCEPT !.asked = @ + 1]
    /\ AskStatus(by, system.handle, system.visit, "posted")
    /\ UNCHANGED <<system, pollers, pollMissed>>

\* The server only starts a goroutine; the page then asks for the status.  A
\* rollback leaves the status alone.
MigrationAccepted(r) ==
    /\ r \in statusAsked /\ r.state = "posted"
    /\ IF r.by = "start" THEN migration.status # Running ELSE migration.status = "completed"
    /\ migration' = [migration EXCEPT !.begun = @ + (IF r.by = "start" THEN 1 ELSE 0)]
    /\ statusAsked' = (statusAsked \ {r}) \cup {[r EXCEPT !.state = "sent"]}
    /\ UNCHANGED <<system, pollers, pollMissed>>

\* Refused, or lost; then the server may have started all the same.
MigrationRefused(r) ==
    /\ r \in statusAsked /\ r.state = "posted" /\ statusAsked' = statusAsked \ {r}
    /\ \/ UNCHANGED migration
       \/ /\ r.by = "start" /\ migration.status # Running
          /\ migration' = [migration EXCEPT !.begun = @ + 1]
    /\ UNCHANGED <<system, pollers, pollMissed>>

\* The goroutine; of two, the second gives up.
MigrationBegins ==
    /\ migration.begun > 0
    /\ migration' = [migration EXCEPT !.begun = @ - 1, !.status = Running]
    /\ UNCHANGED <<system, pollers, statusAsked, pollMissed>>

MigrationEnds(status) ==
    /\ migration.status = Running /\ migration' = [migration EXCEPT !.status = status]
    /\ UNCHANGED <<system, pollers, statusAsked, pollMissed>>

\* The status is kept in memory.
ServerRestarts ==
    /\ migration.restarts < MaxServerRestarts
    /\ migration' = [migration EXCEPT !.restarts = @ + 1, !.status = "not_started", !.begun = 0]
    /\ UNCHANGED <<system, pollers, statusAsked, pollMissed>>

ServeStatus(r) ==
    /\ r \in statusAsked /\ r.state = "sent"
    /\ statusAsked' = (statusAsked \ {r}) \cup {[r EXCEPT !.state = migration.status]}
    /\ UNCHANGED <<system, pollers, migration, pollMissed>>

-----------------------------------------------------------------------------
\* Polling.

\* Answers to an opening that was left reach no page.
Here(r) == system.open /\ r.visit = system.visit

\* startMigrationPolling, called n times by one handler: each call clears the
\* interval the handler sees, none the one made by the call before.
StartMigrationPolling(r, n, shown) ==
    /\ system.made + n <= MaxIntervals
    /\ pollers' = {p \in pollers : n = 0 \/ p.id # r.sees}
                     \cup {[id |-> system.made + i, visit |-> r.visit] : i \in 1..n}
    /\ system' = [system EXCEPT !.made = @ + n,
                                !.shown = IF Here(r) THEN shown ELSE @,
                                !.handle = IF Here(r) /\ n > 0 THEN system.made + n ELSE @]
    /\ pollMissed' = (pollMissed /\ ~(Here(r) /\ n > 0))

\* Mutant: a running migration met by the page is only shown.
PollingsOfButtons(r, status) == IF r.by = "open" THEN 0 ELSE 1

\* How often loadMigrationStatus and its caller start to poll.
Pollings(r, status) ==
    (IF status = Running THEN 1 ELSE 0) + (IF r.by = "open" THEN 0 ELSE 1)

StatusLoaded(r) ==
    /\ r \in statusAsked /\ r.by # "poll" /\ r.state \in MigrationStatus
    /\ statusAsked' = statusAsked \ {r}
    /\ StartMigrationPolling(r, Pollings(r, r.state), r.state)
    /\ UNCHANGED migration

\* loadMigrationStatus swallows the failure: the button goes on.
StatusNotLoaded(r) ==
    /\ r \in statusAsked /\ r.by # "poll" /\ r.state # "posted"
    /\ statusAsked' = statusAsked \ {r}
    /\ StartMigrationPolling(r, Pollings(r, "unknown"), system.shown)
    /\ UNCHANGED migration

\* Every 2 s, whether or not the request before was answered.
PollStatus(p) ==
    /\ p \in pollers /\ AskStatus("poll", p.id, p.visit, "sent")
    /\ Cardinality({r \in statusAsked : r.by = "poll"}) < MaxAsking
    /\ UNCHANGED <<system, pollers, migration, pollMissed>>

\* clearInterval(interval); setMigrationPolling(null)
IntervalCleared(r, shown) ==
    /\ pollers' = {p \in pollers : p.id # r.sees}
    /\ system' = IF Here(r) THEN [system EXCEPT !.shown = shown, !.handle = NoPoller]
                 ELSE system

EndsPolling(status) == status # Running

\* An answer that comes after its interval was cleared is shown as well.
StatusPolled(r) ==
    /\ r \in statusAsked /\ r.by = "poll" /\ r.state \in MigrationStatus
    /\ statusAsked' = statusAsked \ {r}
    /\ IF EndsPolling(r.state) THEN IntervalCleared(r, r.state) /\ UNCHANGED pollMissed
       ELSE /\ system' = IF Here(r) THEN [system EXCEPT !.shown = r.state] ELSE system
            /\ pollMissed' = (pollMissed \/ (Here(r) /\ \A p \in pollers : p.id # r.sees))
            /\ UNCHANGED pollers
    /\ UNCHANGED migration

StatusNotPolled(r) ==
    /\ r \in statusAsked /\ r.by = "poll" /\ statusAsked' = statusAsked \ {r}
    /\ IntervalCleared(r, system.shown) /\ pollMissed' = (pollMissed \/ Here(r))
    /\ UNCHANGED migration

-----------------------------------------------------------------------------

StatusAnswers ==
    \E r \in statusAsked :
        \/ MigrationAccepted(r) \/ MigrationRefused(r) \/ ServeStatus(r)
        \/ StatusLoaded(r) \/ StatusNotLoaded(r) \/ StatusPolled(r) \/ StatusNotPolled(r)
MigrationGoesOn == MigrationBegins \/ \E s \in {"completed", "failed"} : MigrationEnds(s)

MigrationNext ==
    \/ OpenSystem \/ LeaveSystem \/ ServerRestarts
    \/ \E by \in {"start", "rollback"} : AskMigration(by)
    \/ \E p \in pollers : PollStatus(p)
    \/ StatusAnswers \/ MigrationGoesOn

\* A migration, a finite list of files, ends; intervals fire, and their polls
\* are served, and answered or timed out.
PollServed == \E r \in statusAsked : r.by = "poll" /\ ServeStatus(r)
PollReturns == \E r \in statusAsked : StatusPolled(r) \/ StatusNotPolled(r)
MigrationFairness ==
    /\ WF_migrationVars(MigrationGoesOn)
    /\ WF_migrationVars(\E p \in pollers : PollStatus(p))
    /\ WF_migrationVars(PollServed)
    /\ WF_migrationVars(PollReturns)
MigrationSpec == MigrationInit /\ [][MigrationNext]_migrationVars /\ MigrationFairness

-----------------------------------------------------------------------------

MigrationTypeOK ==
    /\ system.visit \in 0..MaxVisits /\ system.open \in BOOLEAN
    /\ system.shown \in MigrationStatus /\ {system.handle, system.made} \subseteq 0..MaxIntervals
    /\ pollers \subseteq [id : 1..MaxIntervals, visit : 1..MaxVisits]
    /\ statusAsked \subseteq [by : {"open", "start", "rollback", "poll"}, sees : 0..MaxIntervals,
                              visit : 1..MaxVisits,
                              state : MigrationStatus \cup {"posted", "sent"}]
    /\ migration.status \in MigrationStatus /\ migration.begun \in 0..MaxMigrations
    /\ pollMissed \in BOOLEAN

(***************************************************************************)
(* A page that shows a running migration polls it: it does not show for    *)
(* ever, with its buttons disabled, what has ended, whichever handles its  *)
(* intervals lost; unless a poll failed, or its answer came after the one  *)
(* that ended its interval.  The handle of a page is one of its intervals. *)
(***************************************************************************)
FollowsMigration ==
    /\ (system.open /\ system.shown = Running /\ ~pollMissed)
          => \E p \in pollers : p.visit = system.visit
    /\ (system.open /\ system.handle # NoPoller) =>
          [id |-> system.handle, visit |-> system.visit] \in pollers
=============================================================================
