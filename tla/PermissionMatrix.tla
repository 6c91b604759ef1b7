-------------------------- MODULE PermissionMatrix --------------------------
(***************************************************************************)
(* A tab of the permission page (PermissionManagement.tsx): a target is    *)
(* chosen, its matrix loaded, cells are changed and the changes saved.     *)
(*                                                                         *)
(* No request carries a token: an answer is shown whatever target is       *)
(* chosen by then, a load that fails leaves rows and changes in place, and *)
(* saving sends the changes to the target chosen when the button is hit.   *)
(***************************************************************************)
EXTENDS Naturals, Sequences, SequencesExt

CONSTANTS
    Targets,        \* users, departments or roles: those of one tab
    Cells,          \* production lines times actions
    Decisions,      \* settings of a cell, "unset" among them
    NoTarget,       \* nothing chosen, nothing shown
    MaxMatrixLoads, \* bound: loads in flight
    MaxElsewhere,   \* bound: changes by another administrator
    MaxMatrixSaves  \* bound: saves made here

ASSUME MatrixAssumption ==
    /\ "unset" \in Decisions /\ NoTarget \notin Targets
    /\ {MaxMatrixLoads, MaxElsewhere, MaxMatrixSaves} \subseteq Nat

VARIABLES
    target,     \* selectedUserId, selectedDepartmentId, selectedRoleId
    matrix,     \* rows and changes by cell, and (history) whose rows they are
    busy,       \* loading and saving
    loads,      \* loads in flight
    saving,     \* saves in flight: one at most, the button spins meanwhile
    savedRules, \* the server's rules: target -> cell -> decision
    counts,     \* changes made elsewhere, saves made here
    edited,     \* history: the cells changed here, with whose rows they were
    crossed     \* history: rows, target and an answer fell apart

matrixVars == <<target, matrix, busy, loads, saving, savedRules, counts, edited, crossed>>

Unanswered == <<>>     \* the function without arguments

MatrixInit ==
    /\ target = NoTarget
    /\ matrix = [rows |-> Unanswered, changes |-> Unanswered, of |-> NoTarget]
    /\ busy = [loading |-> FALSE, saving |-> FALSE]
    /\ loads = <<>> /\ saving = {}
    /\ savedRules = [t \in Targets |-> [c \in Cells |-> "unset"]]
    /\ counts = [elsewhere |-> 0, saves |-> 0]
    /\ edited = {} /\ crossed = FALSE

\* loadMatrix, which its effect runs whenever the target changes.
LoadMatrix(t) ==
    /\ Len(loads) < MaxMatrixLoads
    /\ loads' = Append(loads, [target |-> t, rows |-> Unanswered])
    /\ busy' = [busy EXCEPT !.loading = TRUE]

\* The list of a tab's targets arrives: its first is chosen.
TargetsArrived(first) ==
    /\ target = NoTarget
    /\ target' = first /\ LoadMatrix(first)
    /\ UNCHANGED <<matrix, saving, savedRules, counts, edited, crossed>>

\* Mutant: only Reload loads.
ChooseTargetOnly(t) ==
    /\ target \in Targets \ {t}
    /\ target' = t
    /\ UNCHANGED <<matrix, busy, loads, saving, savedRules, counts, edited, crossed>>

ChooseTarget(t) ==
    /\ target \in Targets \ {t}
    /\ target' = t /\ LoadMatrix(t)
    /\ UNCHANGED <<matrix, saving, savedRules, counts, edited, crossed>>

\* A button that spins while loading cannot be hit.
Reload ==
    /\ target # NoTarget /\ ~busy.loading /\ LoadMatrix(target)
    /\ UNCHANGED <<target, matrix, saving, savedRules, counts, edited, crossed>>

-----------------------------------------------------------------------------
\* Changing cells.

\* getCellSetting: what the switch of a cell shows.
Setting(c) == IF c \in DOMAIN matrix.changes THEN matrix.changes[c] ELSE matrix.rows[c]

Changed(c, d) ==
    [x \in (DOMAIN matrix.changes \ {c}) \cup (IF d = matrix.rows[c] THEN {} ELSE {c}) |->
        IF x = c THEN d ELSE matrix.changes[x]]

\* The table takes no clicks while it is loading.
ChangeDecision(c, d) ==
    /\ ~busy.loading /\ c \in DOMAIN matrix.rows /\ d # Setting(c)
    /\ matrix' = [matrix EXCEPT !.changes = Changed(c, d)]
    /\ edited' = edited \cup {<<matrix.of, c>>}
    /\ UNCHANGED <<target, busy, loads, saving, savedRules, counts, crossed>>

-----------------------------------------------------------------------------
\* Saving.

\* Mutant: all settings are sent.
PayloadOfAll == [c \in DOMAIN matrix.rows |-> Setting(c)]

\* The changes to rows that are shown.
Payload == [c \in DOMAIN matrix.rows \cap DOMAIN matrix.changes |-> matrix.changes[c]]

Save ==
    /\ target # NoTarget /\ matrix.changes # Unanswered /\ ~busy.saving
    /\ counts.saves < MaxMatrixSaves
    /\ saving' = saving \cup {[target |-> target, changes |-> Payload, rows |-> Unanswered]}
    /\ busy' = [busy EXCEPT !.saving = TRUE]
    /\ counts' = [counts EXCEPT !.saves = @ + 1]
    /\ crossed' = (crossed \/ loads # <<>>)
    /\ UNCHANGED <<target, matrix, loads, savedRules, edited>>

SaveAnswered(s) ==
    /\ s \in saving /\ s.rows # Unanswered
    /\ saving' = saving \ {s} /\ busy' = [busy EXCEPT !.saving = FALSE]
    /\ matrix' = [rows |-> s.rows, changes |-> Unanswered, of |-> s.target]
    /\ crossed' = (crossed \/ s.target # target)
    /\ UNCHANGED <<target, loads, savedRules, counts, edited>>

\* The changes stay, to be saved once more.
SaveFailed(s) ==
    /\ s \in saving
    /\ saving' = saving \ {s} /\ busy' = [busy EXCEPT !.saving = FALSE]
    /\ UNCHANGED <<target, matrix, loads, savedRules, counts, edited, crossed>>

-----------------------------------------------------------------------------
\* Answers to loads.

MatrixLoaded(k) ==
    LET l == loads[k] IN
    /\ l.rows # Unanswered
    /\ loads' = RemoveAt(loads, k) /\ busy' = [busy EXCEPT !.loading = FALSE]
    /\ matrix' = [rows |-> l.rows, changes |-> Unanswered, of |-> l.target]
    /\ crossed' = (crossed \/ l.target # target)
    /\ UNCHANGED <<target, saving, savedRules, counts, edited>>

\* Mutant: the table goes on spinning.
LoadFailedSpinning(k) ==
    /\ loads' = RemoveAt(loads, k)
    /\ crossed' = TRUE
    /\ UNCHANGED <<target, matrix, busy, saving, savedRules, counts, edited>>

\* Rows and changes stay as they are.
LoadFailed(k) ==
    /\ loads' = RemoveAt(loads, k) /\ busy' = [busy EXCEPT !.loading = FALSE]
    /\ crossed' = TRUE
    /\ UNCHANGED <<target, matrix, saving, savedRules, counts, edited>>

-----------------------------------------------------------------------------
\* The server.

\* getMatrixEndpoints: each target has a matrix of its own.
ServeMatrix(k) ==
    /\ loads[k].rows = Unanswered
    /\ loads' = [loads EXCEPT ![k].rows = savedRules[loads[k].target]]
    /\ UNCHANGED <<target, matrix, busy, saving, savedRules, counts, edited, crossed>>

Applied(rules, changes) ==
    [c \in Cells |-> IF c \in DOMAIN changes THEN changes[c] ELSE rules[c]]

ServeSave(s) ==
    /\ s \in saving /\ s.rows = Unanswered
    /\ LET rules == Applied(savedRules[s.target], s.changes) IN
         /\ savedRules' = [savedRules EXCEPT ![s.target] = rules]
         /\ saving' = (saving \ {s}) \cup {[s EXCEPT !.rows = rules]}
    /\ UNCHANGED <<target, matrix, busy, loads, counts, edited, crossed>>

ChangeElsewhere(t, c, d) ==
    /\ counts.elsewhere < MaxElsewhere /\ savedRules[t][c] # d
    /\ savedRules' = [savedRules EXCEPT ![t][c] = d]
    /\ counts' = [counts EXCEPT !.elsewhere = @ + 1]
    /\ UNCHANGED <<target, matrix, busy, loads, saving, edited, crossed>>

-----------------------------------------------------------------------------

LoadAnswers == \E k \in DOMAIN loads : ServeMatrix(k) \/ MatrixLoaded(k) \/ LoadFailed(k)
SaveAnswers == \E s \in saving : ServeSave(s) \/ SaveAnswered(s) \/ SaveFailed(s)

MatrixNext ==
    \/ \E t \in Targets : TargetsArrived(t) \/ ChooseTarget(t)
    \/ \E c \in Cells, d \in Decisions : ChangeDecision(c, d)
    \/ Reload \/ Save \/ LoadAnswers \/ SaveAnswers
    \/ \E t \in Targets, c \in Cells, d \in Decisions : ChangeElsewhere(t, c, d)

\* axios answers every request or gives it up.
MatrixFairness == WF_matrixVars(LoadAnswers) /\ WF_matrixVars(SaveAnswers)

MatrixSpec == MatrixInit /\ [][MatrixNext]_matrixVars /\ MatrixFairness

-----------------------------------------------------------------------------

Settings == [Cells -> Decisions]
PartSettings == UNION {[D -> Decisions] : D \in SUBSET Cells}

MatrixTypeOK ==
    /\ target \in Targets \cup {NoTarget}
    /\ matrix \in [rows : Settings \cup {Unanswered}, changes : PartSettings,
                   of : Targets \cup {NoTarget}]
    /\ busy \in [loading : BOOLEAN, saving : BOOLEAN]
    /\ loads \in Seq([target : Targets, rows : Settings \cup {Unanswered}])
    /\ saving \subseteq [target : Targets, changes : PartSettings,
                         rows : Settings \cup {Unanswered}]
    /\ savedRules \in [Targets -> Settings]
    /\ counts \in [elsewhere : 0..MaxElsewhere, saves : 0..MaxMatrixSaves]
    /\ edited \subseteq Targets \X Cells
    /\ crossed \in BOOLEAN

(***************************************************************************)
(* Once nothing is loading the rows are those of the chosen target: unless *)
(* a load failed, or the answer to another target came after its own.  And *)
(* every change that waits to be saved differs from the row beside it:     *)
(* rows are never replaced without the changes made to the rows before.    *)
(***************************************************************************)
RowsOfTarget ==
    /\ \A c \in DOMAIN matrix.changes :
          c \in DOMAIN matrix.rows /\ matrix.changes[c] # matrix.rows[c]
    /\ (target # NoTarget /\ loads = <<>> /\ ~crossed) => matrix.of = target

(***************************************************************************)
(* "Only changed cells are submitted": a save carries no cell that was not *)
(* changed on the rows of the very target it is sent to.  Excepted are the *)
(* cases above and a save made while another load is in flight, which the  *)
(* page allows.                                                            *)
(***************************************************************************)
SubmitsOnlyChanged ==
    ~crossed => \A s \in saving : \A c \in DOMAIN s.changes : <<s.target, c>> \in edited

=============================================================================
