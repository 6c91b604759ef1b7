----------------------------- MODULE LineFields -----------------------------
(***************************************************************************)
(* The dialog for the custom fields of a production line                   *)
(* (ProductionLineCustomFieldManager.tsx).                                 *)
(*                                                                         *)
(* Loading carries a token, so that the answer for a line that is not open *)
(* any more is dropped.  Deleting and saving carry none: a deletion takes  *)
(* the row at the index it was made at out of whatever list is shown when  *)
(* it is answered, and a save sends one request per row, keeps the         *)
(* answers to itself, and shows them only when the last has come.          *)
(***************************************************************************)
EXTENDS Naturals, Sequences, FiniteSets, SequencesExt

CONSTANTS
    Lines,          \* production lines
    Names,          \* names a field may be given
    MaxIds,         \* bound: fields created
    MaxRows,        \* bound: rows in the dialog
    MaxTokens,      \* bound: how often a dialog is opened
    MaxFieldSaves   \* bound: saves

ASSUME LineFieldsAssumption ==
    /\ {MaxIds, MaxRows, MaxTokens, MaxFieldSaves} \subseteq Nat /\ "" \notin Names

VARIABLES
    manager,    \* the component: open line, rows, loading, saving, token
    fetches,    \* loads in flight
    deletes,    \* deletions in flight
    saver,      \* the save in flight
    defined,    \* the server: line -> its fields
    lastId,     \* the last id the server gave to a field
    saveCount,  \* saves begun
    mishap      \* history: operations overlapped, or one failed half way

fieldVars == <<manager, fetches, deletes, saver, defined, lastId, saveCount, mishap>>

NoLine == "no line"
NoSave == [line |-> NoLine, at |-> 0, rows |-> <<>>, saved |-> <<>>, token |-> 0]
NewField == [id |-> 0, name |-> ""]

FieldsInit ==
    /\ manager = [line |-> NoLine, rows |-> <<>>, loading |-> FALSE, saving |-> FALSE,
                  token |-> 0, dirty |-> FALSE]
    /\ fetches = {} /\ deletes = {} /\ saver = NoSave
    /\ defined = [l \in Lines |-> {}] /\ lastId = 0
    /\ saveCount = 0 /\ mishap = FALSE

\* Rows that can be edited: every input is disabled while loading or saving.
Editable == manager.line # NoLine /\ ~manager.loading /\ ~manager.saving

Pending == deletes # {} \/ saver # NoSave

-----------------------------------------------------------------------------
\* Opening and closing, and the effect that loads the fields.

Manage(l) ==
    /\ manager.line = NoLine /\ manager.token < MaxTokens
    /\ manager' = [manager EXCEPT !.line = l, !.rows = <<>>, !.loading = TRUE,
                                  !.token = @ + 1, !.dirty = FALSE]
    /\ fetches' = fetches \cup {[line |-> l, token |-> manager.token + 1,
                                 served |-> FALSE, rows |-> <<>>]}
    /\ mishap' = (mishap \/ Pending)
    /\ UNCHANGED <<deletes, saver, defined, lastId, saveCount>>

\* The token stays: a load may still fill the rows of the closed dialog.
CloseManager ==
    /\ manager.line # NoLine
    /\ manager' = [manager EXCEPT !.line = NoLine, !.rows = <<>>, !.loading = FALSE]
    /\ UNCHANGED <<fetches, deletes, saver, defined, lastId, saveCount, mishap>>

\* Mutant: any answer fills the rows.
FieldsLoadedUnchecked(f) ==
    /\ f \in fetches /\ f.served
    /\ fetches' = fetches \ {f}
    /\ manager' = [manager EXCEPT !.rows = f.rows, !.loading = FALSE, !.dirty = FALSE]
    /\ UNCHANGED <<deletes, saver, defined, lastId, saveCount, mishap>>

FieldsLoaded(f) ==
    /\ f \in fetches /\ f.served
    /\ fetches' = fetches \ {f}
    /\ manager' = IF f.token # manager.token THEN manager
                  ELSE [manager EXCEPT !.rows = f.rows, !.loading = FALSE, !.dirty = FALSE]
    /\ UNCHANGED <<deletes, saver, defined, lastId, saveCount, mishap>>

FieldsNotLoaded(f) ==
    /\ f \in fetches /\ fetches' = fetches \ {f}
    /\ manager' = [manager EXCEPT !.loading = @ /\ f.token # manager.token]
    /\ mishap' = (mishap \/ f.token = manager.token)
    /\ UNCHANGED <<deletes, saver, defined, lastId, saveCount>>

-----------------------------------------------------------------------------
\* Editing the rows.

RenameField(i, n) ==
    /\ Editable /\ i \in DOMAIN manager.rows /\ manager.rows[i].name # n
    /\ manager' = [manager EXCEPT !.rows[i].name = n, !.dirty = TRUE]
    /\ UNCHANGED <<fetches, deletes, saver, defined, lastId, saveCount, mishap>>

AddField ==
    /\ Editable /\ Len(manager.rows) < MaxRows
    /\ manager' = [manager EXCEPT !.rows = Append(@, NewField), !.dirty = TRUE]
    /\ UNCHANGED <<fetches, deletes, saver, defined, lastId, saveCount, mishap>>

WithoutField(rows, i) == IF i \in DOMAIN rows THEN RemoveAt(rows, i) ELSE rows

\* A row that was never saved is just taken out.
DeleteField(i) ==
    /\ Editable /\ i \in DOMAIN manager.rows
    /\ IF manager.rows[i].id = 0
         THEN /\ manager' = [manager EXCEPT !.rows = WithoutField(@, i)]
              /\ UNCHANGED <<deletes, mishap>>
         ELSE /\ deletes' = deletes \cup {[line |-> manager.line, id |-> manager.rows[i].id,
                                           index |-> i, token |-> manager.token,
                                           served |-> FALSE]}
              /\ mishap' = (mishap \/ Pending) /\ UNCHANGED manager
    /\ UNCHANGED <<fetches, saver, defined, lastId, saveCount>>

\* By index, out of the rows that are there now; a dialog that was closed or
\* opened anew has rows of its own.
FieldDeleted(d) ==
    /\ d \in deletes /\ d.served /\ deletes' = deletes \ {d}
    /\ manager' = [manager EXCEPT !.rows = WithoutField(@, d.index)]
    /\ mishap' = (mishap \/ d.token # manager.token)
    /\ UNCHANGED <<fetches, saver, defined, lastId, saveCount>>

\* Refused, as fields with values are, or the answer is lost.
FieldNotDeleted(d) ==
    /\ d \in deletes /\ deletes' = deletes \ {d}
    /\ mishap' = (mishap \/ d.served)
    /\ UNCHANGED <<manager, fetches, saver, defined, lastId, saveCount>>

-----------------------------------------------------------------------------
\* Saving: a request for each row in turn.

SaveFields ==
    /\ Editable /\ manager.rows # <<>> /\ saver = NoSave /\ saveCount < MaxFieldSaves
    /\ manager' = [manager EXCEPT !.saving = TRUE]
    /\ saver' = [line |-> manager.line, at |-> 1, rows |-> manager.rows, saved |-> <<>>,
                 token |-> manager.token]
    /\ saveCount' = saveCount + 1 /\ mishap' = (mishap \/ Pending)
    /\ UNCHANGED <<fetches, deletes, defined, lastId>>

Stored(row, at) == [id |-> row.id, name |-> row.name, order |-> at]

\* The server's answer to the request for a row: names are unique in a line.
Accepted(row) ==
    LET fields == defined[saver.line] IN
    /\ row.name # ""
    /\ ~\E f \in fields : f.name = row.name /\ f.id # row.id
    /\ row.id # 0 => \E f \in fields : f.id = row.id

SaveRow ==
    /\ saver.at \in DOMAIN saver.rows
    /\ LET row == saver.rows[saver.at]
           given == IF row.id = 0 THEN [row EXCEPT !.id = lastId + 1] ELSE row
       IN
         /\ Accepted(row) /\ given.id <= MaxIds
         /\ defined' = [defined EXCEPT ![saver.line] =
                          {f \in @ : f.id # given.id} \cup {Stored(given, saver.at)}]
         /\ lastId' = IF row.id = 0 THEN lastId + 1 ELSE lastId
         /\ saver' = [saver EXCEPT !.at = @ + 1, !.saved = Append(@, given)]
    /\ UNCHANGED <<manager, fetches, deletes, saveCount, mishap>>

FieldsSaved ==
    /\ saver # NoSave /\ saver.at > Len(saver.rows)
    /\ saver' = NoSave
    /\ manager' = [manager EXCEPT !.rows = saver.saved, !.saving = FALSE, !.dirty = FALSE]
    /\ mishap' = (mishap \/ saver.token # manager.token \/ manager.line = NoLine)
    /\ UNCHANGED <<fetches, deletes, defined, lastId, saveCount>>

\* A row is refused or its answer lost: the rows stay as they were, those
\* created before without their ids.
FieldsNotSaved ==
    /\ saver # NoSave /\ saver' = NoSave
    /\ manager' = [manager EXCEPT !.saving = FALSE]
    /\ mishap' = (mishap \/ saver.saved # <<>> \/ saver.token # manager.token)
    /\ UNCHANGED <<fetches, deletes, defined, lastId, saveCount>>

-----------------------------------------------------------------------------
\* The server.

Before(f, g) == f.order < g.order \/ (f.order = g.order /\ f.id < g.id)

\* Order("sort_order asc, id asc"): a field comes after those before it.
Rank(f, fields) == Cardinality({g \in fields : Before(g, f)}) + 1

Listed(l) ==
    [i \in 1..Cardinality(defined[l]) |->
        LET f == CHOOSE f \in defined[l] : Rank(f, defined[l]) = i
        IN  [id |-> f.id, name |-> f.name]]

ServeFields(f) ==
    /\ f \in fetches /\ ~f.served
    /\ fetches' = (fetches \ {f}) \cup {[f EXCEPT !.served = TRUE, !.rows = Listed(f.line)]}
    /\ UNCHANGED <<manager, deletes, saver, defined, lastId, saveCount, mishap>>

ServeDelete(d) ==
    /\ d \in deletes /\ ~d.served /\ \E f \in defined[d.line] : f.id = d.id
    /\ defined' = [defined EXCEPT ![d.line] = {f \in @ : f.id # d.id}]
    /\ deletes' = (deletes \ {d}) \cup {[d EXCEPT !.served = TRUE]}
    /\ UNCHANGED <<manager, fetches, saver, lastId, saveCount, mishap>>

-----------------------------------------------------------------------------

FetchAnswers == \E f \in fetches : ServeFields(f) \/ FieldsLoaded(f) \/ FieldsNotLoaded(f)
DeleteAnswers == \E d \in deletes : ServeDelete(d) \/ FieldDeleted(d) \/ FieldNotDeleted(d)
SaverAnswers == SaveRow \/ FieldsSaved \/ FieldsNotSaved

FieldsNext ==
    \/ \E l \in Lines : Manage(l)
    \/ CloseManager \/ AddField \/ SaveFields
    \/ \E i \in 1..MaxRows : DeleteField(i) \/ \E n \in Names : RenameField(i, n)
    \/ FetchAnswers \/ DeleteAnswers \/ SaverAnswers

\* Requests are answered, or end with the timeout of the API client.
FieldsFairness ==
    /\ WF_fieldVars(FetchAnswers) /\ WF_fieldVars(DeleteAnswers)
    /\ WF_fieldVars(SaverAnswers)
FieldsSpec == FieldsInit /\ [][FieldsNext]_fieldVars /\ FieldsFairness

-----------------------------------------------------------------------------

FieldRows == Seq([id : 0..MaxIds, name : Names \cup {""}])

LineFieldsTypeOK ==
    /\ manager \in [line : Lines \cup {NoLine}, rows : FieldRows, loading : BOOLEAN,
                    saving : BOOLEAN, token : 0..MaxTokens, dirty : BOOLEAN]
    /\ \A f \in fetches : f.line \in Lines /\ f.token \in 1..MaxTokens
    /\ \A d \in deletes : d.line \in Lines /\ d.id \in 1..MaxIds /\ d.index \in 1..MaxRows
    /\ saver.saved \in FieldRows
    /\ \A l \in Lines : defined[l] \subseteq [id : 1..MaxIds, name : Names, order : Nat \ {0}]
    /\ lastId \in 0..MaxIds /\ saveCount \in 0..MaxFieldSaves /\ mishap \in BOOLEAN

Ids(rows) == {rows[i].id : i \in DOMAIN rows} \ {0}

(***************************************************************************)
(* The open dialog and the server agree: the saved rows shown are exactly  *)
(* the line's fields, and when nothing was edited since the last load or   *)
(* save, the rows are what a load would return, names and order included.  *)
(* This is how far the code goes: operations that overlap, and requests    *)
(* that fail after their effect, are the cases it does not handle.  But    *)
(* even then no two rows of the dialog are the same field, and no save     *)
(* sends the same field twice.                                             *)
(***************************************************************************)
DialogInSync ==
    /\ (Editable /\ ~Pending /\ ~mishap) =>
          /\ Ids(manager.rows) = {f.id : f \in defined[manager.line]}
          /\ ~manager.dirty => manager.rows = Listed(manager.line)
    /\ \A rows \in {manager.rows, saver.rows} : \A i, j \in DOMAIN rows :
          (i # j /\ rows[i].id # 0) => rows[i].id # rows[j].id
=============================================================================
