---------------------------- MODULE ProgramTable ----------------------------
(***************************************************************************)
(* The table of the program page and its filters (ProgramManagement.tsx,   *)
(* the loadData of useProgramManagementData.ts, ProgramFilterPanel.tsx).   *)
(*                                                                         *)
(* An effect loads the rows whenever page or filters change; no load is    *)
(* ever cancelled, so answers may overtake each other.  What changes       *)
(* programs loads again as well, with the page and filters of the click.   *)
(* The keyword is applied by a button or by a timer that typing restarts,  *)
(* the fields to filter by come from the server for each line chosen.      *)
(***************************************************************************)
EXTENDS Naturals, Sequences, FiniteSets, SequencesExt

CONSTANTS
    FilterLines,    \* production lines to filter by
    Keywords,       \* keywords, "" among them
    Pages,          \* page numbers, 1 among them
    MaxLoads        \* bound: requests in flight

ASSUME TableAssumption == "" \in Keywords /\ 1 \in Pages /\ MaxLoads \in Nat \ {0}

VARIABLES
    table,      \* filters, page, rows and spinner
    rowLoads,   \* loads of rows in flight, in the order they were sent
    fieldLoads, \* loads of filter fields in flight; their answers depend on the line alone
    changing,   \* a deletion, submission or upload in flight
    outdated    \* history: rows or fields answer something older, a value is given for it

tableVars == <<table, rowLoads, fieldLoads, changing, outdated>>

AnyLine == "any line"
NoQuery == [page |-> 0, keyword |-> "", line |-> AnyLine, values |-> {}]

\* What listPrograms is called with.
Query(t) == [page |-> t.page, keyword |-> t.keyword, line |-> t.line, values |-> t.values]

\* The timer of the first render is running, its load is under way.
TableInit ==
    /\ table = [page |-> 1, keyword |-> "", input |-> "", line |-> AnyLine, values |-> {},
                fields |-> AnyLine, typed |-> TRUE, rows |-> NoQuery, loading |-> TRUE]
    /\ rowLoads = <<[query |-> Query(table), passed |-> FALSE]>>
    /\ fieldLoads = {} /\ changing = NoQuery
    /\ outdated = [rows |-> FALSE, fields |-> FALSE, values |-> FALSE]

-----------------------------------------------------------------------------
\* Rendering: the effect that loads, the effect that restarts the timer.

\* Mutant: the effect does not depend on the values of custom fields.
ShownWithoutValues(new, anew) ==
    LET again == [Query(new) EXCEPT !.values = {}] # [Query(table) EXCEPT !.values = {}] IN
    /\ rowLoads' = IF again THEN Append(rowLoads, [query |-> Query(new), passed |-> FALSE])
                   ELSE rowLoads
    /\ table' = [new EXCEPT !.loading = @ \/ again, !.typed = @ \/ new.input # table.input]

\* anew: a filter is a new object, be its content the same.
Show(new, anew) ==
    LET again == anew \/ Query(new) # Query(table) IN
    /\ rowLoads' = IF again THEN Append(rowLoads, [query |-> Query(new), passed |-> FALSE])
                   ELSE rowLoads
    /\ table' = [new EXCEPT !.loading = @ \/ again, !.typed = @ \/ new.input # table.input]

\* History: fields asked for until now are not those of the line chosen next.
Superseded == {[f EXCEPT !.old = TRUE] : f \in fieldLoads}

-----------------------------------------------------------------------------
\* The filter panel.

TypeKeyword(k) ==
    /\ k # table.input
    /\ Show([table EXCEPT !.page = 1, !.input = k], FALSE)
    /\ UNCHANGED <<fieldLoads, changing, outdated>>

ApplySearchKeyword ==
    /\ Show([table EXCEPT !.page = 1, !.keyword = table.input], FALSE)
    /\ UNCHANGED <<fieldLoads, changing, outdated>>

DebounceFires ==
    /\ table.typed
    /\ Show([table EXCEPT !.page = 1, !.keyword = table.input, !.typed = FALSE], FALSE)
    /\ UNCHANGED <<fieldLoads, changing, outdated>>

\* handleFilterProductionLineChange, up to its await.
FilterByLine(l) ==
    /\ Show([table EXCEPT !.page = 1, !.line = l, !.values = {},
                          !.fields = IF l = AnyLine THEN AnyLine ELSE @], TRUE)
    /\ fieldLoads' = IF l = AnyLine THEN Superseded
                     ELSE Superseded \cup {[line |-> l, old |-> FALSE]}
    /\ outdated' = [outdated EXCEPT !.fields = l # AnyLine /\ @, !.values = FALSE]
    /\ UNCHANGED changing

\* The answer is taken whatever the line is by then.
FilterFieldsAnswered(f) ==
    /\ f \in fieldLoads /\ fieldLoads' = fieldLoads \ {f}
    /\ Show([table EXCEPT !.fields = f.line], FALSE)
    /\ outdated' = [outdated EXCEPT !.fields = f.old] /\ UNCHANGED changing

FilterFieldsFailed(f) ==
    /\ f \in fieldLoads /\ fieldLoads' = fieldLoads \ {f}
    /\ Show([table EXCEPT !.fields = AnyLine], FALSE)
    /\ outdated' = [outdated EXCEPT !.fields = FALSE] /\ UNCHANGED changing

\* A value for, or none for, a field of the line whose fields are offered: until
\* the fields of the line chosen have come, that is the line chosen before.
FilterByField(given) ==
    /\ table.line # AnyLine /\ table.fields # AnyLine
    /\ given # (table.fields \in table.values)
    /\ Show([table EXCEPT !.page = 1, !.values = IF given THEN @ \cup {table.fields}
                                                 ELSE @ \ {table.fields}], TRUE)
    /\ outdated' = [outdated EXCEPT !.values = @ \/ (given /\ table.fields # table.line)]
    /\ UNCHANGED <<fieldLoads, changing>>

HandleResetFilter ==
    /\ Show([table EXCEPT !.page = 1, !.keyword = "", !.input = "", !.line = AnyLine,
                          !.values = {}, !.fields = AnyLine], TRUE)
    /\ fieldLoads' = Superseded
    /\ outdated' = [outdated EXCEPT !.fields = FALSE, !.values = FALSE] /\ UNCHANGED changing

\* The table's onChange.
TurnPage(p) ==
    /\ p # table.page /\ Show([table EXCEPT !.page = p], FALSE)
    /\ UNCHANGED <<fieldLoads, changing, outdated>>

\* The address changes: the global search leads here with a keyword.
KeywordFromAddress(k) ==
    /\ Show([table EXCEPT !.input = k, !.keyword = k], FALSE)
    /\ UNCHANGED <<fieldLoads, changing, outdated>>

-----------------------------------------------------------------------------
\* Answers.

\* History: an answer of its own time passes the loads sent before it.
Without(i) == [j \in 1..Len(rowLoads) - 1 |->
                 IF j >= i THEN rowLoads[j + 1]
                 ELSE [rowLoads[j] EXCEPT !.passed = @ \/ ~rowLoads[i].passed]]

\* Rows and total come from one answer; any answer stops the spinner.
RowsAnswered(i) ==
    /\ i \in DOMAIN rowLoads /\ rowLoads' = Without(i)
    /\ table' = [table EXCEPT !.rows = rowLoads[i].query, !.loading = FALSE]
    /\ outdated' = [outdated EXCEPT !.rows = rowLoads[i].passed]
    /\ UNCHANGED <<fieldLoads, changing>>

RowsFailed(i) ==
    /\ i \in DOMAIN rowLoads /\ rowLoads' = Without(i)
    /\ table' = [table EXCEPT !.loading = FALSE]
    /\ outdated' = [outdated EXCEPT !.rows = @ \/ ~rowLoads[i].passed]
    /\ UNCHANGED <<fieldLoads, changing>>

\* handleDelete, handleSubmit, handleUploadSubmit: their closure keeps the
\* page and the filters of the click.
ChangePrograms ==
    /\ changing = NoQuery /\ changing' = Query(table)
    /\ UNCHANGED <<table, rowLoads, fieldLoads, outdated>>

ProgramsChanged ==
    /\ changing # NoQuery /\ changing' = NoQuery
    /\ rowLoads' = Append(rowLoads, [query |-> changing, passed |-> changing # Query(table)])
    /\ table' = [table EXCEPT !.loading = TRUE]
    /\ UNCHANGED <<fieldLoads, outdated>>

ProgramsNotChanged ==
    /\ changing # NoQuery /\ changing' = NoQuery
    /\ UNCHANGED <<table, rowLoads, fieldLoads, outdated>>

-----------------------------------------------------------------------------

RowAnswers == \E i \in 1..MaxLoads : RowsAnswered(i) \/ RowsFailed(i)

UnderWay == Len(rowLoads) + Cardinality(fieldLoads) + (IF changing = NoQuery THEN 0 ELSE 1)

TableSteps ==
    \/ \E k \in Keywords : TypeKeyword(k) \/ KeywordFromAddress(k)
    \/ ApplySearchKeyword \/ DebounceFires \/ HandleResetFilter
    \/ \E l \in FilterLines \cup {AnyLine} : FilterByLine(l)
    \/ \E f \in fieldLoads : FilterFieldsAnswered(f) \/ FilterFieldsFailed(f)
    \/ \E given \in BOOLEAN : FilterByField(given)
    \/ \E p \in Pages : TurnPage(p)
    \/ ChangePrograms \/ ProgramsChanged \/ ProgramsNotChanged
    \/ RowAnswers

TableNext == TableSteps /\ UnderWay' <= MaxLoads

\* Requests are answered, or end with the timeout of the API client.
TableFairness == WF_tableVars(RowAnswers)
TableSpec == TableInit /\ [][TableNext]_tableVars /\ TableFairness

-----------------------------------------------------------------------------

Queries == [page : Pages, keyword : Keywords, line : FilterLines \cup {AnyLine},
            values : SUBSET FilterLines]

TableTypeOK ==
    /\ Query(table) \in Queries /\ table.input \in Keywords
    /\ table.fields \in FilterLines \cup {AnyLine} /\ table.rows \in Queries \cup {NoQuery}
    /\ {table.typed, table.loading} \subseteq BOOLEAN
    /\ outdated \in [rows : BOOLEAN, fields : BOOLEAN, values : BOOLEAN]
    /\ rowLoads \in Seq([query : Queries, passed : BOOLEAN]) /\ Len(rowLoads) <= MaxLoads
    /\ fieldLoads \subseteq [line : FilterLines, old : BOOLEAN]
    /\ changing \in Queries \cup {NoQuery}

(***************************************************************************)
(* Once everything asked for has come, the rows are those of the page and  *)
(* the filters shown, whatever was typed, chosen, reset and turned in      *)
(* between, and the fields offered are those of the line chosen.  Not so   *)
(* when an answer was overtaken, when the last load failed, and when a     *)
(* change loads the page of its click.  And the rows are not filtered by   *)
(* values of another line's fields, which no input shows.  Not so when a   *)
(* value was given while the fields offered were another line's, because   *)
(* those of the line chosen had not come or were overtaken.                *)
(***************************************************************************)
TableShowsQuery ==
    /\ (rowLoads = <<>> /\ ~outdated.rows) => table.rows = Query(table)
    /\ (fieldLoads = {} /\ ~outdated.fields) =>
          table.fields \in {table.line, AnyLine}
    /\ ~outdated.values => table.values \subseteq {table.line}

=============================================================================
