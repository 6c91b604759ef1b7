----------------------------- MODULE AdminLists -----------------------------
(***************************************************************************)
(* The pages that list departments, production lines, users and vehicle    *)
(* models: a table loaded page by page, filters, a dialog to add or edit   *)
(* an entry, and for vehicle models a drawer with the programs of one and  *)
(* on top of it another with the versions and the parent of a program.     *)
(*                                                                         *)
(* No load is cancelled.  What changes an entry loads the page again that  *)
(* was shown at the click, with the filter of the click; an answer without *)
(* rows for a page beyond the first asks for the page before.  A page      *)
(* holds one row.                                                          *)
(***************************************************************************)
EXTENDS Naturals, Sequences, FiniteSets

CONSTANTS
    ListKinds,      \* the pages
    Entries,        \* entries there may be, in the order the server lists them
    Narrow,         \* the entries a filter selects
    MaxRowLoads,    \* bound: loads in flight
    Carried,         \* programs each vehicle model has
    MaxViews,       \* bound: loads of programs in flight
    MaxDetails,     \* bound: loads of a program's details in flight
    MaxEdits        \* bound: entries added, changed or deleted

ASSUME ListAssumption ==
    /\ ListKinds \subseteq {"departments", "production_lines", "users", "vehicle_models"}
    /\ Entries \subseteq Nat \ {0} /\ IsFiniteSet(Entries) /\ Narrow \subseteq Entries
    /\ {MaxRowLoads, MaxViews, MaxDetails, MaxEdits} \subseteq Nat

VARIABLES
    list,       \* the React state of the page
    listLoads,  \* loads of the table in flight, in the order they were sent
    editing,    \* what changes an entry, in flight
    viewing,    \* loads of a vehicle model's programs in flight
    detail,     \* the second drawer: the program in its title, the one shown
    detailing,  \* loads of details in flight
    entries,    \* the server's entries
    edits,      \* changes begun
    astray      \* history: an answer came to a filter or a model not its own

listVars ==
    <<list, listLoads, editing, viewing, detail, detailing, entries, edits, astray>>
detailVars == <<detail, detailing>>

New == 0
NoDetail == [model |-> New, program |-> "none"]
NoEdit == [of |-> New, removes |-> FALSE, page |-> 0, narrow |-> FALSE]

Load(page, narrow) == [page |-> page, narrow |-> narrow, passed |-> FALSE]

\* Pages with filters load twice when they open: once for the page, once for
\* the filters.
AdminInit ==
    /\ entries \in SUBSET Entries
    /\ \E k \in ListKinds :
        /\ list = [kind |-> k, typed |-> FALSE, narrow |-> FALSE, row |-> New, page |-> 1,
                   total |-> 0, of |-> FALSE, loading |-> TRUE, current |-> New,
                   modal |-> FALSE, drawer |-> FALSE, programs |-> New]
        /\ listLoads = IF k = "departments" THEN <<Load(1, FALSE)>>
                       ELSE <<Load(1, FALSE), Load(1, FALSE)>>
    /\ editing = NoEdit /\ viewing = {} /\ edits = 0
    /\ detail = [of |-> NoDetail, shown |-> NoDetail, open |-> FALSE] /\ detailing = {}
    /\ astray = [rows |-> FALSE, drawer |-> FALSE, detail |-> FALSE]

\* What the server selects; page n holds the n-th of them.
Selected(narrow) == IF narrow THEN entries \cap Narrow ELSE entries
RowOf(load) ==
    LET found == Selected(load.narrow)
        nth == {e \in found : Cardinality({d \in found : d <= e}) = load.page}
    IN  IF nth # {} THEN CHOOSE e \in nth : TRUE ELSE New

-----------------------------------------------------------------------------
\* Loading.

\* loadData: the spinner turns, the request is sent.
Loads(new, load) ==
    /\ Len(listLoads) < MaxRowLoads /\ listLoads' = Append(listLoads, load)
    /\ list' = [new EXCEPT !.loading = TRUE]

\* The effect on the filters: the first page.
Filtered(new) == Loads(new, Load(1, new.narrow))

\* History: an answer to what is shown now passes the loads sent before it.
ListEnded(i) ==
    [j \in 1..Len(listLoads) - 1 |->
       IF j >= i THEN listLoads[j + 1]
       ELSE [listLoads[j] EXCEPT !.passed = @ \/ ~listLoads[i].passed]]

\* Mutant: an empty page is shown.
FallsBackNever(load) == FALSE

\* Mutant: also from the first page.
FallsBackFurther(load) == RowOf(load) = New

\* fallbackToPreviousPage
FallsBack(load) == load.page > 1 /\ RowOf(load) = New

\* loadData(page - 1): the spinner goes on turning.
ListFallsBack(i) ==
    /\ i \in DOMAIN listLoads /\ FallsBack(listLoads[i])
    /\ listLoads' = [listLoads EXCEPT ![i].page = @ - 1]
    /\ list' = [list EXCEPT !.loading = TRUE]
    /\ UNCHANGED <<editing, viewing, detailVars, entries, edits, astray>>

ListAnswered(i) ==
    /\ i \in DOMAIN listLoads /\ ~FallsBack(listLoads[i])
    /\ listLoads' = ListEnded(i)
    /\ list' = [list EXCEPT !.row = RowOf(listLoads[i]), !.page = listLoads[i].page,
                            !.total = Cardinality(Selected(listLoads[i].narrow)),
                            !.of = listLoads[i].narrow, !.loading = FALSE]
    /\ astray' = [astray EXCEPT !.rows = listLoads[i].passed]
    /\ UNCHANGED <<editing, viewing, detailVars, entries, edits>>

ListNotAnswered(i) ==
    /\ i \in DOMAIN listLoads /\ listLoads' = ListEnded(i)
    /\ list' = [list EXCEPT !.loading = FALSE]
    /\ astray' = [astray EXCEPT !.rows = @ \/ ~listLoads[i].passed]
    /\ UNCHANGED <<editing, viewing, detailVars, entries, edits>>

-----------------------------------------------------------------------------
\* The filters and the pages of the table: a dialog or drawer covers them.

Undisturbed == ~list.modal /\ ~list.drawer /\ ~detail.open

\* A filter counts at once, except for the keyword of the vehicle models.
Filter(narrow) ==
    /\ Undisturbed /\ list.kind \in {"production_lines", "users"} /\ narrow # list.narrow
    /\ Filtered([list EXCEPT !.narrow = narrow, !.typed = narrow])
    /\ UNCHANGED <<editing, viewing, detailVars, entries, edits, astray>>

TypeSearchInput(narrow) ==
    /\ Undisturbed /\ list.kind = "vehicle_models" /\ narrow # list.typed
    /\ list' = [list EXCEPT !.typed = narrow]
    /\ UNCHANGED <<listLoads, editing, viewing, detailVars, entries, edits, astray>>

\* By the button or by the timer.
ApplySearchInput ==
    /\ list.narrow # list.typed
    /\ Filtered([list EXCEPT !.narrow = list.typed])
    /\ UNCHANGED <<editing, viewing, detailVars, entries, edits, astray>>

\* handleResetFilter: the date range is a new object, so that it loads again.
ResetFilters ==
    /\ Undisturbed /\ list.kind # "departments"
    /\ Filtered([list EXCEPT !.narrow = FALSE, !.typed = FALSE])
    /\ UNCHANGED <<editing, viewing, detailVars, entries, edits, astray>>

TurnTo(p) ==
    /\ Undisturbed /\ p \in 1..list.total /\ p # list.page
    /\ Loads(list, Load(p, list.narrow))
    /\ UNCHANGED <<editing, viewing, detailVars, entries, edits, astray>>

-----------------------------------------------------------------------------
\* The dialog, and what changes entries.

\* handleAdd and handleEdit
OpenEntry(e) ==
    /\ Undisturbed /\ e \in {New, list.row}
    /\ list' = [list EXCEPT !.current = e, !.modal = TRUE]
    /\ UNCHANGED <<listLoads, editing, viewing, detailVars, entries, edits, astray>>

CloseEntry ==
    /\ list.modal /\ list' = [list EXCEPT !.modal = FALSE]
    /\ UNCHANGED <<listLoads, editing, viewing, detailVars, entries, edits, astray>>

Edit(of, removes) ==
    /\ editing = NoEdit /\ edits < MaxEdits /\ edits' = edits + 1
    /\ editing' = [of |-> of, removes |-> removes, page |-> list.page, narrow |-> list.narrow]
    /\ UNCHANGED <<list, listLoads, viewing, detailVars, entries, astray>>

SubmitEntry == list.modal /\ Edit(list.current, FALSE)
DeleteEntry == Undisturbed /\ list.row # New /\ Edit(list.row, TRUE)

\* What the server does; e is the id of a new entry.
Done(e) ==
    IF editing.removes THEN entries' = entries \ {editing.of}
    ELSE IF editing.of # New THEN entries' = entries
    ELSE e \in Entries \ entries /\ entries' = entries \cup {e}

\* After a submission whatever dialog is open by then closes.
EntryChanged(e) ==
    /\ editing # NoEdit /\ editing' = NoEdit /\ Done(e)
    /\ Loads([list EXCEPT !.modal = @ /\ editing.removes],
             [Load(editing.page, editing.narrow) EXCEPT !.passed = editing.narrow # list.narrow])
    /\ UNCHANGED <<viewing, detailVars, edits, astray>>

\* Refused, or only the answer is lost: the dialog stays, nothing is loaded.
EntryNotChanged(e) ==
    /\ editing # NoEdit /\ editing' = NoEdit /\ (Done(e) \/ UNCHANGED entries)
    /\ UNCHANGED <<list, listLoads, viewing, detailVars, edits, astray>>

-----------------------------------------------------------------------------
\* The drawer of the vehicle models; it shares the spinner and the current
\* model with the table and the dialog.

HandleViewPrograms ==
    /\ list.kind = "vehicle_models" /\ Undisturbed /\ list.row # New
    /\ Cardinality(viewing) < MaxViews
    /\ list' = [list EXCEPT !.current = list.row, !.loading = TRUE]
    /\ viewing' = viewing \cup {list.row}
    /\ UNCHANGED <<listLoads, editing, detailVars, entries, edits, astray>>

ProgramsViewed(e) ==
    /\ e \in viewing /\ viewing' = viewing \ {e}
    /\ list' = [list EXCEPT !.programs = e, !.drawer = TRUE, !.loading = FALSE]
    /\ astray' = [astray EXCEPT !.drawer = e # list.current]
    /\ UNCHANGED <<listLoads, editing, detailVars, entries, edits>>

ProgramsNotViewed(e) ==
    /\ e \in viewing /\ viewing' = viewing \ {e}
    /\ list' = [list EXCEPT !.loading = FALSE]
    /\ UNCHANGED <<listLoads, editing, detailVars, entries, edits, astray>>

\* Nothing opens it again without programs of its own: they are forgotten.
CloseProgramsDrawer ==
    /\ list.drawer /\ ~detail.open /\ list' = [list EXCEPT !.drawer = FALSE, !.programs = New]
    /\ astray' = [astray EXCEPT !.drawer = FALSE]
    /\ UNCHANGED <<listLoads, editing, viewing, detailVars, entries, edits>>

-----------------------------------------------------------------------------
\* The drawer on top of it opens when the answers have come, in whatever
\* order; it shares the spinner, too.

HandleViewProgramDetail(p) ==
    LET this == [model |-> list.programs, program |-> p] IN
    /\ list.drawer /\ list.programs # New /\ ~detail.open
    /\ Cardinality(detailing) < MaxDetails /\ this \notin detailing
    /\ detail' = [detail EXCEPT !.of = this] /\ detailing' = detailing \cup {this}
    /\ list' = [list EXCEPT !.loading = TRUE]
    /\ UNCHANGED <<listLoads, editing, viewing, entries, edits, astray>>

\* Open also when they could not be had: then it is empty.
DetailViewed(d, shown) ==
    /\ d \in detailing /\ detailing' = detailing \ {d}
    /\ shown \in {d, NoDetail} /\ detail' = [detail EXCEPT !.shown = shown, !.open = TRUE]
    /\ astray' = [astray EXCEPT !.detail = shown # NoDetail /\ d # detail.of]
    /\ list' = [list EXCEPT !.loading = FALSE]
    /\ UNCHANGED <<listLoads, editing, viewing, entries, edits>>

\* Its program is forgotten when no answer can open it again.
CloseDetail ==
    /\ detail.open
    /\ detail' = [detail EXCEPT !.open = FALSE, !.shown = NoDetail,
                                !.of = IF detailing = {} THEN NoDetail ELSE @]
    /\ astray' = [astray EXCEPT !.detail = FALSE]
    /\ UNCHANGED <<list, listLoads, editing, viewing, detailing, entries, edits>>

-----------------------------------------------------------------------------

ListAnswers ==
    \/ \E i \in 1..MaxRowLoads : ListFallsBack(i) \/ ListAnswered(i) \/ ListNotAnswered(i)
    \/ \E e \in viewing : ProgramsViewed(e) \/ ProgramsNotViewed(e)
    \/ \E d \in detailing : DetailViewed(d, d) \/ DetailViewed(d, NoDetail)

AdminNext ==
    \/ \E narrow \in BOOLEAN : Filter(narrow) \/ TypeSearchInput(narrow)
    \/ ApplySearchInput \/ ResetFilters \/ SubmitEntry \/ DeleteEntry
    \/ \E e \in Entries \cup {New} : OpenEntry(e) \/ EntryChanged(e) \/ EntryNotChanged(e)
    \/ \E p \in 1..Cardinality(Entries) : TurnTo(p)
    \/ CloseEntry \/ HandleViewPrograms \/ CloseProgramsDrawer \/ CloseDetail
    \/ \E p \in Carried : HandleViewProgramDetail(p)
    \/ ListAnswers

\* Requests are answered, or end with the timeout of the API client.
AdminFairness == WF_listVars(ListAnswers)
AdminSpec == AdminInit /\ [][AdminNext]_listVars /\ AdminFairness

-----------------------------------------------------------------------------

ListTypeOK ==
    LET PageNumbers == {1} \cup 1..Cardinality(Entries)
        Details == [model : Entries, program : Carried]
    IN
    /\ list.kind \in ListKinds
    /\ {list.row, list.current, list.programs} \subseteq Entries \cup {New}
    /\ list.page \in PageNumbers /\ list.total \in 0..Cardinality(Entries)
    /\ {list.typed, list.narrow, list.of, list.loading, list.modal, list.drawer}
          \subseteq BOOLEAN
    /\ listLoads \in Seq([page : PageNumbers, narrow : BOOLEAN, passed : BOOLEAN])
    /\ detailing \subseteq Details
    /\ {detail.of, detail.shown} \subseteq Details \cup {NoDetail}
    /\ viewing \subseteq Entries /\ entries \subseteq Entries /\ edits \in 0..MaxEdits

(***************************************************************************)
(* Deletions, filters and page turns may overlap as they like: nobody is   *)
(* left on an empty page when there are rows before it (the tests ask for  *)
(* this: "falls back to previous page when current page becomes empty      *)
(* after delete"), and once everything asked for has come, the rows are    *)
(* those the filter shown selects, unless an answer was overtaken, failed, *)
(* or follows a change made under another filter.  The drawer shows the    *)
(* programs of the model in its title, and the one above it the versions   *)
(* of the program in its title, unless another row was opened while they   *)
(* were under way.                                                         *)
(***************************************************************************)
ListConsistent ==
    /\ list.row = New => list.page = 1
    /\ (listLoads = <<>> /\ ~astray.rows) => list.of = list.narrow
    /\ (list.drawer /\ ~astray.drawer) => list.programs = list.current
    /\ (detail.open /\ ~astray.detail) => detail.shown \in {detail.of, NoDetail}

=============================================================================
