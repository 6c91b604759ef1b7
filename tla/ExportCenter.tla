---------------------------- MODULE ExportCenter ----------------------------
(***************************************************************************)
(* The export page (DataExportCenter.tsx, ColumnSelector.tsx): columns to  *)
(* choose, filters, a preview page by page, figures, and the Excel file.   *)
(*                                                                         *)
(* Effects load the preview whenever columns, filters or page change, and  *)
(* the figures whenever the filters do.  No load is cancelled.  The        *)
(* keyword counts a moment after it was typed.  The choice of columns is   *)
(* kept in the browser, the columns there are come from the server.        *)
(***************************************************************************)
EXTENDS Naturals, Sequences, FiniteSets, SequencesExt

CONSTANTS
    BuiltinColumns, CustomColumns,  \* columns there may be
    CenterFilters,                  \* values of the other filters, NoFilter among them
    NoFilter,
    CenterKeywords,                 \* keywords, "" among them
    CenterPages,                    \* pages of the preview, 1 among them
    MaxCenterLoads,                 \* bound: loads in flight
    MaxCenterVisits                 \* bound: visits of the page

ASSUME CenterAssumption ==
    /\ NoFilter \in CenterFilters /\ "" \in CenterKeywords /\ 1 \in CenterPages
    /\ MaxCenterLoads \in Nat /\ MaxCenterVisits \in Nat \ {0}

VARIABLES
    center,         \* the React state of the page
    previewLoads,   \* loads of the preview in flight, in the order they were sent
    figureLoads,    \* loads of the figures in flight, likewise
    savedColumns,   \* the choice of columns kept in localStorage
    visits,         \* bound: visits so far
    superseded      \* history: something older came last, or the last did not come

centerVars == <<center, previewLoads, figureLoads, savedColumns, visits, superseded>>

Columns == BuiltinColumns \cup CustomColumns
NoFigures == [keyword |-> "", filter |-> "none yet"]
NoPreview == [columns |-> {}, page |-> 0, wanted |-> NoFigures]

\* What loadStats and loadPreview are called with.
Wanted(c) == [keyword |-> c.keyword, filter |-> c.filter]
PreviewOf(c) == [columns |-> c.selected, page |-> c.page, wanted |-> Wanted(c)]
CenterLoad(query) == [query |-> query, passed |-> FALSE]

\* The page is rendered for the first time: columns and figures are loading.
Opened ==
    [offered |-> {}, columnsLoading |-> TRUE, selected |-> {}, typed |-> "", keyword |-> "",
     filter |-> NoFilter, page |-> 1, preview |-> NoPreview, loading |-> FALSE,
     figures |-> NoFigures, counting |-> TRUE, exporting |-> FALSE, turned |-> NoFigures]

CenterInit ==
    /\ center = Opened /\ previewLoads = <<>> /\ figureLoads = <<CenterLoad(Wanted(Opened))>>
    /\ savedColumns = {} /\ visits = 1
    /\ superseded = [preview |-> FALSE, figures |-> FALSE, page |-> FALSE]

\* What was in flight finds nobody when the page is opened again.
ReopenCenter ==
    /\ visits < MaxCenterVisits /\ visits' = visits + 1
    /\ center' = Opened /\ previewLoads' = <<>>
    /\ figureLoads' = <<CenterLoad(Wanted(Opened))>>
    /\ superseded' = [preview |-> FALSE, figures |-> FALSE, page |-> FALSE]
    /\ UNCHANGED savedColumns

-----------------------------------------------------------------------------
\* Rendering: the effects that load.

\* anew: the columns are a new array, be its content the same.  Without
\* columns nothing is loaded, and the preview stays.
ShowCenter(new, anew) ==
    LET again == new.selected # {} /\ (anew \/ PreviewOf(new) # PreviewOf(center))
        recount == Wanted(new) # Wanted(center) IN
    /\ previewLoads' = IF again THEN Append(previewLoads, CenterLoad(PreviewOf(new)))
                       ELSE previewLoads
    /\ figureLoads' = IF recount THEN Append(figureLoads, CenterLoad(Wanted(new)))
                      ELSE figureLoads
    /\ center' = [new EXCEPT !.loading = @ \/ again, !.counting = @ \/ recount,
                             !.turned = IF new.page = 1 THEN NoFigures ELSE @]
    /\ UNCHANGED visits

\* The choice kept is restored, be its columns still there or not; without
\* one all builtin columns are chosen.
ColumnsAnswered(custom) ==
    /\ center.columnsLoading
    /\ ShowCenter([center EXCEPT !.columnsLoading = FALSE,
                     !.offered = BuiltinColumns \cup custom,
                     !.selected = IF savedColumns # {} THEN savedColumns ELSE BuiltinColumns],
                  TRUE)
    /\ UNCHANGED <<savedColumns, superseded>>

ColumnsFailed ==
    /\ center.columnsLoading /\ ShowCenter([center EXCEPT !.columnsLoading = FALSE], FALSE)
    /\ UNCHANGED <<savedColumns, superseded>>

\* handleSelectedKeysChange.
SelectColumns(keys) ==
    /\ ~center.columnsLoading
    /\ ShowCenter([center EXCEPT !.selected = keys, !.page = 1], TRUE)
    /\ savedColumns' = keys /\ UNCHANGED superseded

\* A column, a group of columns, everything, nothing.
ToggleColumns(group) ==
    /\ group # {} /\ group \subseteq center.offered
    /\ SelectColumns(IF group \subseteq center.selected THEN center.selected \ group
                     ELSE center.selected \cup group)
SelectAllColumns == SelectColumns(center.offered)
DeselectAllColumns == SelectColumns({})

-----------------------------------------------------------------------------
\* Filters and pages.

TypeCenterKeyword(k) ==
    /\ k # center.typed /\ ShowCenter([center EXCEPT !.typed = k, !.page = 1], FALSE)
    /\ UNCHANGED <<savedColumns, superseded>>

\* Unlike the other filters, the keyword comes to count without going to the
\* first page: a page turned since then is of the keyword before.
KeywordCounts ==
    /\ center.typed # center.keyword
    /\ ShowCenter([center EXCEPT !.keyword = center.typed], FALSE)
    /\ superseded' = [superseded EXCEPT !.page = center.page # 1]
    /\ UNCHANGED savedColumns

\* Mutant: the page stays.
FilterCenterInPlace(f) ==
    /\ f # center.filter /\ ShowCenter([center EXCEPT !.filter = f], FALSE)
    /\ UNCHANGED <<savedColumns, superseded>>

FilterCenter(f) ==
    /\ f # center.filter /\ ShowCenter([center EXCEPT !.filter = f, !.page = 1], FALSE)
    /\ UNCHANGED <<savedColumns, superseded>>

TurnPreviewPage(p) ==
    /\ p # center.page /\ center.preview # NoPreview
    /\ ShowCenter([center EXCEPT !.page = p, !.turned = Wanted(center)], FALSE)
    /\ superseded' = [superseded EXCEPT !.page = FALSE] /\ UNCHANGED savedColumns

\* Also without any column: the server then takes its own choice.
RefreshCenter ==
    /\ previewLoads' = Append(previewLoads, CenterLoad(PreviewOf(center)))
    /\ figureLoads' = Append(figureLoads, CenterLoad(Wanted(center)))
    /\ center' = [center EXCEPT !.loading = TRUE, !.counting = TRUE]
    /\ UNCHANGED <<savedColumns, visits, superseded>>

-----------------------------------------------------------------------------
\* Answers.

\* History: an answer of its own time passes the loads sent before it.
AnsweredOf(loads, i) ==
    [j \in 1..Len(loads) - 1 |->
       IF j >= i THEN loads[j + 1]
       ELSE [loads[j] EXCEPT !.passed = @ \/ ~loads[i].passed]]

PreviewAnswered(i) ==
    /\ i \in DOMAIN previewLoads /\ previewLoads' = AnsweredOf(previewLoads, i)
    /\ center' = [center EXCEPT !.preview = previewLoads[i].query, !.loading = FALSE]
    /\ superseded' = [superseded EXCEPT !.preview = previewLoads[i].passed]
    /\ UNCHANGED <<figureLoads, savedColumns, visits>>

PreviewFailed(i) ==
    /\ i \in DOMAIN previewLoads /\ previewLoads' = AnsweredOf(previewLoads, i)
    /\ center' = [center EXCEPT !.loading = FALSE]
    /\ superseded' = [superseded EXCEPT !.preview = @ \/ ~previewLoads[i].passed]
    /\ UNCHANGED <<figureLoads, savedColumns, visits>>

FiguresAnswered(i) ==
    /\ i \in DOMAIN figureLoads /\ figureLoads' = AnsweredOf(figureLoads, i)
    /\ center' = [center EXCEPT !.figures = figureLoads[i].query, !.counting = FALSE]
    /\ superseded' = [superseded EXCEPT !.figures = figureLoads[i].passed]
    /\ UNCHANGED <<previewLoads, savedColumns, visits>>

FiguresFailed(i) ==
    /\ i \in DOMAIN figureLoads /\ figureLoads' = AnsweredOf(figureLoads, i)
    /\ center' = [center EXCEPT !.counting = FALSE]
    /\ superseded' = [superseded EXCEPT !.figures = @ \/ ~figureLoads[i].passed]
    /\ UNCHANGED <<previewLoads, savedColumns, visits>>

\* The file is of the columns and filters of the click; the page keeps
\* nothing of it but the button that waits.
HandleExport ==
    /\ center.selected # {} /\ ~center.exporting
    /\ center' = [center EXCEPT !.exporting = TRUE]
    /\ UNCHANGED <<previewLoads, figureLoads, savedColumns, visits, superseded>>

ExportEnds ==
    /\ center.exporting /\ center' = [center EXCEPT !.exporting = FALSE]
    /\ UNCHANGED <<previewLoads, figureLoads, savedColumns, visits, superseded>>

-----------------------------------------------------------------------------

PreviewAnswers == \E i \in 1..MaxCenterLoads : PreviewAnswered(i) \/ PreviewFailed(i)
FigureAnswers == \E i \in 1..MaxCenterLoads : FiguresAnswered(i) \/ FiguresFailed(i)
ColumnAnswers ==
    \/ \E custom \in SUBSET CustomColumns : ColumnsAnswered(custom)
    \/ ColumnsFailed

CenterSteps ==
    \/ PreviewAnswers \/ FigureAnswers \/ ColumnAnswers \/ ExportEnds
    \/ ReopenCenter \/ SelectAllColumns \/ DeselectAllColumns
    \/ KeywordCounts \/ RefreshCenter \/ HandleExport
    \/ \E k \in CenterKeywords : TypeCenterKeyword(k)
    \/ \E f \in CenterFilters : FilterCenter(f)
    \/ \E p \in CenterPages : TurnPreviewPage(p)
    \/ \E group \in {{c} : c \in Columns} \cup {BuiltinColumns, CustomColumns} :
         ToggleColumns(group)

CenterNext == CenterSteps /\ Len(previewLoads') + Len(figureLoads') <= MaxCenterLoads

\* Requests are answered, or end with the timeout of the API client.
CenterFairness ==
    /\ WF_centerVars(CenterNext /\ PreviewAnswers) /\ WF_centerVars(CenterNext /\ FigureAnswers)
    /\ WF_centerVars(CenterNext /\ (ColumnAnswers \/ ExportEnds))
CenterSpec == CenterInit /\ [][CenterNext]_centerVars /\ CenterFairness

-----------------------------------------------------------------------------

AllWanted == [keyword : CenterKeywords, filter : CenterFilters]
AllPreviews == [columns : SUBSET Columns, page : CenterPages, wanted : AllWanted]

CenterTypeOK ==
    /\ center.offered \subseteq Columns /\ PreviewOf(center) \in AllPreviews
    /\ center.typed \in CenterKeywords /\ center.preview \in AllPreviews \cup {NoPreview}
    /\ {center.figures, center.turned} \subseteq AllWanted \cup {NoFigures}
    /\ {center.columnsLoading, center.loading, center.counting, center.exporting} \subseteq BOOLEAN
    /\ previewLoads \in Seq([query : AllPreviews, passed : BOOLEAN])
    /\ figureLoads \in Seq([query : AllWanted, passed : BOOLEAN])
    /\ savedColumns \subseteq Columns /\ visits \in 1..MaxCenterVisits
    /\ superseded \in [preview : BOOLEAN, figures : BOOLEAN, page : BOOLEAN]

(***************************************************************************)
(* Once everything asked for has come, the preview is of the columns,      *)
(* filters and page chosen, and the figures above it are of the same       *)
(* filters; while no column is chosen the preview is an old one.  And a    *)
(* page but the first is only ever asked for with the filters under which  *)
(* it was turned to.  Not so when an answer was overtaken or the last one  *)
(* failed, and for a page turned while a keyword just typed did not count. *)
(***************************************************************************)
ExportShown ==
    /\ (previewLoads = <<>> /\ ~superseded.preview /\ center.selected # {}) =>
          center.preview = PreviewOf(center)
    /\ (figureLoads = <<>> /\ ~superseded.figures) => center.figures = Wanted(center)
    /\ (center.page # 1 /\ ~superseded.page) => center.turned = Wanted(center)

=============================================================================
