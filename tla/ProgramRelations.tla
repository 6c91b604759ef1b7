-------------------------- MODULE ProgramRelations --------------------------
(***************************************************************************)
(* The drawer of a program's mappings and the dialog that adds some        *)
(* (useProgramRelations.ts, the drawer and the dialog in                   *)
(* ProgramManagement.tsx).                                                 *)
(*                                                                         *)
(* The candidates of the dialog are loaded by an effect whose cleanup      *)
(* marks the load before as cancelled.  The mappings of the drawer are     *)
(* loaded without such a mark: when it opens, and again after each change, *)
(* for the program that was the current one at the click.  Every change    *)
(* sends a load of its own; the server reads when it comes to it, and the  *)
(* answers come in any order.                                              *)
(***************************************************************************)
EXTENDS Naturals, Sequences, FiniteSets, SequencesExt

CONSTANTS
    Relatives,      \* programs
    Searches,       \* what keyword and filters may select, NoSearch among them
    NoSearch,       \* no keyword, no filter
    MaxCalls        \* bound: requests in flight

ASSUME RelationsAssumption == NoSearch \in Searches /\ MaxCalls \in Nat

VARIABLES
    drawer,         \* the React state of the drawer and the dialog
    remapping,      \* additions and deletions of mappings in flight
    mappingLoads,   \* loads of mappings in flight, in the order they were sent
    candidateLoads, \* loads of candidates in flight
    mapped,         \* the server: rows of program_mappings, deleted ones too
    disturbed       \* history: mappings came late, or did not come

mappingVars == <<remapping, mappingLoads, mapped, disturbed>>
relationVars == <<drawer, candidateLoads, mappingVars>>

Nothing == "nothing"
NoMappings == [of |-> Nothing, children |-> {}]
NoCandidates == [search |-> Nothing, programs |-> {}]
Mapping(parent, child) == [parent |-> parent, child |-> child, deleted |-> FALSE]

RelationsInit ==
    /\ drawer = [current |-> Nothing, open |-> FALSE, related |-> NoMappings,
                 adding |-> FALSE, typed |-> NoSearch, search |-> NoSearch,
                 candidates |-> NoCandidates, loading |-> FALSE]
    /\ remapping = <<>> /\ mappingLoads = <<>> /\ candidateLoads = {} /\ disturbed = FALSE
    /\ mapped \in SUBSET {Mapping(p, c) : p, c \in Relatives}
    /\ \A m \in mapped : m.parent # m.child /\ \A n \in mapped : m.child = n.child => m = n

-----------------------------------------------------------------------------
\* The effect that loads the candidates.

\* What a change of the dialog, the program or the search leads to.
CandidatesOf(new) ==
    LET dropped == {[c EXCEPT !.cancelled = TRUE] : c \in candidateLoads} IN
    IF <<new.adding, new.current, new.search>> = <<drawer.adding, drawer.current, drawer.search>>
    THEN drawer' = new /\ UNCHANGED candidateLoads
    ELSE IF ~new.adding \/ new.current = Nothing
    THEN drawer' = [new EXCEPT !.candidates = NoCandidates] /\ candidateLoads' = dropped
    ELSE /\ drawer' = new
         /\ candidateLoads' = dropped \cup {[search |-> new.search, cancelled |-> FALSE]}

\* An answer that was cancelled changes nothing.  The programs are any: the server
\* read them earlier, and selects by keyword and filters.
CandidatesAnswered(c, programs) ==
    /\ c \in candidateLoads /\ candidateLoads' = candidateLoads \ {c}
    /\ drawer' = IF c.cancelled THEN drawer
                 ELSE [drawer EXCEPT !.candidates = [search |-> c.search, programs |-> programs]]
    /\ UNCHANGED mappingVars

CandidatesFailed(c) ==
    /\ c \in candidateLoads /\ candidateLoads' = candidateLoads \ {c}
    /\ drawer' = IF c.cancelled THEN drawer
                 ELSE [drawer EXCEPT !.candidates = NoCandidates]
    /\ UNCHANGED mappingVars

-----------------------------------------------------------------------------
\* The drawer.

MayCall == Len(remapping) + Len(mappingLoads) < MaxCalls
MappingLoad(kind, of) ==
    [kind |-> kind, of |-> of, served |-> FALSE, children |-> {}, passed |-> FALSE]
LoadMappings(kind, of) == mappingLoads' = Append(mappingLoads, MappingLoad(kind, of))
Remap(kind, of, row) ==
    /\ MayCall
    /\ remapping' = Append(remapping, [kind |-> kind, of |-> of, row |-> row,
                                      found |-> FALSE, served |-> FALSE])

\* The other dialogs of the page make another program the current one.
OpenElsewhere(p) ==
    /\ ~drawer.open /\ ~drawer.adding /\ p # drawer.current
    /\ CandidatesOf([drawer EXCEPT !.current = p])
    /\ UNCHANGED mappingVars

\* The drawer opens when the mappings have come.
HandleViewRelations(p) ==
    /\ ~drawer.open /\ ~drawer.adding /\ MayCall
    /\ CandidatesOf([drawer EXCEPT !.current = p, !.loading = TRUE])
    /\ LoadMappings("view", p)
    /\ UNCHANGED <<remapping, mapped, disturbed>>

Children(p) == {m.child : m \in {n \in mapped : n.parent = p /\ ~n.deleted}}
Mappings(p) == [of |-> p, children |-> Children(p)]

\* listProgramMappings reads, some time before its answer is there.
ServeMappings(i) ==
    /\ i \in DOMAIN mappingLoads /\ ~mappingLoads[i].served
    /\ mappingLoads' = [mappingLoads EXCEPT
           ![i] = [@ EXCEPT !.served = TRUE, !.children = Children(mappingLoads[i].of)]]
    /\ UNCHANGED <<drawer, candidateLoads, remapping, mapped, disturbed>>

\* History: what ends passes the loads sent before it.
MappingsEnded(i) ==
    [j \in 1..Len(mappingLoads) - 1 |->
       IF j >= i THEN mappingLoads[j + 1]
       ELSE [mappingLoads[j] EXCEPT !.passed = @ \/ ~mappingLoads[i].passed]]

Read(l) == [of |-> l.of, children |-> l.children]

\* setRelatedPrograms, whichever program is the current one by now; a view
\* opens the drawer, a refresh leaves it as it is.
MappingsAnswered(i) ==
    LET l == mappingLoads[i]
        shown == [drawer EXCEPT !.related = Read(l)]
    IN
    /\ i \in DOMAIN mappingLoads /\ l.served /\ mappingLoads' = MappingsEnded(i)
    /\ drawer' = IF l.kind = "view" THEN [shown EXCEPT !.open = TRUE, !.loading = FALSE]
                 ELSE shown
    /\ disturbed' = (l.passed \/ l.of # drawer.current)
    /\ UNCHANGED <<candidateLoads, remapping, mapped>>

\* A view that fails empties a drawer that is open by then; a refresh reports
\* that the change failed, and shows what was.
MappingsFailed(i) ==
    LET l == mappingLoads[i] IN
    /\ i \in DOMAIN mappingLoads /\ mappingLoads' = MappingsEnded(i)
    /\ drawer' = IF l.kind = "view" THEN [drawer EXCEPT !.related = NoMappings, !.loading = FALSE]
                 ELSE drawer
    /\ disturbed' = (disturbed \/ l.kind = "view" \/ ~l.passed)
    /\ UNCHANGED <<candidateLoads, remapping, mapped>>

CloseDrawer ==
    /\ drawer.open /\ ~drawer.adding
    /\ drawer' = [drawer EXCEPT !.open = FALSE]
    /\ UNCHANGED <<candidateLoads, mappingVars>>

\* The mapping shown may be of another program than the current one, which is
\* the one that is loaded again.
HandleDeleteRelation(child) ==
    /\ drawer.open /\ ~drawer.adding /\ child \in drawer.related.children
    /\ Remap("delete", drawer.current, Mapping(drawer.related.of, child))
    /\ UNCHANGED <<drawer, mappingLoads, candidateLoads, mapped, disturbed>>

\* DeleteProgramMapping looks the mapping up before it deletes it; one that is
\* gone already is refused.
FindMapping(i) ==
    /\ i \in DOMAIN remapping /\ remapping[i].kind = "delete"
    /\ ~remapping[i].found /\ remapping[i].row \in mapped
    /\ remapping' = [remapping EXCEPT ![i] = [@ EXCEPT !.found = TRUE]]
    /\ UNCHANGED <<drawer, mappingLoads, candidateLoads, mapped, disturbed>>

\* A mapping that was deleted since it was found is no error.
DeletedRow(row) ==
    IF row \in mapped THEN (mapped \ {row}) \cup {[row EXCEPT !.deleted = TRUE]} ELSE mapped

\* A row that is deleted keeps its place in the unique index of child programs:
\* what was a child once is not made one again.
MayBeChild(p) == \A m \in mapped : m.child # p

ServeRemapping(i) ==
    /\ i \in DOMAIN remapping /\ ~remapping[i].served
    /\ LET row == remapping[i].row IN
         IF remapping[i].kind = "delete" THEN remapping[i].found /\ mapped' = DeletedRow(row)
         ELSE MayBeChild(row.child) /\ mapped' = mapped \cup {row}
    /\ remapping' = [remapping EXCEPT ![i] = [@ EXCEPT !.served = TRUE]]
    /\ UNCHANGED <<drawer, mappingLoads, candidateLoads, disturbed>>

\* Mutant: the mappings are not loaded again.
RelationDeletedUnseen(i) ==
    /\ i \in DOMAIN remapping /\ remapping[i].kind = "delete" /\ remapping[i].served
    /\ remapping' = RemoveAt(remapping, i)
    /\ UNCHANGED <<drawer, mappingLoads, candidateLoads, mapped, disturbed>>

\* refreshRelatedPrograms for the program of the click.
RelationDeleted(i) ==
    /\ i \in DOMAIN remapping /\ remapping[i].kind = "delete" /\ remapping[i].served
    /\ remapping' = RemoveAt(remapping, i) /\ LoadMappings("refresh", remapping[i].of)
    /\ UNCHANGED <<drawer, candidateLoads, mapped, disturbed>>

\* Refused, or its answer lost: then nothing is loaded, and what was read until
\* now may lack what the server has done.
RemappingFailed(i) ==
    LET served == remapping[i].served IN
    /\ i \in DOMAIN remapping /\ remapping' = RemoveAt(remapping, i)
    /\ mappingLoads' = IF ~served THEN mappingLoads
                       ELSE [j \in DOMAIN mappingLoads |->
                               [mappingLoads[j] EXCEPT !.passed = @ \/ mappingLoads[j].served]]
    /\ disturbed' = (disturbed \/ served)
    /\ UNCHANGED <<drawer, candidateLoads, mapped>>

-----------------------------------------------------------------------------
\* The dialog.

StartAdding ==
    /\ drawer.open /\ ~drawer.adding /\ CandidatesOf([drawer EXCEPT !.adding = TRUE])
    /\ UNCHANGED mappingVars

\* A filter counts at once, a keyword after 300 ms without another.
TypeSearch(s) ==
    /\ drawer.adding /\ s # drawer.typed
    /\ drawer' = [drawer EXCEPT !.typed = s]
    /\ UNCHANGED <<candidateLoads, mappingVars>>

SearchApplied ==
    /\ drawer.search # drawer.typed
    /\ CandidatesOf([drawer EXCEPT !.search = drawer.typed])
    /\ UNCHANGED mappingVars

\* resetMappingFilters and the closing of the dialog.
WithoutDialog(d) == [d EXCEPT !.adding = FALSE, !.typed = NoSearch, !.search = NoSearch]

CloseAddRelationModal ==
    /\ drawer.adding /\ CandidatesOf(WithoutDialog(drawer))
    /\ UNCHANGED mappingVars

\* availableMappingCandidatePrograms
Available(d) == d.candidates.programs \ ({d.current} \cup d.related.children)

HandleAddRelation(child) ==
    /\ drawer.adding /\ child \in Available(drawer)
    /\ Remap("add", drawer.current, Mapping(drawer.current, child))
    /\ UNCHANGED <<drawer, mappingLoads, candidateLoads, mapped, disturbed>>

\* Whatever dialog is open by then closes.
RelationAdded(i) ==
    /\ i \in DOMAIN remapping /\ remapping[i].kind = "add" /\ remapping[i].served
    /\ remapping' = RemoveAt(remapping, i) /\ LoadMappings("refresh", remapping[i].of)
    /\ CandidatesOf(WithoutDialog(drawer))
    /\ UNCHANGED <<mapped, disturbed>>

-----------------------------------------------------------------------------

MappingAnswers ==
    \E i \in 1..MaxCalls : ServeMappings(i) \/ MappingsAnswered(i) \/ MappingsFailed(i)
RemappingAnswers ==
    \E i \in 1..MaxCalls : \/ FindMapping(i) \/ ServeRemapping(i) \/ RemappingFailed(i)
                          \/ RelationDeleted(i) \/ RelationAdded(i)
CandidateAnswers ==
    \E c \in candidateLoads : \/ \E ps \in SUBSET Relatives : CandidatesAnswered(c, ps)
                            \/ CandidatesFailed(c)

RelationsNext ==
    \/ \E p \in Relatives : \/ OpenElsewhere(p) \/ HandleViewRelations(p)
                            \/ HandleDeleteRelation(p) \/ HandleAddRelation(p)
    \/ CloseDrawer \/ StartAdding \/ SearchApplied \/ CloseAddRelationModal
    \/ \E s \in Searches : TypeSearch(s)
    \/ MappingAnswers \/ RemappingAnswers \/ CandidateAnswers

\* Requests are answered, or end with the timeout of the API client.
RelationsFairness ==
    /\ WF_relationVars(MappingAnswers)
    /\ WF_relationVars(RemappingAnswers) /\ WF_relationVars(CandidateAnswers)
RelationsSpec == RelationsInit /\ [][RelationsNext]_relationVars /\ RelationsFairness

-----------------------------------------------------------------------------

RelationsTypeOK ==
    /\ {drawer.current, drawer.related.of} \subseteq Relatives \cup {Nothing}
    /\ drawer.related.children \subseteq Relatives
    /\ drawer.candidates.search \in Searches \cup {Nothing}
    /\ drawer.candidates.programs \subseteq Relatives
    /\ {drawer.typed, drawer.search} \subseteq Searches
    /\ {drawer.open, drawer.adding, drawer.loading, disturbed} \subseteq BOOLEAN
    /\ candidateLoads \subseteq [search : Searches, cancelled : BOOLEAN]
    /\ mapped \subseteq [parent : Relatives, child : Relatives, deleted : BOOLEAN]
    /\ mappingLoads \in Seq([kind : {"view", "refresh"}, of : Relatives, served : BOOLEAN,
                             children : SUBSET Relatives, passed : BOOLEAN])
    /\ remapping \in Seq([kind : {"delete", "add"}, of : Relatives,
                          row : [parent : Relatives, child : Relatives, deleted : {FALSE}],
                          found : BOOLEAN, served : BOOLEAN])
    /\ Len(remapping) + Len(mappingLoads) <= MaxCalls

Awaited == \E c \in candidateLoads : ~c.cancelled

(***************************************************************************)
(* The dialog offers the candidates of the search it shows, in whatever    *)
(* order its loads are answered; a closed one holds none.  The drawer at   *)
(* rest shows the mappings of the current program as the server has them,  *)
(* however its changes overlap and whenever the server reads; unless an    *)
(* older load was answered last, the last one was of another program than  *)
(* the current one by then or did not come, or the server changed a        *)
(* mapping and the page was not told.                                      *)
(***************************************************************************)
RelationsShown ==
    /\ ~Awaited => drawer.candidates.search \in {drawer.search, Nothing}
    /\ ~drawer.adding => drawer.candidates = NoCandidates
    /\ (drawer.open /\ ~disturbed /\ remapping = <<>> /\ mappingLoads = <<>>) =>
          drawer.related = Mappings(drawer.current)

=============================================================================
