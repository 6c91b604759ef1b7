------------------------------ MODULE MCClient ------------------------------
(***************************************************************************)
(* Small instances of Client.                                              *)
(***************************************************************************)
EXTENDS Client, TLC

CONSTANTS a, b, c, x, y

\* Users, lines, targets, backups and children are called a and b, programs and tabs
\* x and y; in the area that moves the two are interchangeable.  c is a third program.
Interchangeable == Permutations({a, b}) \cup Permutations({x, y})

\* No role has a page permission by itself; administrators need none.
MCCodes == [r \in Roles |-> {}]

\* Somebody has written a description.
Written ==
    \/ {editor.text.note, editor.draft.note} # {""}
    \/ \E v \in DOMAIN described : described[v].note # ""
    \/ \E r \in asked : r.text.note # ""

\* The one tab in use sends a second login.
LoggingInAgain ==
    \E f \in flights : /\ f.kind = "login"
                       /\ \A t \in Tabs \ {f.tab} : tabs[t].user = Nobody /\ ~tabs[t].loading

(* Accidents the pages do not guard against are checked when they happen,   *)
(* and not followed further.  Nor are some combinations of what is apart    *)
(* anyway; each bound below says which.                                     *)

\* Two users of the same role, more than two requests of a session, and the
\* profile in a tab that another has changed, a changed account or an expired
\* cookie beside each other, the profile or a second login.
SessionBound ==
    /\ Cardinality({accounts[u].role : u \in Users}) > 1
    /\ Cardinality(flights) <= 2
    /\ (\E t \in Tabs : tabs[t].profile # {}) \/ (\E f \in flights : f.of # Nobody.name) =>
          (tally.logins = 1 /\ \A t \in Tabs : ~tabs[t].foreign) \/ LoggingInAgain
    /\ tally.expired + tally.changes > 0 =>
          /\ tally.expired + tally.changes = 1 /\ tally.logins <= 1
          /\ \A t \in Tabs : tabs[t].profile = {}

\* A load of a list beside its drawer, a dialog or its viewer.
ListBound ==
    /\ ~astray.rows /\ ~astray.drawer /\ ~astray.detail
    /\ (viewing # {} \/ list.drawer \/ list.programs # New) => Len(listLoads) <= 1
    /\ (detailing # {} \/ detail.of # NoDetail) =>
          listLoads = <<>> /\ viewing = {} /\ editing = NoEdit /\ ~list.narrow
    /\ list.drawer => list.typed = list.narrow

\* The property form beside a description or a version just made.
EditorBound ==
    /\ ~mixed.late /\ ~mixed.restored /\ ~editor.text.restored
    /\ (Written \/ lastVersion > FirstVersions) => ~editor.editing
    /\ Written => editor.upload = NoProgram
    /\ (editor.describing /\ editor.current # NoProgram) => ~editor.editing
    /\ ~editor.supported => ~editor.editing /\ ~editor.describing /\ ~editor.viewer

\* Filters, columns, pages and repeated visits of the export page at once.
ExportBound ==
    /\ ~superseded.preview /\ ~superseded.figures /\ ~superseded.page
    /\ center.exporting => previewLoads = <<>> /\ figureLoads = <<>>
    /\ center.typed # "" => center.filter = NoFilter
    /\ (visits > 1 \/ center.selected \notin {{}, BuiltinColumns}
          \/ CustomColumns \cap center.offered # {}) =>
          {center.typed, center.keyword} = {""} /\ center.filter = NoFilter
    /\ center.page # 1 => center.selected = BuiltinColumns /\ visits = 1

\* Children of two programs, a search beside mappings, and candidates that are some
\* of the programs, so that less can be added.
RelationsBound ==
    /\ ~disturbed
    /\ \A m \in mapped : m.parent = c
    /\ {drawer.typed, drawer.search} # {NoSearch} => mapped = {}
    /\ drawer.candidates.programs \in {{}, Relatives}

\* The load of a list beside a backup the page has given up.
BackupBound ==
    /\ ~mixedUp.tasks /\ ~mixedUp.list
    /\ (\E k \in tasks : k.lost) => Len(listings) <= 1

ClientBound ==
    CASE area = "import" -> ~past.stray /\ ~past.overtaken
      [] area = "session" -> SessionBound
      [] area = "editor" -> EditorBound
      [] area = "table" -> ~outdated.rows /\ ~outdated.fields /\ ~outdated.values
      [] area = "lists" -> ListBound
      [] area = "export" -> ExportBound
      [] area = "backups" -> BackupBound
      [] area = "relations" -> RelationsBound
      [] OTHER -> TRUE
=============================================================================
