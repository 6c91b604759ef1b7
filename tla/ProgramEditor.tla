---------------------------- MODULE ProgramEditor ----------------------------
(***************************************************************************)
(* The dialogs of the program page: the editor of a program, the viewer of *)
(* its versions and the upload dialog (ProgramManagement.tsx, and the      *)
(* loadVersions and loadCustomFields of useProgramManagementData.ts).      *)
(*                                                                         *)
(* All three share one current program and one list of versions, and no    *)
(* load of versions carries a token.  An effect keeps the selected version *)
(* among those shown, another overwrites the description being written     *)
(* whenever a different version is shown.  The user is one who may edit.   *)
(* The server answers with what it has when the answer arrives.            *)
(***************************************************************************)
EXTENDS Naturals, FiniteSets, FiniteSetsExt

CONSTANTS
    Programs,       \* programs of the table
    FormLines,      \* production lines a program may belong to
    Texts,          \* descriptions of a version, "" among them
    FirstVersions,  \* versions there are at the start
    MaxVersions,    \* bound: versions ever made
    MaxAsked        \* bound: requests in flight

ASSUME EditorAssumption ==
    /\ {FirstVersions, MaxVersions, MaxAsked} \subseteq Nat /\ FirstVersions <= MaxVersions
    /\ "" \in Texts

VARIABLES
    editor,         \* the React state of the dialogs
    form,           \* the property form and the custom fields it offers
    asked,          \* requests in flight
    described,      \* the server: version -> its program and description
    lastVersion,    \* the last id the server gave to a version
    mixed           \* history: what the page does not guard against has happened

editorVars == <<editor, form, asked, described, lastVersion, mixed>>
catalogue == <<described, lastVersion>>

NoProgram == "no program"
NoLineId == "no line id"
NoVersion == 0
NoVersions == [of |-> NoProgram, notes |-> <<>>]
NoText == [by |-> NoVersion, note |-> "", restored |-> FALSE]

EditorInit ==
    /\ editor = [current |-> NoProgram, modal |-> FALSE, viewer |-> FALSE,
                 upload |-> NoProgram, versions |-> NoVersions, selected |-> NoVersion,
                 text |-> NoText, describing |-> FALSE, draft |-> NoText,
                 editing |-> FALSE, snapshot |-> NoLineId, loading |-> FALSE,
                 supported |-> TRUE]
    /\ form = [of |-> NoProgram, line |-> NoLineId, fields |-> NoLineId]
    /\ asked = {} /\ lastVersion = FirstVersions
    /\ described \in [1..FirstVersions -> [of : Programs, note : {""}]]
    /\ mixed = [late |-> FALSE, restored |-> FALSE]

-----------------------------------------------------------------------------
\* What is rendered, and the effects that follow.

\* editorSelectedVersion and fileModalSelectedVersion: the selected one, or
\* the current one, the newest.
ShownVersion(e) ==
    IF e.selected \in DOMAIN e.versions.notes THEN e.selected
    ELSE IF DOMAIN e.versions.notes = {} THEN NoVersion ELSE Max(DOMAIN e.versions.notes)

ShownText(e) ==
    LET v == ShownVersion(e) IN
    [by |-> v, note |-> IF v = NoVersion THEN "" ELSE e.versions.notes[v]]
RenderedText(e) == [by |-> ShownText(e).by, note |-> ShownText(e).note, restored |-> FALSE]

\* What the viewer tells of a version: nothing while it loads.
Viewed(e) ==
    IF e.loading \/ ShownVersion(e) = NoVersion THEN [of |-> NoProgram, note |-> ""]
    ELSE [of |-> e.versions.of, note |-> ShownText(e).note]

\* The effect that selects: only while a dialog shows versions.
Chosen(e) == IF e.modal \/ e.viewer THEN [e EXCEPT !.selected = ShownVersion(e)] ELSE e

\* Mutant: the effect depends on the description alone.
RenderedByNote(new) ==
    LET e == Chosen(new) IN
    IF ShownText(e).note # ShownText(editor).note THEN [e EXCEPT !.text = RenderedText(e)] ELSE e

\* The effect on id and change_log of the version shown.
Rendered(new) ==
    LET e == Chosen(new) IN
    IF ShownText(e) # ShownText(editor) THEN [e EXCEPT !.text = RenderedText(e)] ELSE e

\* What is on top: viewer over upload over editor over table.
AtTable == ~editor.modal /\ ~editor.viewer /\ editor.upload = NoProgram
AtUpload == editor.upload # NoProgram /\ ~editor.viewer
AtEditor == editor.modal /\ ~editor.viewer /\ editor.upload = NoProgram

Ask(r) == Cardinality(asked) < MaxAsked /\ r \notin asked /\ asked' = asked \cup {r}
Request(kind, of, line) == [kind |-> kind, of |-> of, line |-> line,
                            version |-> NoVersion, text |-> NoText]

\* loadVersions: the versions of p that the server has.
Loaded(p) ==
    LET ids == {v \in DOMAIN described : described[v].of = p} IN
    [of |-> p, notes |-> [v \in ids |-> described[v].note]]

-----------------------------------------------------------------------------
\* Opening and closing.

\* The versions shown last stay.
HandleAdd ==
    /\ AtTable
    /\ editor' = Rendered([editor EXCEPT !.current = NoProgram, !.modal = TRUE,
                                         !.editing = TRUE, !.snapshot = NoLineId,
                                         !.describing = TRUE, !.draft = NoText])
    /\ form' = [of |-> NoProgram, line |-> NoLineId, fields |-> NoLineId]
    /\ mixed' = [mixed EXCEPT !.restored = FALSE] /\ UNCHANGED <<asked, catalogue>>

\* The edit button of the viewer, which closes first.
FromViewer(p) == editor.viewer /\ p = editor.current

\* From a row of the table, or from the viewer; l is the line the row says
\* the program belongs to.
HandleEdit(p, l) ==
    /\ AtTable \/ FromViewer(p)
    /\ editor' = Rendered([editor EXCEPT !.current = p, !.modal = TRUE, !.viewer = FALSE,
                                         !.versions = NoVersions, !.selected = NoVersion,
                                         !.editing = FALSE, !.snapshot = NoLineId,
                                         !.describing = FALSE, !.draft = NoText])
    /\ form' = [of |-> p, line |-> l, fields |-> NoLineId]
    /\ Ask(Request("edit", p, l))
    /\ mixed' = [late |-> FALSE, restored |-> FALSE]
    /\ UNCHANGED catalogue

\* The viewer opens when the answer has come.
HandleViewFiles(p) ==
    /\ AtTable
    /\ editor' = Rendered([editor EXCEPT !.current = p, !.versions = NoVersions,
                                         !.loading = TRUE])
    /\ Ask(Request("view", p, NoLineId))
    /\ mixed' = [mixed EXCEPT !.late = FALSE] /\ UNCHANGED <<form, catalogue>>

HandleUpload(p) ==
    /\ AtTable
    /\ editor' = Rendered([editor EXCEPT !.current = p, !.upload = p])
    /\ UNCHANGED <<form, asked, catalogue, mixed>>

\* handleEditorRetransfer, when there is a version to transfer again.
Retransfer ==
    /\ AtEditor /\ editor.current # NoProgram /\ ShownVersion(editor) # NoVersion
    /\ editor' = [editor EXCEPT !.upload = editor.current]
    /\ UNCHANGED <<form, asked, catalogue, mixed>>

CloseEditor ==
    /\ AtEditor
    /\ editor' = Rendered([editor EXCEPT !.modal = FALSE, !.editing = FALSE,
                                         !.snapshot = NoLineId, !.describing = FALSE,
                                         !.draft = NoText])
    /\ form' = [form EXCEPT !.fields = NoLineId]
    /\ UNCHANGED <<asked, catalogue, mixed>>

CloseViewer ==
    /\ editor.viewer /\ editor' = Rendered([editor EXCEPT !.viewer = FALSE])
    /\ UNCHANGED <<form, asked, catalogue, mixed>>

CloseUpload ==
    /\ AtUpload /\ editor' = [editor EXCEPT !.upload = NoProgram]
    /\ UNCHANGED <<form, asked, catalogue, mixed>>

-----------------------------------------------------------------------------
\* Versions.

\* History: versions of a program arrive while another is the current one.
Late(p) == mixed' = [mixed EXCEPT !.late = p # editor.current]

\* The rest of handleEdit: the fields of the record's line come second.
EditVersions(r, versions) ==
    /\ r \in asked /\ r.kind = "edit"
    /\ editor' = Rendered([editor EXCEPT
                    !.versions = versions,
                    !.selected = IF versions = NoVersions THEN NoVersion ELSE @])
    /\ asked' = (asked \ {r}) \cup {Request("fields", NoProgram, r.line)}
    /\ Late(r.of) /\ UNCHANGED <<form, catalogue>>

ViewAnswered(r) ==
    /\ r \in asked /\ r.kind = "view" /\ asked' = asked \ {r}
    /\ editor' = Rendered([editor EXCEPT !.versions = Loaded(r.of), !.viewer = TRUE,
                                         !.loading = FALSE])
    /\ Late(r.of) /\ UNCHANGED <<form, catalogue>>

ViewFailed(r) ==
    /\ r \in asked /\ r.kind = "view" /\ asked' = asked \ {r}
    /\ editor' = [editor EXCEPT !.loading = FALSE]
    /\ UNCHANGED <<form, catalogue, mixed>>

\* The pagination of the editor, and that of the viewer.
LoadPage ==
    /\ editor.current # NoProgram /\ Ask(Request("reload", editor.current, NoLineId))
    /\ UNCHANGED <<editor, form, catalogue, mixed>>
PageVersions == AtEditor /\ LoadPage
PageViewedVersions == editor.viewer /\ ~editor.loading /\ LoadPage

Reloaded(r) ==
    /\ r \in asked /\ r.kind = "reload" /\ asked' = asked \ {r}
    /\ editor' = Rendered([editor EXCEPT !.versions = Loaded(r.of)])
    /\ Late(r.of) /\ UNCHANGED <<form, catalogue>>

\* setSelectedVersionKey, in the editor's list and in the viewer's.
Select(v) ==
    /\ v \in DOMAIN editor.versions.notes \ {ShownVersion(editor)}
    /\ editor' = Rendered([editor EXCEPT !.selected = v])
    /\ UNCHANGED <<form, asked, catalogue, mixed>>
SelectVersion(v) == AtEditor /\ Select(v)
SelectViewedVersion(v) == editor.viewer /\ ~editor.loading /\ Select(v)

\* handleUploadSubmit: what to reload is decided by what is open now.
SubmitUpload ==
    /\ AtUpload
    /\ Ask([Request("upload", editor.upload, NoLineId)
              EXCEPT !.line = IF editor.modal THEN editor.current ELSE NoProgram])
    /\ UNCHANGED <<editor, form, catalogue, mixed>>

\* What the server does: a new version of p, or files for one there is.
Uploaded(p) ==
    \/ UNCHANGED catalogue
    \/ /\ lastVersion < MaxVersions /\ lastVersion' = lastVersion + 1
       /\ described' = [v \in DOMAIN described \cup {lastVersion'} |->
                          IF v = lastVersion' THEN [of |-> p, note |-> ""] ELSE described[v]]

UploadAnswered(r) ==
    /\ r \in asked /\ r.kind = "upload"
    /\ asked' = (asked \ {r}) \cup
                  (IF r.line = NoProgram THEN {} ELSE {Request("reload", r.line, NoLineId)})
    /\ editor' = [editor EXCEPT !.upload = NoProgram]
    /\ Uploaded(r.of) /\ UNCHANGED <<form, mixed>>

\* handleDeleteSingleFile, in the editor.
DeleteVersionFile ==
    /\ AtEditor /\ ShownVersion(editor) # NoVersion
    /\ Ask([Request("delete", editor.current, NoLineId)
              EXCEPT !.version = ShownVersion(editor)])
    /\ UNCHANGED <<editor, form, catalogue, mixed>>

\* A version whose last file it was goes as well.
FileDeleted(v) ==
    /\ \/ UNCHANGED described
       \/ described' = [w \in DOMAIN described \ {v} |-> described[w]]
    /\ UNCHANGED lastVersion

FileDeletedReload(r) ==
    /\ r \in asked /\ r.kind = "delete"
    /\ asked' = (asked \ {r}) \cup
                  (IF r.of = NoProgram THEN {} ELSE {Request("reload", r.of, NoLineId)})
    /\ FileDeleted(r.version) /\ UNCHANGED <<editor, form, mixed>>

\* A request is refused, or only its answer is lost: there is just a message.
OnlyReported(r) ==
    /\ r \in asked /\ r.kind \in {"upload", "delete", "reload", "update", "described"}
    /\ asked' = asked \ {r}
    /\ CASE r.kind = "upload" -> Uploaded(r.of)
         [] r.kind = "delete" -> FileDeleted(r.version)
         [] OTHER -> UNCHANGED catalogue
    /\ UNCHANGED <<editor, form, mixed>>

-----------------------------------------------------------------------------
\* The description of the version shown.

StartDescriptionEdit ==
    /\ AtEditor /\ editor.supported /\ ~editor.describing
    /\ editor' = [editor EXCEPT !.describing = TRUE, !.draft = editor.text]
    /\ UNCHANGED <<form, asked, catalogue, mixed>>

WriteDescription(note) ==
    /\ AtEditor /\ editor.supported /\ editor.describing /\ note # editor.text.note
    /\ editor' = [editor EXCEPT !.text.note = note]
    /\ UNCHANGED <<form, asked, catalogue, mixed>>

\* The draft kept may be of a version shown before.
CancelDescriptionEdit ==
    /\ AtEditor /\ editor.supported /\ editor.describing
    /\ editor' = [editor EXCEPT !.describing = FALSE, !.draft = NoText,
                    !.text = [editor.draft EXCEPT
                                !.restored = editor.draft.by # ShownVersion(editor)]]
    /\ UNCHANGED <<form, asked, catalogue, mixed>>

SaveDescription ==
    /\ AtEditor /\ editor.supported /\ editor.describing
    /\ ShownVersion(editor) # NoVersion
    /\ Ask([Request("describe", editor.current, NoLineId)
              EXCEPT !.version = ShownVersion(editor), !.text = editor.text])
    /\ UNCHANGED <<editor, form, catalogue, mixed>>

Undescribing == [editor EXCEPT !.describing = FALSE, !.draft = NoText]

Described(r) ==
    /\ r.version \in DOMAIN described
    /\ described' = [described EXCEPT ![r.version].note = r.text.note]

\* Saved; the versions are loaded again before the editing ends.
DescriptionSaved(r) ==
    /\ r \in asked /\ r.kind = "describe" /\ Described(r)
    /\ IF r.of = NoProgram
         THEN editor' = Undescribing /\ asked' = asked \ {r}
         ELSE editor' = editor
              /\ asked' = (asked \ {r}) \cup {Request("described", r.of, NoLineId)}
    /\ UNCHANGED <<form, lastVersion, mixed>>

DescriptionReloaded(r) ==
    /\ r \in asked /\ r.kind = "described" /\ asked' = asked \ {r}
    /\ editor' = Rendered([Undescribing EXCEPT !.versions = Loaded(r.of)])
    /\ Late(r.of) /\ UNCHANGED <<form, catalogue>>

\* For a version that is gone the server says 404, which the page takes for
\* a server that cannot save descriptions; or only the answer is lost.
DescriptionNotSaved(r, missing) ==
    /\ r \in asked /\ r.kind = "describe" /\ asked' = asked \ {r}
    /\ missing => r.version \notin DOMAIN described
    /\ editor' = [editor EXCEPT !.supported = @ /\ ~missing]
    /\ Described(r) \/ UNCHANGED described
    /\ UNCHANGED <<form, lastVersion, mixed>>

-----------------------------------------------------------------------------
\* The properties of the program.

StartPropertyEdit ==
    /\ AtEditor /\ ~editor.editing
    /\ editor' = [editor EXCEPT !.editing = TRUE, !.snapshot = form.line]
    /\ UNCHANGED <<form, asked, catalogue, mixed>>

\* The inputs are disabled, and cancel and save not offered, unless the
\* properties are being edited.
OffersProperties == AtEditor /\ editor.editing

\* handleModalProductionLineChange; the fields of the old line stay until
\* the answer has come.
ChangeLine(l) ==
    /\ OffersProperties /\ l # form.line
    /\ form' = [form EXCEPT !.line = l]
    /\ Ask(Request("fields", NoProgram, l))
    /\ UNCHANGED <<editor, catalogue, mixed>>

\* Mutant: the answer is taken whatever the form now says.
FieldsAnsweredAny(r) ==
    /\ r \in asked /\ r.kind = "fields" /\ asked' = asked \ {r}
    /\ form' = [form EXCEPT !.fields = r.line]
    /\ UNCHANGED <<editor, catalogue, mixed>>

FieldsAnswered(r) ==
    /\ r \in asked /\ r.kind = "fields" /\ asked' = asked \ {r}
    /\ form' = IF form.line = r.line THEN [form EXCEPT !.fields = r.line] ELSE form
    /\ UNCHANGED <<editor, catalogue, mixed>>

FieldsFailed(r) ==
    /\ r \in asked /\ r.kind = "fields" /\ asked' = asked \ {r}
    /\ form' = IF form.line = r.line THEN [form EXCEPT !.fields = NoLineId] ELSE form
    /\ UNCHANGED <<editor, catalogue, mixed>>

\* The line is restored, the fields are not.
CancelPropertyEdit ==
    /\ OffersProperties
    /\ editor' = [editor EXCEPT !.editing = FALSE, !.snapshot = NoLineId]
    /\ form' = IF editor.snapshot = NoLineId THEN form
               ELSE [form EXCEPT !.line = editor.snapshot]
    /\ mixed' = [mixed EXCEPT !.restored = @ \/ form'.line # form.line]
    /\ UNCHANGED <<asked, catalogue>>

\* handleSavePropertyEdit, or a transfer without a version: the form is valid.
SubmitForm ==
    /\ AtEditor /\ form.line # NoLineId
    /\ editor.editing \/ editor.current = NoProgram \/ ShownVersion(editor) = NoVersion
    /\ Ask(Request("update", editor.current, form.line))
    /\ UNCHANGED <<editor, form, catalogue, mixed>>

\* Whatever editor is open by then is closed; a new one goes on being edited.
UpdateAnswered(r) ==
    /\ r \in asked /\ r.kind = "update" /\ asked' = asked \ {r}
    /\ editor' = Rendered(IF r.of = NoProgram THEN [editor EXCEPT !.modal = FALSE]
                          ELSE [Undescribing EXCEPT !.modal = FALSE, !.editing = FALSE,
                                                    !.snapshot = NoLineId])
    /\ form' = [form EXCEPT !.fields = NoLineId]
    /\ UNCHANGED <<catalogue, mixed>>

-----------------------------------------------------------------------------

EditorAnswers ==
    \E r \in asked :
        \/ EditVersions(r, NoVersions) \/ EditVersions(r, Loaded(r.of))
        \/ ViewAnswered(r) \/ ViewFailed(r) \/ Reloaded(r) \/ UploadAnswered(r)
        \/ FileDeletedReload(r) \/ OnlyReported(r)
        \/ DescriptionSaved(r) \/ DescriptionReloaded(r)
        \/ \E missing \in BOOLEAN : DescriptionNotSaved(r, missing)
        \/ FieldsAnswered(r) \/ FieldsFailed(r) \/ UpdateAnswered(r)

EditorNext ==
    \/ HandleAdd \/ Retransfer \/ CloseEditor \/ CloseViewer \/ CloseUpload
    \/ \E p \in Programs : HandleViewFiles(p) \/ HandleUpload(p)
    \/ \E p \in Programs, l \in FormLines : HandleEdit(p, l)
    \/ PageVersions \/ PageViewedVersions \/ SubmitUpload \/ DeleteVersionFile
    \/ \E v \in 1..MaxVersions : SelectVersion(v) \/ SelectViewedVersion(v)
    \/ StartDescriptionEdit \/ CancelDescriptionEdit \/ SaveDescription
    \/ \E note \in Texts : WriteDescription(note)
    \/ StartPropertyEdit \/ CancelPropertyEdit \/ SubmitForm
    \/ \E l \in FormLines : ChangeLine(l)
    \/ EditorAnswers

\* Requests are answered, or end with the timeout of the API client.
EditorFairness == WF_editorVars(EditorAnswers)
EditorSpec == EditorInit /\ [][EditorNext]_editorVars /\ EditorFairness

-----------------------------------------------------------------------------

MaybeProgram == Programs \cup {NoProgram}
MaybeLine == FormLines \cup {NoLineId}
WrittenTexts == [by : 0..MaxVersions, note : Texts, restored : BOOLEAN]

EditorTypeOK ==
    /\ editor.current \in MaybeProgram /\ editor.upload \in MaybeProgram
    /\ editor.versions.of \in MaybeProgram
    /\ DOMAIN editor.versions.notes \subseteq 1..lastVersion
    /\ editor.selected \in 0..lastVersion
    /\ editor.text \in WrittenTexts /\ editor.draft \in WrittenTexts
    /\ editor.snapshot \in MaybeLine
    /\ {editor.modal, editor.viewer, editor.describing, editor.editing, editor.loading,
        editor.supported} \subseteq BOOLEAN
    /\ form \in [of : MaybeProgram, line : MaybeLine, fields : MaybeLine]
    /\ \A r \in asked : r.of \in MaybeProgram /\ r.line \in MaybeLine \cup MaybeProgram
    /\ \A v \in DOMAIN described : v \in 1..lastVersion /\ described[v].of \in Programs

\* The fields of line l are still to come.
FieldsPending(l) == \E r \in asked : r.kind \in {"edit", "fields"} /\ r.line = l

(***************************************************************************)
(* Three dialogs share one current program, and still what is shown is one *)
(* program's: the form holds the properties of the current program, the    *)
(* versions are its versions, and the custom fields offered, once loaded,  *)
(* are those of the line chosen.  The cases the page leaves open: versions *)
(* that arrive after another program became the current one, the create    *)
(* dialog, which keeps the versions shown before, and a cancelled change   *)
(* of line, which restores the line without its fields.                    *)
(***************************************************************************)
EditorOfCurrent ==
    /\ editor.modal => form.of = editor.current
    /\ (editor.modal /\ editor.current # NoProgram /\ ~mixed.late)
          => editor.versions.of \in {editor.current, NoProgram}
    /\ (editor.viewer /\ editor.current # NoProgram /\ ~mixed.late)
          => Viewed(editor).of \in {editor.current, NoProgram}
    /\ (editor.modal /\ ~FieldsPending(form.line) /\ ~mixed.restored)
          => form.fields \in {NoLineId, form.line}

(***************************************************************************)
(* A description is saved to the version it was written for: choosing      *)
(* another version, uploads, deletions and reloads that replace the list   *)
(* under the open editor take the text with them.  Only a cancel restores  *)
(* the text of a version shown before.                                     *)
(***************************************************************************)
TextOfItsVersion ==
    /\ editor.text.by = ShownVersion(editor) \/ editor.text.restored
    /\ \A r \in asked : r.kind = "describe" => r.text.by = r.version \/ r.text.restored

=============================================================================
