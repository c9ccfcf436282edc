----------------------------- MODULE Templates -----------------------------
(***************************************************************************)
(* The versions of one template of a tenant (services/template_service.py): *)
(* rows in the database, files in storage that no transaction covers.       *)
(* Editing a published version edits its draft, which is created if there   *)
(* is none; a request may also name the version it creates, and an import   *)
(* always does; process models are copied from published versions.          *)
(***************************************************************************)
EXTENDS Naturals, FiniteSets

CONSTANTS
    Editors,       \* concurrent requests
    MaxVersion,    \* bound: versions V1 .. V<MaxVersion>
    MaxContent     \* bound: contents written by edits

ASSUME TemplatesAssumption == MaxVersion \in Nat \ {0} /\ MaxContent \in Nat \ {0}

Versions == 1..MaxVersion
Absent == 0
FileContents == 0..MaxContent

VARIABLES
    row,           \* m8flow_templates: the state of a version
    stored,        \* storage: the BPMN file of a version, or Absent
    copied,        \* process models: <<version, content>> of their source
    edit,          \* requests under way
    \* history: contents handed out; the content a version was published with; versions
    \* whose making, edit, publication or deletion overlapped with another request, or failed
    drafts, frozen, muddled,
    \* history: versions created under a number the request named; versions, published
    \* before, whose file such a request stored over
    named, overwritten

templateVars == <<row, stored, copied, edit, drafts, frozen, muddled, named, overwritten>>

RowStates == {"none", "draft", "published", "deleted"}
NoEdit == [pc |-> "idle", op |-> "none", from |-> 0, version |-> 0, content |-> Absent]

TemplatesTypeOK ==
    /\ row \in [Versions -> RowStates]
    /\ stored \in [Versions -> FileContents]
    /\ copied \subseteq Versions \X FileContents
    /\ edit \in [Editors ->
            [pc : {"idle", "versioning", "copying", "inserting", "writing", "committing",
                   "erasing", "instantiating"},
             op : {"none", "create", "add", "edit", "publish", "delete", "restore", "instantiate"},
             from : 0..MaxVersion, version : 0..MaxVersion, content : FileContents]]
    /\ drafts \in FileContents
    /\ frozen \in [Versions -> FileContents]
    /\ muddled \subseteq Versions /\ named \subseteq Versions /\ overwritten \subseteq Versions

TemplatesInit ==
    /\ row = [v \in Versions |-> "none"]
    /\ stored = [v \in Versions |-> Absent]
    /\ copied = {}
    /\ edit = [e \in Editors |-> NoEdit]
    /\ drafts = 0
    /\ frozen = [v \in Versions |-> Absent]
    /\ muddled = {} /\ named = {} /\ overwritten = {}

EditAt(e, pc) == edit[e].pc = pc
Become(e, frame) == edit' = [edit EXCEPT ![e] = frame]
Live(v) == row[v] \in {"draft", "published"}

\* _next_version: one more than the highest version in the table.
NextVersion ==
    LET used == {v \in Versions : row[v] # "none"}
    IN  1 + (IF used = {} THEN 0 ELSE CHOOSE v \in used : \A w \in used : w <= v)

\* Requests under way on a version, other than e
Others(e, v) ==
    {d \in Editors \ {e} : edit[d].pc # "idle" /\ v \in {edit[d].version, edit[d].from}}
Touch(e, v) == muddled' = IF Others(e, v) # {} THEN muddled \cup {v} ELSE muddled

NewContent == drafts < MaxContent /\ drafts' = drafts + 1

\* A request on its way to the draft of the template, which is not committed yet: a new
\* template, or the edit of whichever published version that found no draft.
MakesDraft(d) ==
    \/ edit[d].op = "create"
    \/ edit[d].op = "edit" /\ (edit[d].version = 0 \/ row[edit[d].version] = "none")

\* An insert waits for the transaction that inserted the same version first.
Inserted(e, v) == \E d \in Editors \ {e} :
    /\ edit[d].op = "edit" /\ edit[d].pc \in {"writing", "committing"}
    /\ edit[d].version = v /\ row[v] = "none"

(***************************************************************************)
(* create_template_with_files, import_template_from_zip                    *)
(***************************************************************************)

\* No X-Template-Version: the name must be free of live templates; the version number
\* is read next.
StartCreate(e) ==
    /\ EditAt(e, "idle")
    /\ \A v \in Versions : ~Live(v)
    /\ NextVersion \in Versions
    /\ NewContent
    /\ Become(e, [NoEdit EXCEPT !.pc = "writing", !.op = "create", !.version = NextVersion,
                                !.content = drafts + 1])
    /\ muddled' = IF Others(e, NextVersion) # {} \/ \E d \in Editors : MakesDraft(d)
                  THEN muddled \cup {NextVersion} ELSE muddled
    /\ UNCHANGED <<row, stored, copied, frozen, named, overwritten>>

\* The version that the header names, or the next one for an import without it: neither
\* the name nor the version is looked up.
StartCreateVersion(e) ==
    /\ EditAt(e, "idle")
    /\ NewContent
    /\ \E v \in Versions :
        /\ Become(e, [NoEdit EXCEPT !.pc = "writing", !.op = "add", !.version = v,
                                    !.content = drafts + 1])
        /\ Touch(e, v)
    /\ UNCHANGED <<row, stored, copied, frozen, named, overwritten>>

\* The row is inserted after the file was stored, as a draft or, with
\* X-Template-Is-Published, published at once; uq_template_key_version_tenant refuses a
\* version that is there, whose file stays as it was stored over.
CommitCreate(e) ==
    LET v == edit[e].version IN
    /\ EditAt(e, "committing") /\ edit[e].op \in {"create", "add"}
    /\ ~Inserted(e, v)
    /\ \/ row[v] # "none" /\ UNCHANGED <<row, frozen, named>>
       \/ /\ row[v] = "none"
          /\ \E state \in {"draft", "published"} :
                /\ row' = [row EXCEPT ![v] = state]
                /\ frozen' = IF state = "published" THEN [frozen EXCEPT ![v] = stored[v]]
                             ELSE frozen
          /\ named' = IF edit[e].op = "add" THEN named \cup {v} ELSE named \ {v}
    /\ Become(e, NoEdit)
    /\ UNCHANGED <<stored, copied, drafts, muddled, overwritten>>

(***************************************************************************)
(* update_file_content, update_template_by_id, delete_file_from_template   *)
(***************************************************************************)

\* _get_or_create_draft_version: the newest draft, 0 for none
OpenDraft ==
    LET open == {v \in Versions : row[v] = "draft"}
    IN  IF open = {} THEN 0 ELSE CHOOSE v \in open : \A w \in open : w <= v

\* The row as this request read it decides: a draft is edited in place, a published
\* version through its draft.
StartEdit(e) ==
    /\ EditAt(e, "idle")
    /\ NewContent
    /\ \E v \in Versions :
        LET target == IF row[v] = "draft" THEN v ELSE OpenDraft
            twice == target = 0 /\ \E d \in Editors : MakesDraft(d)
        IN  /\ Live(v)
            /\ Become(e, [NoEdit EXCEPT !.pc = IF target = 0 THEN "versioning" ELSE "writing",
                                        !.op = "edit", !.from = v, !.version = target,
                                        !.content = drafts + 1])
            /\ muddled' = muddled \cup {w \in {v, target} \ {0} : Others(e, w) # {} \/ twice}
    /\ UNCHANGED <<row, stored, copied, frozen, named, overwritten>>

\* _get_or_create_draft_version found no draft; the version number is a second query.
ChooseVersion(e) ==
    /\ EditAt(e, "versioning")
    /\ NextVersion \in Versions
    /\ Become(e, [edit[e] EXCEPT !.pc = "copying", !.version = NextVersion])
    /\ Touch(e, NextVersion)
    /\ UNCHANGED <<row, stored, copied, drafts, frozen, named, overwritten>>

\* The published file is stored under the new version before the row is inserted.
CopyFile(e) ==
    /\ EditAt(e, "copying")
    /\ stored[edit[e].from] # Absent
    /\ stored' = [stored EXCEPT ![edit[e].version] = stored[edit[e].from]]
    /\ Become(e, [edit[e] EXCEPT !.pc = "inserting"])
    /\ UNCHANGED <<row, copied, drafts, frozen, muddled, named, overwritten>>

\* flush: uq_template_key_version_tenant refuses a version that is there.
InsertDraft(e) ==
    /\ EditAt(e, "inserting")
    /\ ~Inserted(e, edit[e].version)
    /\ Become(e, IF row[edit[e].version] = "none" THEN [edit[e] EXCEPT !.pc = "writing"]
                 ELSE NoEdit)
    /\ UNCHANGED <<row, stored, copied, drafts, frozen, muddled, named, overwritten>>

\* A published version that a request names as the one it creates
StoredOver(e) ==
    {v \in {edit[e].version} : edit[e].op = "add" /\ row[v] \in {"published", "deleted"}}

\* (mutant of WriteFile: the file of the version that was asked for is written)
WriteFileInPlace(e) ==
    /\ EditAt(e, "writing")
    /\ stored' = [stored EXCEPT ![IF edit[e].op = "edit" THEN edit[e].from
                                  ELSE edit[e].version] = edit[e].content]
    /\ overwritten' = overwritten \cup StoredOver(e)
    /\ Become(e, [edit[e] EXCEPT !.pc = "committing"])
    /\ UNCHANGED <<row, copied, drafts, frozen, muddled, named>>

\* store_file, of the content the request brought
WriteFile(e) ==
    /\ EditAt(e, "writing")
    /\ stored' = [stored EXCEPT ![edit[e].version] = edit[e].content]
    /\ overwritten' = overwritten \cup StoredOver(e)
    /\ Become(e, [edit[e] EXCEPT !.pc = "committing"])
    /\ UNCHANGED <<row, copied, drafts, frozen, muddled, named>>

\* The request's transaction commits: the new row is there; a row that was there is
\* updated, unless it was deleted meanwhile.
CommitEdit(e) ==
    LET v == edit[e].version
        new == row[v] = "none" /\ edit[e].from # v
    IN  /\ EditAt(e, "committing") /\ edit[e].op = "edit"
        /\ row' = IF new THEN [row EXCEPT ![v] = "draft"] ELSE row
        /\ named' = IF new THEN named \ {v} ELSE named
        /\ Become(e, NoEdit)
        /\ UNCHANGED <<stored, copied, drafts, frozen, muddled, overwritten>>

(***************************************************************************)
(* Publication, deletion, restoration                                      *)
(***************************************************************************)

StartPublish(e) ==
    /\ EditAt(e, "idle")
    /\ \E v \in Versions :
        /\ row[v] = "draft"
        /\ Become(e, [NoEdit EXCEPT !.pc = "committing", !.op = "publish", !.version = v])
        /\ Touch(e, v)
    /\ UNCHANGED <<row, stored, copied, drafts, frozen, named, overwritten>>

CommitPublish(e) ==
    LET v == edit[e].version IN
    /\ EditAt(e, "committing") /\ edit[e].op = "publish"
    /\ row' = IF row[v] = "draft" THEN [row EXCEPT ![v] = "published"] ELSE row
    /\ frozen' = IF row[v] = "draft" THEN [frozen EXCEPT ![v] = stored[v]] ELSE frozen
    /\ Become(e, NoEdit)
    /\ UNCHANGED <<stored, copied, drafts, muddled, named, overwritten>>

\* A draft loses its file at once; a published version is only marked.
StartDelete(e) ==
    /\ EditAt(e, "idle")
    /\ \E v \in Versions :
        /\ Live(v)
        /\ Become(e, [NoEdit EXCEPT !.pc = IF row[v] = "draft" THEN "erasing" ELSE "committing",
                                    !.op = "delete", !.version = v])
        /\ Touch(e, v)
    /\ UNCHANGED <<row, stored, copied, drafts, frozen, named, overwritten>>

\* delete_file is best effort.
EraseFile(e) ==
    /\ EditAt(e, "erasing")
    /\ stored' \in {stored, [stored EXCEPT ![edit[e].version] = Absent]}
    /\ Become(e, [edit[e] EXCEPT !.pc = "committing", !.from = edit[e].version])
    /\ UNCHANGED <<row, copied, drafts, frozen, muddled, named, overwritten>>

\* What the row was read as decides: from is set when it was a draft.
Removed(e) == IF edit[e].from # 0 THEN "none" ELSE "deleted"

\* DELETE by id, with the provenance of the version; or is_deleted.
CommitDelete(e) ==
    LET v == edit[e].version IN
    /\ EditAt(e, "committing") /\ edit[e].op = "delete"
    /\ row' = IF row[v] = "none" THEN row ELSE [row EXCEPT ![v] = Removed(e)]
    /\ copied' = IF Removed(e) = "none" THEN {p \in copied : p[1] # v} ELSE copied
    /\ Become(e, NoEdit)
    /\ UNCHANGED <<stored, drafts, frozen, muddled, named, overwritten>>

Restore(e) ==
    /\ EditAt(e, "idle")
    /\ \E v \in Versions :
        /\ row[v] = "deleted"
        /\ row' = [row EXCEPT ![v] = "published"]
        /\ muddled' = IF \A d \in Editors : EditAt(d, "idle") THEN muddled
                      ELSE muddled \cup {v}
    /\ UNCHANGED <<stored, copied, edit, drafts, frozen, named, overwritten>>

(***************************************************************************)
(* create_process_model_from_template                                      *)
(***************************************************************************)

Instantiable(v) == row[v] = "published"

\* Every file is read before the model is created; a missing one creates nothing.
StartInstantiate(e) ==
    /\ EditAt(e, "idle")
    /\ \E v \in Versions :
        /\ Instantiable(v)
        /\ stored[v] # Absent
        /\ Become(e, [NoEdit EXCEPT !.pc = "instantiating", !.op = "instantiate",
                                    !.version = v, !.content = stored[v]])
        /\ Touch(e, v)
    /\ UNCHANGED <<row, stored, copied, drafts, frozen, named, overwritten>>

\* The model's files and its provenance, which refers to a template row that is there.
CommitInstantiate(e) ==
    LET v == edit[e].version IN
    /\ EditAt(e, "instantiating")
    /\ copied' = IF row[v] = "none" THEN copied ELSE copied \cup {<<v, edit[e].content>>}
    /\ Become(e, NoEdit)
    /\ UNCHANGED <<row, stored, drafts, frozen, muddled, named, overwritten>>

\* The request fails and its transaction rolls back; storage stays as it is.
EditFails(e) ==
    /\ ~EditAt(e, "idle")
    /\ muddled' = IF edit[e].op = "delete" THEN muddled \cup {edit[e].version} ELSE muddled
    /\ Become(e, NoEdit)
    /\ UNCHANGED <<row, stored, copied, drafts, frozen, named, overwritten>>

TemplatesNext ==
    \E e \in Editors :
        \/ StartCreate(e) \/ StartCreateVersion(e) \/ CommitCreate(e)
        \/ StartEdit(e) \/ ChooseVersion(e) \/ CopyFile(e)
        \/ InsertDraft(e) \/ WriteFile(e) \/ CommitEdit(e)
        \/ StartPublish(e) \/ CommitPublish(e)
        \/ StartDelete(e) \/ EraseFile(e) \/ CommitDelete(e) \/ Restore(e)
        \/ StartInstantiate(e) \/ CommitInstantiate(e) \/ EditFails(e)

TemplatesSpec == TemplatesInit /\ [][TemplatesNext]_templateVars

(***************************************************************************)
(* Properties                                                              *)
(***************************************************************************)

\* A published version keeps the content it was published with, through every later
\* edit, deletion and restoration, unless its publication overlapped with an edit, or a
\* request to create this very version stored over it; and process models are copies of
\* contents that were published.
PublishedIsImmutable ==
    /\ \A v \in Versions \ (muddled \cup overwritten) :
            row[v] \in {"published", "deleted"} => stored[v] = frozen[v] /\ stored[v] # Absent
    /\ \A p \in copied : p[1] \notin muddled \cup overwritten =>
            row[p[1]] # "none" /\ p[2] = frozen[p[1]]

\* "This ensures we don't create multiple draft versions - edits accumulate on one
\* draft": besides the drafts of requests that named their version.
OneDraft == Cardinality({v \in Versions \ named : row[v] = "draft"}) <= 1

\* The drafts of a template accumulate on one version unless requests overlapped or failed.
DraftsAccumulate == muddled = {} => OneDraft

\* Edits go to the one draft and leave what was published alone.
EditsStayInDraft == PublishedIsImmutable /\ DraftsAccumulate
=============================================================================
