------------------------------ MODULE Gallery ------------------------------
(***************************************************************************)
(* The template gallery: who finds, opens, changes, deletes and restores   *)
(* the versions of one template, the one key that a name becomes, and the  *)
(* page that lists the newest version of each (template_service.py,        *)
(* template_authorization_service.py, templates_controller.py).  The page  *)
(* is a query and opening a version a function, each with rules of its own *)
(* over the same rows.                                                     *)
(*                                                                         *)
(* Requests follow one another; what overlaps, and the files, are the      *)
(* matter of Templates.                                                    *)
(***************************************************************************)
EXTENDS Naturals, FiniteSets

CONSTANTS
    Viewers,        \* [name, tenant, role]: a user in the tenant she works in
    OwnerTenant,    \* the tenant of the template
    NoTenant,
    MaxRow          \* bound: versions

ASSUME GalleryAssumption ==
    /\ MaxRow \in Nat /\ NoTenant # OwnerTenant
    /\ \A w \in Viewers : w.role \in {"tenant-admin", "editor", "viewer", "super-admin"}

VARIABLES
    gallery,        \* m8flow_templates: the rows of the key, by version
    \* history: a restored, imported or explicitly numbered version joined a live template
    joined

galleryVars == <<gallery, joined>>

Numbers == 1..MaxRow
TemplateVisibility == {"PRIVATE", "TENANT", "PUBLIC"}
NoTemplate == [state |-> "none"]
\* family: the version that was created, of which this one is an edit
TemplateRows ==
    [state : {"draft", "published", "deleted"}, visibility : TemplateVisibility,
     created_by : {w.name : w \in Viewers}, family : Numbers]

GalleryTypeOK == gallery \in [Numbers -> TemplateRows \cup {NoTemplate}] /\ joined \in BOOLEAN

IsRow(v) == gallery[v].state # "none"
IsLive(v) == gallery[v].state \in {"draft", "published"}
DraftRows == {v \in Numbers : gallery[v].state = "draft"}
NewestOf(vs) == CHOOSE v \in vs : \A u \in vs : u <= v

(***************************************************************************)
(* Who may                                                                 *)
(***************************************************************************)

IsSuper(w) == w.role = "super-admin"
\* The routes' permissions, which can_edit asks for as well
MayUpdate(w) == w.role \in {"tenant-admin", "editor"}
has_admin_permission(w) == w.role = "tenant-admin"
IsOwnerTenant(w) == w.tenant = OwnerTenant

can_view(w, r) ==
    \/ has_admin_permission(w) /\ IsOwnerTenant(w)
    \/ IsSuper(w)
    \/ r.visibility = "PUBLIC"
    \/ r.visibility = "TENANT" /\ IsOwnerTenant(w)
    \/ r.visibility = "PRIVATE" /\ IsOwnerTenant(w) /\ r.created_by = w.name

can_edit(w, r) == ~IsSuper(w) /\ IsOwnerTenant(w) /\ (r.created_by = w.name \/ MayUpdate(w))

\* get_template_by_id
Opens(w, v, include_deleted) ==
    /\ IF include_deleted THEN IsRow(v) ELSE IsLive(v)
    /\ can_view(w, gallery[v])

(***************************************************************************)
(* The page                                                                *)
(***************************************************************************)

filter_query_by_visibility(w, r) ==
    \/ IsSuper(w)
    \/ r.visibility = "PUBLIC"
    \/ w.tenant # NoTenant /\ IsOwnerTenant(w)
       /\ \/ r.visibility = "TENANT"
          \/ r.visibility = "PRIVATE" /\ (has_admin_permission(w) \/ r.created_by = w.name)

\* The tenant of the request, or the one a super-admin asks for
Scoped(w, asked, r) ==
    LET tenant == IF IsSuper(w) THEN asked ELSE w.tenant
    IN  tenant # NoTenant => tenant = OwnerTenant \/ r.visibility = "PUBLIC"

Found(w, asked, include_deleted, published_only) ==
    {v \in Numbers :
        /\ IF include_deleted THEN IsRow(v) ELSE IsLive(v)
        /\ filter_query_by_visibility(w, gallery[v])
        /\ Scoped(w, asked, gallery[v])
        /\ published_only => gallery[v].state # "draft"}

\* (mutant of LatestOf: the newest version there is, if the viewer finds it)
LatestThere(found) == {v \in found : IsLive(v) => v = NewestOf({u \in Numbers : IsLive(u)})}
\* latest_only, of what was found
LatestOf(found) == IF found = {} THEN {} ELSE {NewestOf(found)}

list_templates(w, asked, include_deleted, published_only, latest_only) ==
    LET found == Found(w, asked, include_deleted, published_only)
    IN  IF latest_only THEN LatestOf(found) ELSE found

(***************************************************************************)
(* Changes                                                                 *)
(***************************************************************************)

\* _next_version counts deleted versions in.
NextNumber == LET there == {v \in Numbers : IsRow(v)}
              IN  IF there = {} THEN 1 ELSE NewestOf(there) + 1
\* (mutant of NameIsTaken: by published versions)
NameIsPublished == \E v \in Numbers : gallery[v].state = "published"
\* "Soft-deleted templates free up their name"
NameIsTaken == \E v \in Numbers : IsLive(v)

CreateVersion(w, v, visibility, state) ==
    /\ MayUpdate(w) /\ IsOwnerTenant(w)
    /\ v \in Numbers /\ ~IsRow(v)
    /\ gallery' = [gallery EXCEPT ![v] = [state |-> state, visibility |-> visibility,
                                          created_by |-> w.name, family |-> v]]

create_template_with_files(w, visibility, state) ==
    /\ ~NameIsTaken
    /\ CreateVersion(w, NextNumber, visibility, state)
    /\ UNCHANGED joined

\* With a version of its own in the headers, or the next one that an import of a zip puts
\* there, the name is not checked; a version that exists is a conflict.
CreateNumbered(w, v, visibility, state) ==
    /\ CreateVersion(w, v, visibility, state)
    /\ joined' = (joined \/ NameIsTaken)

\* update_template_by_id
EditDraft(w, v, visibility, publish) ==
    /\ MayUpdate(w) /\ Opens(w, v, FALSE) /\ can_edit(w, gallery[v])
    /\ gallery[v].state = "draft"
    /\ gallery' = [gallery EXCEPT ![v].visibility = visibility,
                                  ![v].state = IF publish THEN "published" ELSE "draft"]
    /\ UNCHANGED joined

\* _get_or_create_draft_version: the newest draft by id, whoever made it, or a new version
\* that takes the visibility of the published one
InOpenDraft(w, v, becomes) ==
    IF DraftRows # {}
    THEN \E d \in DraftRows :
            gallery' = [gallery EXCEPT ![d].visibility = becomes[@]]
    ELSE /\ NextNumber \in Numbers
         /\ gallery' = [gallery EXCEPT ![NextNumber] =
                [gallery[v] EXCEPT !.state = "draft", !.created_by = w.name,
                                   !.visibility = becomes[@]]]

EditPublished(w, v, visibility) ==
    LET asked == [old \in TemplateVisibility |-> visibility] IN
    /\ MayUpdate(w) /\ Opens(w, v, FALSE) /\ can_edit(w, gallery[v])
    /\ gallery[v].state = "published"
    /\ InOpenDraft(w, v, asked)
    /\ UNCHANGED joined

\* template_put_file, template_delete_file: the version opens, and the role may update.
ChangeFile(w, v) ==
    LET kept == [old \in TemplateVisibility |-> old] IN
    /\ MayUpdate(w) /\ Opens(w, v, FALSE)
    /\ IF gallery[v].state = "published" THEN InOpenDraft(w, v, kept) ELSE UNCHANGED gallery
    /\ UNCHANGED joined

\* delete_template_by_id: a published version stays, marked
SoftDelete(w, v) ==
    /\ has_admin_permission(w) /\ Opens(w, v, FALSE) /\ gallery[v].state = "published"
    /\ gallery' = [gallery EXCEPT ![v].state = "deleted"]
    /\ UNCHANGED joined

HardDelete(w, v) ==
    /\ MayUpdate(w) /\ Opens(w, v, FALSE) /\ gallery[v].state = "draft"
    /\ gallery[v].created_by = w.name \/ has_admin_permission(w)
    /\ gallery' = [gallery EXCEPT ![v] = NoTemplate]
    /\ UNCHANGED joined

\* restore_template_by_id: the name is not checked again.
RestoreVersion(w, v) ==
    /\ has_admin_permission(w) /\ Opens(w, v, TRUE) /\ gallery[v].state = "deleted"
    /\ gallery' = [gallery EXCEPT ![v].state = "published"]
    /\ joined' = (joined \/ \E u \in Numbers : IsLive(u) /\ gallery[u].family # gallery[v].family)

GalleryInit == gallery = [v \in Numbers |-> NoTemplate] /\ joined = FALSE

GalleryNext ==
    \E w \in Viewers :
        \/ \E visibility \in TemplateVisibility :
            \/ \E state \in {"draft", "published"} :
                \/ create_template_with_files(w, visibility, state)
                \/ \E v \in Numbers : CreateNumbered(w, v, visibility, state)
            \/ \E v \in Numbers :
                \/ \E publish \in BOOLEAN : EditDraft(w, v, visibility, publish)
                \/ EditPublished(w, v, visibility)
        \/ \E v \in Numbers :
            ChangeFile(w, v) \/ SoftDelete(w, v) \/ HardDelete(w, v) \/ RestoreVersion(w, v)

GallerySpec == GalleryInit /\ [][GalleryNext]_galleryVars

(***************************************************************************)
(* Properties                                                              *)
(***************************************************************************)

\* The page and the routes agree: with every version listed it shows exactly those that
\* open, deleted ones included or not; the newest ones it shows stand for all that open, so
\* no version that may be used hides behind a newer one that may not be seen; and a
\* published version that is offered can become a process model.
PageIsWhatOpens ==
    \A v \in {u \in Numbers : IsRow(u)}, w \in Viewers :
        /\ \A deleted \in BOOLEAN :
            v \in list_templates(w, NoTenant, deleted, FALSE, FALSE) <=> Opens(w, v, deleted)
        /\ \A published \in BOOLEAN :
            Opens(w, v, FALSE) /\ (published => gallery[v].state = "published") =>
                \E u \in list_templates(w, NoTenant, FALSE, published, TRUE) : u >= v
        /\ \A asked \in {NoTenant, OwnerTenant} :
            v \in list_templates(w, asked, FALSE, TRUE, TRUE) =>
                Opens(w, v, FALSE) /\ gallery[v].state = "published"

\* "A key collision in the same tenant means the name is already taken": the live versions
\* of a name come from one creation, and edits share one draft, however often the template
\* was published, deleted and made anew; unless a version was restored, imported or
\* numbered by hand into a template that is live.
NamesStayApart ==
    joined \/ /\ \A u, v \in Numbers : IsLive(u) /\ IsLive(v) =>
                    gallery[u].family = gallery[v].family
              /\ Cardinality(DraftRows) <= 1
=============================================================================
