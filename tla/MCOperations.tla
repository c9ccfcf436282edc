---------------------------- MODULE MCOperations ----------------------------
(***************************************************************************)
(* Small instances, for TLC, of the components behind the administration   *)
(* pages: templates, their gallery, process models and Start, the files of *)
(* models, tenants, connector profiles, the Celery task history, the       *)
(* completion of a task, its form and data, call activities, and of the    *)
(* upgrade of the database. They share no variable here, so one run        *)
(* explores the behaviours of each of them and not their product: area     *)
(* names the component that moves.                                         *)
(***************************************************************************)
EXTENDS Templates, Catalog, Tenancy, Connectors, TaskHistory, InstanceTasks,
        CoreUpgrade, ModelFiles, Gallery, TaskForms, CallActivities, TLC

CONSTANTS c1, c2, n1, n2

\* A group, two models in it whose leaves are the names of files, a model below a model
FolderTree == {<<"g">>, <<"g", "a">>, <<"g", "g">>, <<"g", "a", "g">>}
SortedNames == <<<<"a", "bpmn">>, <<"a", "dmn">>, <<"g", "bpmn">>, <<"g", "dmn">>>>

\* An editor and a viewer, the tenant-admin, a tenant-admin elsewhere, the super-admin
GalleryViewers ==
    {[name |-> p[1], tenant |-> p[2], role |-> p[3]] : p \in
        {<<"ann", "t", "editor">>, <<"bob", "t", "viewer">>, <<"eve", "t", "tenant-admin">>,
         <<"ann", "o", "tenant-admin">>, <<"sue", "none", "super-admin">>}}

VARIABLE area

operationsVars ==
    <<area, templateVars, catalogVars, tenancyVars, connectorsVars, historyVars, taskVars,
      upgradeVars, filesVars, galleryVars, formVars, childVars>>

\* Bounds of the area that moves: two requests at a time while fewer template contents were
\* handed out, where one model and no instance is there, where no tenant has data, where the
\* Secrets API touched nothing, and for two imports; no overlap of requests on templates
\* beside a version that was created by its number; no call under way once an import was
\* overtaken; data in one tenant; a correction or a change of a task where the chain rolls
\* back; the last call on files in small trees; two versions where one joined a live
\* template; one step behind an inclusive gateway, two behind an exclusive one.
AtMostOne(S) == Cardinality(S) <= 1
TemplatesBound ==
    /\ AtMostOne({e \in Editors : ~EditAt(e, "idle")}) \/ drafts < MaxContent
    /\ muddled = {} \/ named \cup overwritten = {}
CatalogBound ==
    \/ AtMostOne({u \in Users : ~UserAt(u, "idle")})
    \/ instances = {} /\ AtMostOne({m \in Models : Exists(m)})
TenancyBound ==
    /\ AtMostOne(referenced)
    /\ AtMostOne({c \in TenantCalls : ~TenantCallAt(c, "idle")}) \/ referenced = {}
ConnectorsBound ==
    AtMostOne({c \in ProfileCalls : profileCall[c].pc # "idle"}) \/ outside = {}
UpgradeBound == repairs + writes <= IF transactional THEN 1 ELSE 0
FilesBound == calls < MaxCalls \/ Cardinality(present) <= 2
GalleryBound == joined => gallery[MaxRow] = NoTemplate
FormsBound ==
    /\ gateway.kind = "exclusive" => Len(chain) <= 3
    /\ gateway.kind = "inclusive" => Len(chain) <= 2
CallsBound ==
    /\ AtMostOne({r \in Importers : ~ImportAt(r, "idle")}) \/ imports < MaxImports
    /\ hidden => call.pc = "idle"

OperationsInit ==
    /\ area \in {"templates", "catalog", "tenancy", "connectors", "tasks", "completion",
                "upgrade", "files", "gallery", "forms", "calls"}
    \* what a component that does not move starts with is fixed: one of its states
    /\ \/ area = "upgrade"
       \/ /\ area # "upgrade"
          /\ transactional = TRUE /\ database = [applied |-> 0, data |-> <<>>]
    /\ UpgradeInit
    \* the retired chain where nothing rolls back, and there one odd row in a place
    /\ area = "upgrade" => IF transactional THEN database.applied # Retired
                          ELSE \A p \in DOMAIN database.data \ VersionTables :
                                \/ database.data[p] = Plain(p)
                                \/ Cardinality(RowsOf(database.data[p])) <= 1
    /\ \/ area = "files"
       \/ area # "files" /\ present = {}
    /\ FilesInit
    \* models that are there at the start: one place is enough, and two decisions differ
    /\ <<"g", "g">> \notin present
    /\ \A d \in present : content[d][<<"g", "dmn">>] # NoFile =>
            content[d][<<"a", "dmn">>] \notin {NoFile, content[d][<<"g", "dmn">>]}
    /\ \/ area = "forms"
       \/ /\ area # "forms" /\ gateway = NoGateway
          /\ formTask = [number |-> 1, variable |-> FALSE, own |-> FALSE]
    /\ TaskFormsInit
    \* a default flow has the name of another branch where one branch is taken
    /\ gateway = NoGateway \/ (gateway.name = "a" <=> gateway.kind = "exclusive")
    /\ TenancyInit
    /\ area # "tenancy" => orgName[DefaultAlias] = CHOOSE n \in TenantNames : TRUE
    /\ ConnectorsInit
    /\ area # "connectors" => backend = "database"
    /\ TemplatesInit /\ CatalogInit /\ InstanceTasksInit /\ GalleryInit /\ TaskHistoryInit
    /\ CallActivitiesInit

OperationsNext ==
    \/ area = "templates" /\ TemplatesNext /\ TemplatesBound'
       /\ UNCHANGED <<area, catalogVars, tenancyVars, connectorsVars, historyVars,
                      taskVars, upgradeVars, filesVars, galleryVars, formVars, childVars>>
    \/ area = "catalog" /\ CatalogNext /\ CatalogBound'
       /\ UNCHANGED <<area, templateVars, tenancyVars, connectorsVars, historyVars,
                      taskVars, upgradeVars, filesVars, galleryVars, formVars, childVars>>
    \/ area = "tenancy" /\ TenancyNext /\ TenancyBound'
       /\ UNCHANGED <<area, templateVars, catalogVars, connectorsVars, historyVars,
                      taskVars, upgradeVars, filesVars, galleryVars, formVars, childVars>>
    \/ area = "connectors" /\ ConnectorsNext /\ ConnectorsBound'
       /\ UNCHANGED <<area, templateVars, catalogVars, tenancyVars, historyVars, taskVars,
                      upgradeVars, filesVars, galleryVars, formVars, childVars>>
    \/ area = "tasks" /\ TaskHistoryNext
       /\ UNCHANGED <<area, templateVars, catalogVars, tenancyVars, connectorsVars,
                      taskVars, upgradeVars, filesVars, galleryVars, formVars, childVars>>
    \/ area = "completion" /\ InstanceTasksNext
       /\ UNCHANGED <<area, templateVars, catalogVars, tenancyVars, connectorsVars,
                      historyVars, upgradeVars, filesVars, galleryVars, formVars,
                      childVars>>
    \/ area = "upgrade" /\ CoreUpgradeNext /\ UpgradeBound'
       /\ UNCHANGED <<area, templateVars, catalogVars, tenancyVars, connectorsVars,
                      historyVars, taskVars, filesVars, galleryVars, formVars, childVars>>
    \/ area = "files" /\ FilesNext /\ FilesBound'
       /\ UNCHANGED <<area, templateVars, catalogVars, tenancyVars, connectorsVars,
                      historyVars, taskVars, upgradeVars, galleryVars, formVars,
                      childVars>>
    \/ area = "gallery" /\ GalleryNext /\ GalleryBound'
       /\ UNCHANGED <<area, templateVars, catalogVars, tenancyVars, connectorsVars,
                      historyVars, taskVars, upgradeVars, filesVars, formVars, childVars>>
    \/ area = "forms" /\ TaskFormsNext /\ FormsBound'
       /\ UNCHANGED <<area, templateVars, catalogVars, tenancyVars, connectorsVars,
                      historyVars, taskVars, upgradeVars, filesVars, galleryVars,
                      childVars>>
    \/ area = "calls" /\ CallActivitiesNext /\ CallsBound'
       /\ UNCHANGED <<area, templateVars, catalogVars, tenancyVars, connectorsVars,
                      historyVars, taskVars, upgradeVars, filesVars, galleryVars,
                      formVars>>

OperationsSpec == OperationsInit /\ [][OperationsNext]_operationsVars

\* Every variable of the component that moves keeps its type.
OperationsTypeOK ==
    /\ area = "templates" => TemplatesTypeOK
    /\ area = "catalog" => CatalogTypeOK
    /\ area = "tenancy" => TenancyTypeOK
    /\ area = "connectors" => ConnectorsTypeOK
    /\ area = "tasks" => TaskHistoryTypeOK
    /\ area = "completion" => InstanceTasksTypeOK
    /\ area = "upgrade" => UpgradeTypeOK
    /\ area = "files" => FilesTypeOK
    /\ area = "gallery" => GalleryTypeOK
    /\ area = "forms" => TaskFormsTypeOK
    /\ area = "calls" => CallActivitiesTypeOK

\* A component that does not move stays as it began: states are told apart by the one that
\* moves.
OperationsView ==
    <<area,
      CASE area = "templates" -> templateVars
        [] area = "catalog" -> catalogVars
        [] area = "tenancy" -> tenancyVars
        [] area = "connectors" -> connectorsVars
        [] area = "tasks" -> historyVars
        [] area = "completion" -> taskVars
        [] area = "upgrade" -> upgradeVars
        [] area = "files" -> filesVars
        [] area = "gallery" -> galleryVars
        [] area = "forms" -> formVars
        [] area = "calls" -> childVars>>

\* Requests are interchangeable; so are models and secret fields, and rows.
OperationsSymmetry == Permutations({c1, c2}) \cup Permutations({n1, n2})
=============================================================================
