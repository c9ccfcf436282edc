------------------------------ MODULE Catalog ------------------------------
(***************************************************************************)
(* Process models and their instances: the spec directory of a tenant      *)
(* (catalog/__init__.py, no transaction covers it), the definitions that   *)
(* core keys by the digest of their XML, and Start, which runs what is on  *)
(* disk (workflow/__init__.py).  Every call reads the directory or the     *)
(* tables in one step and acts on them in a later one.                     *)
(***************************************************************************)
EXTENDS Naturals, FiniteSets

CONSTANTS
    Models,         \* process model identifiers, in one group
    Xmls,           \* contents of a primary BPMN file
    Unsupported,    \* contents that import refuses
    NoModel, NoXml,
    Users,          \* concurrent requests
    MaxInstances    \* bound: instances at a time

ASSUME CatalogAssumption ==
    /\ NoModel \notin Models /\ NoXml \notin Xmls
    /\ Unsupported \subseteq Xmls
    /\ MaxInstances \in Nat

VARIABLES
    group,          \* the group's directory is there
    file,           \* the primary BPMN of a model, or NoXml
    status,         \* process_model.json, or "missing"
    definition,     \* core: the model that imported an XML last, or NoModel
    instances,      \* core: instances
    user,           \* requests under way
    \* history: contents a model had while published, unless its requests overlapped; the
    \* models whose requests did, or whose copy died
    released, overlapping

spec == <<group, file, status>>
core == <<definition, instances>>
catalogHistory == <<released, overlapping>>
catalogVars == <<spec, core, user, catalogHistory>>

PROCESS_MODEL_STATUSES == {"draft", "published", "paused"}
PROCESS_MODEL_STARTABLE_STATUSES == {"published"}
\* asked: the model the user started; model: the one core recorded
InstanceRows == [asked : Models, model : Models, xml : Xmls]
NoUser == [pc |-> "idle", op |-> "none", model |-> NoModel, xml |-> NoXml, status |-> "missing"]

CatalogTypeOK ==
    /\ group \in BOOLEAN
    /\ file \in [Models -> Xmls \cup {NoXml}]
    /\ status \in [Models -> PROCESS_MODEL_STATUSES \cup {"missing"}]
    /\ definition \in [Xmls -> Models \cup {NoModel}]
    /\ instances \subseteq InstanceRows
    /\ user \in [Users -> [
            pc : {"idle", "creating", "copying", "saving", "updating", "deleting", "clearing",
                  "startable", "read", "importing", "ready"},
            op : {"none", "create", "copy", "save", "update", "delete", "deleteGroup", "start"},
            model : Models \cup {NoModel}, xml : Xmls \cup {NoXml},
            status : PROCESS_MODEL_STATUSES \cup {"missing"}]]
    /\ released \subseteq Models \X Xmls
    /\ overlapping \subseteq Models

CatalogInit ==
    /\ group = FALSE
    /\ file = [m \in Models |-> NoXml]
    /\ status = [m \in Models |-> "missing"]
    /\ definition = [x \in Xmls |-> NoModel]
    /\ instances = {}
    /\ user = [u \in Users |-> NoUser]
    /\ released = {}
    /\ overlapping = {}

UserAt(u, pc) == user[u].pc = pc
Serve(u, frame) == user' = [user EXCEPT ![u] = frame]

\* model_exists: a directory with a *.bpmn
Exists(m) == file[m] # NoXml
\* process_model_status: absent or unknown reads as published
Status(m) == IF status[m] = "missing" THEN "published" ELSE status[m]
Importable(x) == x \notin Unsupported

\* A request enters while others are under way: all their models are concerned.
Enter(u, frame) ==
    LET busy == {v \in Users \ {u} : user[v].pc # "idle"} IN
    /\ UserAt(u, "idle")
    /\ Serve(u, frame)
    /\ overlapping' = IF busy = {} THEN overlapping
                      ELSE overlapping \cup (({frame.model} \cup {user[v].model : v \in busy})
                                           \ {NoModel})

\* The contents that are marked published after a change of the directory
Release == released' =
    {p \in Models \X Xmls : /\ p[1] \notin overlapping'
                           /\ \/ p \in released
                              \/ file'[p[1]] = p[2] /\ status'[p[1]] = "published"}
KeepReleased == released' = {p \in released : p[1] \notin overlapping'}

(***************************************************************************)
(* Groups                                                                  *)
(***************************************************************************)

CreateGroup(u) ==
    /\ UserAt(u, "idle") /\ ~group
    /\ group' = TRUE
    /\ UNCHANGED <<file, status, core, user, catalogHistory>>

\* The route counts the instances of the group's models, and then removes the tree.
StartDeleteGroup(u) ==
    /\ group /\ instances = {}
    /\ Enter(u, [NoUser EXCEPT !.pc = "clearing", !.op = "deleteGroup"])
    /\ UNCHANGED <<spec, core>>
    /\ KeepReleased

DeleteGroup(u) ==
    /\ UserAt(u, "clearing")
    /\ group' = FALSE
    /\ file' = [m \in Models |-> NoXml]
    /\ status' = [m \in Models |-> "missing"]
    /\ overlapping' = IF \E v \in Users \ {u} : ~UserAt(v, "idle") THEN Models ELSE overlapping
    /\ Serve(u, NoUser)
    /\ UNCHANGED core
    /\ KeepReleased

(***************************************************************************)
(* Models                                                                  *)
(***************************************************************************)

StartCreateModel(u) ==
    /\ group
    /\ \E m \in Models, x \in Xmls \ Unsupported :
        /\ ~Exists(m) /\ status[m] = "missing"
        /\ Enter(u, [NoUser EXCEPT !.pc = "creating", !.op = "create", !.model = m, !.xml = x])
    /\ UNCHANGED <<spec, core>>
    /\ KeepReleased

\* copy_process_model copies the files first and writes process_model.json later.
CopyFiles(u) ==
    /\ \E m \in Models, n \in Models :
        /\ Exists(n)
        /\ ~Exists(m) /\ status[m] = "missing"
        /\ file' = [file EXCEPT ![m] = file[n]]
        /\ Enter(u, [NoUser EXCEPT !.pc = "copying", !.op = "copy", !.model = m, !.xml = file[n]])
    /\ group' = TRUE
    /\ UNCHANGED <<status, core>>
    /\ KeepReleased

\* A new model and a copy start as drafts.
NewStatus == "draft"

\* The directory is complete when the import succeeded, and removed when it raised.
CreateModel(u) ==
    LET m == user[u].model
        x == user[u].xml IN
    /\ user[u].pc \in {"creating", "copying"}
    /\ group' = TRUE
    /\ IF Importable(x)
       THEN /\ file' = [file EXCEPT ![m] = x]
            /\ status' = [status EXCEPT ![m] = NewStatus]
            /\ definition' = [definition EXCEPT ![x] = m]
       ELSE /\ file' = [file EXCEPT ![m] = NoXml]
            /\ status' = [status EXCEPT ![m] = "missing"]
            /\ UNCHANGED definition
    /\ Serve(u, NoUser)
    /\ UNCHANGED <<instances, catalogHistory>>

\* The files are there and the transaction is not committed: it can still be lost.
CreateModelUncommitted(u) ==
    /\ user[u].pc \in {"creating", "copying"} /\ Importable(user[u].xml)
    /\ group' = TRUE
    /\ file' = [file EXCEPT ![user[u].model] = user[u].xml]
    /\ status' = [status EXCEPT ![user[u].model] = NewStatus]
    /\ Serve(u, NoUser)
    /\ UNCHANGED <<core, catalogHistory>>

\* update_file: the bytes are on disk before they are checked and imported.
StoreFile(u) ==
    /\ \E m \in Models, x \in Xmls :
        /\ Exists(m)
        /\ file' = [file EXCEPT ![m] = x]
        /\ Enter(u, [NoUser EXCEPT !.pc = "saving", !.op = "save", !.model = m, !.xml = x])
    /\ UNCHANGED <<group, status, core>>
    /\ Release

\* save: what import refuses stays on disk; what it takes is written once more.
ImportFile(u) ==
    LET m == user[u].model
        x == user[u].xml IN
    /\ UserAt(u, "saving")
    /\ IF Importable(x)
       THEN /\ definition' = [definition EXCEPT ![x] = m]
            /\ file' = [file EXCEPT ![m] = x]
            /\ group' = TRUE
       ELSE UNCHANGED <<definition, file, group>>
    /\ UNCHANGED status
    /\ Serve(u, NoUser)
    /\ UNCHANGED <<instances, overlapping>>
    /\ Release

\* _STATUS_TRANSITIONS, and the status itself
AllowedStatus(from) == IF from = "draft" THEN {"draft", "published"} ELSE PROCESS_MODEL_STATUSES

\* update_process_model_metadata rebuilds process_model.json from what it read.
StartUpdate(u) ==
    /\ \E m \in Models : \E next \in AllowedStatus(Status(m)) :
        /\ Exists(m)
        /\ Enter(u, [NoUser EXCEPT !.pc = "updating", !.op = "update", !.model = m,
                                   !.status = next])
    /\ UNCHANGED <<spec, core>>
    /\ KeepReleased

\* The directory may be gone: writing creates it again.
WriteMetadata(u) ==
    /\ UserAt(u, "updating")
    /\ group' = TRUE
    /\ status' = [status EXCEPT ![user[u].model] = user[u].status]
    /\ UNCHANGED file
    /\ Serve(u, NoUser)
    /\ UNCHANGED <<core, overlapping>>
    /\ Release

\* count_instances_for_process_model
Unreferenced(m) == \A i \in instances : i.model # m

StartDeleteModel(u) ==
    /\ \E m \in Models :
        /\ Exists(m)
        /\ Unreferenced(m)
        /\ Enter(u, [NoUser EXCEPT !.pc = "deleting", !.op = "delete", !.model = m])
    /\ UNCHANGED <<spec, core>>
    /\ KeepReleased

DeleteModel(u) ==
    /\ UserAt(u, "deleting")
    /\ file' = [file EXCEPT ![user[u].model] = NoXml]
    /\ status' = [status EXCEPT ![user[u].model] = "missing"]
    /\ Serve(u, NoUser)
    /\ UNCHANGED <<group, core, catalogHistory>>

(***************************************************************************)
(* Start                                                                   *)
(***************************************************************************)

\* _require_startable_status
StartInstance(u) ==
    /\ \E m \in Models :
        /\ Exists(m)
        /\ Status(m) \in PROCESS_MODEL_STARTABLE_STATUSES
        /\ Enter(u, [NoUser EXCEPT !.pc = "startable", !.op = "start", !.model = m])
    /\ UNCHANGED <<spec, core>>
    /\ KeepReleased

\* read_primary_bpmn and model_dmn_xml
ReadSpec(u) ==
    /\ UserAt(u, "startable")
    /\ Serve(u, IF Exists(user[u].model) /\ Importable(file[user[u].model])
                THEN [user[u] EXCEPT !.pc = "read", !.xml = file[user[u].model]]
                ELSE NoUser)
    /\ UNCHANGED <<spec, core, catalogHistory>>

\* (mutant of ImportedAs: any definition with this XML will do)
ImportedByAnyone(m, x) == definition[x] # NoModel
\* (mutant of ImportedAs: Start relies on the import that saving the file did)
AlwaysImported(m, x) == TRUE
\* imported_as_this_model
ImportedAs(m, x) == definition[x] = m

\* With the definition at hand nothing is locked; else the advisory lock of this XML.
ResolveDefinition(u) ==
    LET m == user[u].model
        x == user[u].xml IN
    /\ UserAt(u, "read")
    /\ \/ /\ ImportedAs(m, x)
          /\ Serve(u, [user[u] EXCEPT !.pc = "ready"])
       \/ /\ ~ImportedAs(m, x)
          /\ \A v \in Users \ {u} : ~(UserAt(v, "importing") /\ user[v].xml = x)
          /\ Serve(u, [user[u] EXCEPT !.pc = "importing"])
    /\ UNCHANGED <<spec, core, catalogHistory>>

\* Looked up again under the lock, imported if it is still another model's; the commit
\* releases the lock.
ImportForStart(u) ==
    LET m == user[u].model
        x == user[u].xml IN
    /\ UserAt(u, "importing")
    /\ definition' = IF ImportedAs(m, x) THEN definition ELSE [definition EXCEPT ![x] = m]
    /\ Serve(u, [user[u] EXCEPT !.pc = "ready"])
    /\ UNCHANGED <<spec, instances, catalogHistory>>

\* InitializeProcessInstanceFromDefinition: core names the instance after the definition.
CreateInstance(u) ==
    /\ UserAt(u, "ready")
    /\ Cardinality(instances) < MaxInstances
    /\ instances' = instances \cup
            {[asked |-> user[u].model, model |-> definition[user[u].xml], xml |-> user[u].xml]}
    /\ Serve(u, NoUser)
    /\ UNCHANGED <<spec, definition, catalogHistory>>

\* delete_instance
DeleteInstance(u) ==
    /\ UserAt(u, "idle")
    /\ \E i \in instances : instances' = instances \ {i}
    /\ UNCHANGED <<spec, definition, user, catalogHistory>>

\* The request fails or its process dies; a dead copy leaves files without metadata.
RequestFails(u) ==
    /\ ~UserAt(u, "idle")
    /\ overlapping' = IF UserAt(u, "copying") THEN overlapping \cup {user[u].model}
                                              ELSE overlapping
    /\ Serve(u, NoUser)
    /\ UNCHANGED <<spec, core>>
    /\ KeepReleased

CatalogNext ==
    \E u \in Users :
        \/ CreateGroup(u) \/ StartDeleteGroup(u) \/ DeleteGroup(u)
        \/ StartCreateModel(u) \/ CopyFiles(u) \/ CreateModel(u)
        \/ CreateModelUncommitted(u) \/ StoreFile(u) \/ ImportFile(u)
        \/ StartUpdate(u) \/ WriteMetadata(u) \/ StartDeleteModel(u) \/ DeleteModel(u)
        \/ StartInstance(u) \/ ReadSpec(u) \/ ResolveDefinition(u) \/ ImportForStart(u)
        \/ CreateInstance(u) \/ DeleteInstance(u) \/ RequestFails(u)

CatalogSpec == CatalogInit /\ [][CatalogNext]_catalogVars

(***************************************************************************)
(* Properties                                                              *)
(***************************************************************************)

\* "A copy with identical XML is re-pointed here rather than reused, or the instance
\* would be created as the other model": core records the model the user started, and the
\* instance runs a content that was on disk while that model was published (a copy or a
\* model that was just created is not startable), unless requests about the model
\* overlapped (the lock is released before core reads the definition).  And the model
\* stays, "so its run history/audit rows are never orphaned".
InstancesRunReleasedModels ==
    \A i \in instances :
        /\ i.asked \notin overlapping => i.model = i.asked /\ <<i.asked, i.xml>> \in released
        /\ i.model \notin overlapping => Exists(i.model)
=============================================================================
