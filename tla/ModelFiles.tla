----------------------------- MODULE ModelFiles -----------------------------
(***************************************************************************)
(* The files of process models: the tree of groups and models in a         *)
(* tenant's spec directory, the file that process_model.json marks as      *)
(* primary, the DMN that is imported along with a diagram, and what Start  *)
(* makes of them (catalog/__init__.py, routes/processes_controller.py,     *)
(* workflow/__init__.py).  A long sequence of calls, a transaction that is *)
(* lost after the files were written, a request that dies while it writes  *)
(* them and a database that is rebuilt under them bring the directory, its *)
(* metadata and the definitions out of step.                               *)
(*                                                                         *)
(* Calls follow one another here; how they overlap is the matter of        *)
(* Catalog.                                                                *)
(***************************************************************************)
EXTENDS Naturals, FiniteSets, Sequences, Overlays

CONSTANTS
    Folders,        \* paths below the tenant's directory, sequences of segments
    FileNames,      \* <<stem, suffix>>, sorted as the code sorts names
    Decisions,      \* DMN documents, each named by its decision
    NoFile, NoDecision,
    MaxCalls,       \* bound: calls in a behaviour
    MaxRunning      \* bound: instances at a time

Names == {FileNames[i] : i \in DOMAIN FileNames}
LeafFile(d) == <<d[Len(d)], "bpmn">>

ASSUME FilesAssumption ==
    /\ \A d \in Folders : /\ Len(d) \in Nat \ {0} /\ LeafFile(d) \in Names
                          /\ Len(d) > 1 => SubSeq(d, 1, Len(d) - 1) \in Folders
    /\ MaxCalls \in Nat /\ MaxRunning \in Nat

VARIABLES
    present,        \* directories on disk
    content,        \* per directory: what each file holds, or NoFile
    meta,           \* per directory, process_model.json: the primary file and the status
    imported,       \* core: per XML it knows, the model it was imported for and its DMN
    running,        \* process instances
    calls,          \* calls made
    \* history: the XML last saved without a file name and not touched since; models
    \* whose diagrams a delete took that only looked at another model's instances, or at none
    saved, orphaned

filesVars == <<present, content, meta, imported, running, calls, saved, orphaned>>

\* A diagram: the default of a leaf or an edited one, the decision it calls, and whether a
\* script unit test is stored in it
Xml(id, calling) == [id |-> id, calling |-> calling, tests |-> FALSE]
Default(d) == Xml(d[Len(d)], NoDecision)
Edited == {Xml("edited", n) : n \in Decisions}
DiagramXmls == LET plain == {Default(d) : d \in Folders} \cup Edited
        IN  plain \cup {[x EXCEPT !.tests = TRUE] : x \in plain}

\* Names have an order; what says that there is no document is not one.
ASSUME DocumentsAssumption ==
    /\ FileNames \in Seq(Names)
    /\ NoFile \notin DiagramXmls \cup Decisions
    /\ NoDecision \notin DiagramXmls \cup Decisions \cup {NoFile}

NoMeta == [primary |-> NoFile, status |-> "missing"]
NoFiles == [f \in Names |-> NoFile]
Nothing == [x \in {} |-> NoFile]

FilesTypeOK ==
    /\ present \subseteq Folders
    /\ content \in [present -> [Names -> DiagramXmls \cup Decisions \cup {NoFile}]]
    /\ meta \in [present -> [primary : Names \cup {NoFile},
                             status : {"missing", "draft", "published", "paused"}]]
    /\ DOMAIN imported \subseteq DiagramXmls
    /\ \A x \in DOMAIN imported :
            imported[x] \in [model : Folders, dmn : Decisions \cup {NoDecision}]
    /\ \A i \in running : i.model \in Folders /\ i.xml \in DiagramXmls
    /\ calls \in 0..MaxCalls
    /\ saved \in [present -> DiagramXmls \cup {NoFile}] /\ orphaned \subseteq Folders

(***************************************************************************)
(* Reading the directory                                                   *)
(***************************************************************************)

Parent(d) == SubSeq(d, 1, Len(d) - 1)
IsBelow(d, e) == Len(d) < Len(e) /\ SubSeq(e, 1, Len(d)) = d
Upto(d) == {e \in Folders : e = d \/ IsBelow(e, d)}
Under(d) == {e \in Folders : e = d \/ IsBelow(d, e)}

HasFile(d, f) == d \in present /\ content[d][f] # NoFile
Diagrams(d) == {f \in Names : f[2] = "bpmn" /\ HasFile(d, f)}
First(fs) == FileNames[CHOOSE i \in DOMAIN FileNames :
                        FileNames[i] \in fs /\ \A j \in 1..(i - 1) : FileNames[j] \notin fs]

\* is_process_model_identifier, process_group_exists
model_exists(d) == Diagrams(d) # {}
process_group_exists(d) == d \in present /\ ~model_exists(d)
\* absent reads as published
process_model_status(d) == IF meta[d].status = "missing" THEN "published" ELSE meta[d].status

_model_file_path(d) ==
    IF d \in present /\ meta[d].primary # NoFile THEN meta[d].primary ELSE LeafFile(d)
\* read_primary_bpmn: the file, or else the first diagram
StartFile(d) ==
    IF HasFile(d, _model_file_path(d)) THEN _model_file_path(d) ELSE First(Diagrams(d))
\* _primary_bpmn_name: the diagram that script unit tests are stored in and run on
TestFile(d) ==
    IF meta[d].primary \in Diagrams(d) THEN meta[d].primary ELSE First(Diagrams(d))

\* model_dmn_xml: "the file whose decision a business rule task calls", or the first
model_dmn_xml(files, xml) ==
    LET dmns == {f \in Names : f[2] = "dmn" /\ files[f] # NoFile}
        called == {f \in dmns : xml \in DiagramXmls /\ files[f] = xml.calling}
    IN  IF dmns = {} THEN NoDecision ELSE files[First(IF called # {} THEN called ELSE dmns)]

(***************************************************************************)
(* Core's definitions (external)                                           *)
(***************************************************************************)

\* What is not a diagram, or not a decision, is refused.
Accepted(xml, dmn) == xml \in DiagramXmls /\ dmn \in Decisions \cup {NoDecision}
\* "Core keeps the stored DMN when given None."
ImportDefinition(d, xml, dmn) ==
    LET kept == IF xml \in DOMAIN imported THEN imported[xml].dmn ELSE NoDecision
    IN  Single(xml, [model |-> d, dmn |-> IF dmn = NoDecision THEN kept ELSE dmn]) ++ imported
\* The transaction of the request is committed after its files were written, or lost.
Imported(d, xml, dmn) == imported' \in {imported, ImportDefinition(d, xml, dmn)}

Call == calls < MaxCalls /\ calls' = calls + 1
Write(d, f, c) == content' = [content EXCEPT ![d][f] = c]
Touched(d) == saved' = [saved EXCEPT ![d] = NoFile]
\* makedirs: fn, with the directory and those above it
WithPath(fn, d, empty) == fn ++ [e \in Upto(d) |-> empty]
\* rmtree
Remove(d) ==
    /\ present' = present \ Under(d)
    /\ content' = [e \in present' |-> content[e]]
    /\ meta' = [e \in present' |-> meta[e]]
    /\ saved' = [e \in present' |-> saved[e]]

(***************************************************************************)
(* Groups and models                                                       *)
(***************************************************************************)

\* A group may be made anywhere, below a model too.
create_process_group(d) ==
    /\ Call /\ d \notin present
    /\ present' = present \cup Upto(d)
    /\ content' = WithPath(content, d, NoFiles)
    /\ meta' = WithPath(meta, d, NoMeta) /\ saved' = WithPath(saved, d, NoFile)
    /\ UNCHANGED <<imported, running, orphaned>>

\* (mutant of count_instances_for_process_group: the group's own models, not nested ones)
CountedInGroup(d) == {i \in running : Parent(i.model) = d}
count_instances_for_process_group(d) == {i \in running : i.model \in Under(d)}

delete_process_group(d) ==
    /\ Call /\ process_group_exists(d) /\ count_instances_for_process_group(d) = {}
    /\ Remove(d)
    /\ UNCHANGED <<imported, running, orphaned>>

\* The import comes first, then process_model.json and the diagram; a process that dies
\* between these leaves a directory with metadata and no diagram.
create_process_model(d) ==
    /\ Call /\ Len(d) > 1 /\ process_group_exists(Parent(d)) /\ d \notin present
    /\ present' = present \cup {d}
    /\ meta' = Single(d, [primary |-> LeafFile(d), status |-> "draft"]) ++ meta
    /\ \/ /\ content' = Single(d, [NoFiles EXCEPT ![LeafFile(d)] = Default(d)]) ++ content
          /\ Imported(d, Default(d), NoDecision)
       \/ content' = Single(d, NoFiles) ++ content /\ UNCHANGED imported
    /\ saved' = Single(d, NoFile) ++ saved
    /\ UNCHANGED <<running, orphaned>>

\* The files of the directory, not those below it.  What import refuses is removed again.
copy_process_model(s, d) ==
    LET primary == IF meta[s].primary # NoFile /\ HasFile(s, meta[s].primary)
                   THEN meta[s].primary ELSE First(Diagrams(s))
        diagram == IF primary[2] = "bpmn" THEN primary ELSE First(Diagrams(s))
        xml == content[s][diagram]
        dmn == model_dmn_xml(content[s], xml)
    IN  /\ Call /\ model_exists(s) /\ Parent(s) = Parent(d) /\ d \notin present
        /\ Accepted(xml, dmn)
        /\ present' = present \cup {d}
        /\ content' = Single(d, content[s]) ++ content
        /\ meta' = Single(d, [primary |-> primary, status |-> "draft"]) ++ meta
        /\ saved' = Single(d, NoFile) ++ saved
        /\ Imported(d, xml, dmn)
        /\ UNCHANGED <<running, orphaned>>

\* Blocked by instances of this very model, not by those of models below it
delete_process_model(d) ==
    /\ Call /\ model_exists(d) /\ \A i \in running : i.model # d
    /\ Remove(d)
    /\ orphaned' = orphaned \cup (Under(d) \ {d})
    /\ UNCHANGED <<imported, running>>

(***************************************************************************)
(* Files                                                                   *)
(***************************************************************************)

\* POST /v1.0/process-models: any path, imported first
save(d, xml) ==
    LET files == WithPath(content, d, NoFiles)
        dmn == model_dmn_xml(files[d], xml)
    IN  /\ Call /\ Accepted(xml, dmn)
        /\ present' = present \cup Upto(d)
        /\ content' = [files EXCEPT ![d][_model_file_path(d)] = xml]
        /\ meta' = WithPath(meta, d, NoMeta)
        /\ Imported(d, xml, dmn)
        /\ saved' = Single(d, xml) ++ WithPath(saved, d, NoFile)
        /\ UNCHANGED <<running, orphaned>>

\* update_file writes first; what is imported then is this diagram, or the primary one
\* with the DMN.  A refusal leaves the file.
ImportAfter(d, f, files) ==
    LET diagram == IF f[2] = "bpmn" THEN f ELSE _model_file_path(d)
        dmn == model_dmn_xml(files, files[diagram])
    IN  IF Accepted(files[diagram], dmn) THEN Imported(d, files[diagram], dmn)
        ELSE UNCHANGED imported

update_file(d, f, c) ==
    /\ Call /\ model_exists(d)
    /\ Write(d, f, c) /\ ImportAfter(d, f, content'[d]) /\ Touched(d)
    /\ UNCHANGED <<present, meta, running, orphaned>>

\* create_model_file imports first, with the DMN that is not on disk yet: a refusal leaves
\* nothing.
create_model_file(d, f, c) ==
    LET files == [content[d] EXCEPT ![f] = c]
        diagram == IF f[2] = "bpmn" THEN f ELSE _model_file_path(d)
    IN  /\ Call /\ model_exists(d) /\ ~HasFile(d, f)
        /\ files[diagram] # NoFile => Accepted(files[diagram],
                                                 model_dmn_xml(files, files[diagram]))
        /\ Write(d, f, c) /\ ImportAfter(d, f, files) /\ Touched(d)
        /\ UNCHANGED <<present, meta, running, orphaned>>

\* cannot_delete_primary
Deletable(d, f) == HasFile(d, f) /\ meta[d].primary # f

\* A model that marks no diagram as primary may lose its last one.
delete_model_file(d, f) ==
    /\ Call /\ model_exists(d) /\ Deletable(d, f)
    /\ Write(d, f, NoFile) /\ Touched(d)
    /\ orphaned' = orphaned \cup (IF Diagrams(d) = {f} THEN {d} ELSE {})
    /\ UNCHANGED <<present, meta, imported, running>>

\* create_script_unit_test
create_script_unit_test(d) ==
    LET xml == [content[d][TestFile(d)] EXCEPT !.tests = TRUE]
        dmn == model_dmn_xml(content[d], xml)
    IN  /\ Call /\ model_exists(d) /\ content[d][TestFile(d)] \in DiagramXmls /\ Accepted(xml, dmn)
        /\ Write(d, TestFile(d), xml) /\ Imported(d, xml, dmn) /\ Touched(d)
        /\ UNCHANGED <<present, meta, running, orphaned>>

\* update_process_model_metadata: any file may be marked, and what is not asked for is kept.
MarkPrimary(d, f) ==
    /\ Call /\ model_exists(d) /\ HasFile(d, f)
    /\ meta' = [meta EXCEPT ![d] = [primary |-> f, status |-> process_model_status(d)]]
    /\ Touched(d)
    /\ UNCHANGED <<present, content, imported, running, orphaned>>

MarkStatus(d, s) ==
    /\ Call /\ model_exists(d) /\ s # process_model_status(d)
    /\ process_model_status(d) = "draft" => s = "published"
    /\ meta' = [meta EXCEPT ![d].status = s]
    /\ UNCHANGED <<present, content, imported, running, saved, orphaned>>

(***************************************************************************)
(* Start                                                                   *)
(***************************************************************************)

\* (mutant of imported_as_this_model: whatever DMN it was stored with)
ImportedWithAny(d, xml, dmn) == xml \in DOMAIN imported /\ imported[xml].model = d
imported_as_this_model(d, xml, dmn) ==
    /\ xml \in DOMAIN imported /\ imported[xml].model = d
    /\ dmn = NoDecision \/ imported[xml].dmn = dmn

\* The import is committed at once; the instance may still be refused by core.
start(d) ==
    LET xml == content[d][StartFile(d)]
        dmn == model_dmn_xml(content[d], xml)
    IN  /\ Call /\ model_exists(d) /\ process_model_status(d) = "published"
        /\ Accepted(xml, dmn)
        /\ imported' = IF imported_as_this_model(d, xml, dmn) THEN imported
                       ELSE ImportDefinition(d, xml, dmn)
        /\ \/ UNCHANGED running
           \/ /\ Cardinality(running) < MaxRunning
              /\ running' = running \cup
                    {[model |-> d, xml |-> xml, dmn |-> imported'[xml].dmn,
                      had |-> {content[d][f] : f \in {g \in Names : g[2] = "dmn"}}]}
        /\ UNCHANGED <<present, content, meta, saved, orphaned>>

\* delete_instance
RemoveInstance ==
    /\ Call /\ \E i \in running : running' = running \ {i}
    /\ UNCHANGED <<present, content, meta, imported, saved, orphaned>>

\* "A clean rebuild (down -v) wipes the database but keeps the bind-mounted spec dir"
\* (M8F-566).
RebuildDatabase ==
    /\ Call /\ running' = {} /\ imported' = Nothing
    /\ UNCHANGED <<present, content, meta, saved, orphaned>>

\* A new tenant; a group; or a group and a published model as it was left by a release
\* that wrote no metadata, or made from a template, with any of the files.
FilesInit ==
    /\ \/ present = {}
       \/ present = {d \in Folders : Len(d) = 1}
       \/ \E m \in {d \in Folders : Len(d) = 2} : present = Upto(m)
    /\ imported = Nothing
    /\ running = {} /\ calls = 0 /\ orphaned = {}
    /\ saved = [d \in present |-> NoFile]
    /\ \/ /\ content = [d \in present |-> NoFiles]
          /\ meta = [d \in present |-> NoMeta]
       \/ \E m \in {d \in present : Len(d) = 2}, f \in {n \in Names : n[2] = "bpmn"},
             xml \in Edited, marked \in BOOLEAN :
            /\ marked \/ f = LeafFile(m)
            /\ \E dmns \in [{n \in Names : n[2] = "dmn"} -> Decisions \cup {NoFile}] :
                content = [d \in present |-> [n \in Names |->
                    IF d # m THEN NoFile
                    ELSE IF n = f THEN xml ELSE IF n[2] = "dmn" THEN dmns[n] ELSE NoFile]]
            /\ meta = [d \in present |->
                    IF d = m /\ marked THEN [primary |-> f, status |-> "published"] ELSE NoMeta]

ContentsOf(f) == IF f[2] = "bpmn" THEN Edited ELSE Decisions

FilesNext ==
    \/ \E d \in Folders :
        \/ create_process_group(d) \/ delete_process_group(d)
        \/ create_process_model(d) \/ delete_process_model(d)
        \/ \E s \in Folders : copy_process_model(s, d)
        \/ \E xml \in Edited : save(d, xml)
        \/ \E f \in Names :
            \/ \E c \in ContentsOf(f) : update_file(d, f, c) \/ create_model_file(d, f, c)
            \/ delete_model_file(d, f) \/ MarkPrimary(d, f)
        \/ create_script_unit_test(d)
        \/ \E s \in {"draft", "published", "paused"} : MarkStatus(d, s)
        \/ start(d)
    \/ RemoveInstance \/ RebuildDatabase

FilesSpec == FilesInit /\ [][FilesNext]_filesVars

(***************************************************************************)
(* Properties                                                              *)
(***************************************************************************)

\* What the page of a model shows is what runs: the file marked as primary is there, and
\* Start reads it, and so do the script unit tests if it is a diagram; a diagram that was
\* saved without a file name is the one Start reads ("guessing the leaf name
\* unconditionally wrote a phantom {leaf}.bpmn alongside the real file"); and an instance
\* runs with the decision its diagram calls if a file of its model had it (M8F-657).
StartRunsWhatIsShown ==
    /\ \A d \in {e \in Folders : model_exists(e)} :
        /\ meta[d].primary # NoFile =>
                /\ StartFile(d) = meta[d].primary
                /\ meta[d].primary[2] = "bpmn" => TestFile(d) = StartFile(d)
        /\ saved[d] # NoFile => content[d][StartFile(d)] = saved[d]
    /\ \A i \in running : i.xml.calling \in i.had => i.dmn = i.xml.calling

\* "Rather than orphaning their history/audit rows": the model of an instance has a
\* diagram, through every deletion of groups, models and files.  Excused: models below a
\* model that is deleted, whose instances nobody counts, and models without metadata that
\* lose their last diagram.
InstancesKeepTheirModel == \A i \in running : model_exists(i.model) \/ i.model \in orphaned
=============================================================================
