-------------------------- MODULE CallActivities --------------------------
(***************************************************************************)
(* A call activity names a process; the backend finds the definition that  *)
(* has it in an index of the tenant's stored definitions, which it keeps   *)
(* as long as a signature of the rows stays the same (workflow).  One      *)
(* process is called here; models are saved, copied, started, published    *)
(* and deleted meanwhile (catalog), and every import is a transaction of   *)
(* its own: core stamps the row when it is written, others see it when it  *)
(* is committed.                                                           *)
(***************************************************************************)
EXTENDS Naturals, FiniteSets

CONSTANTS
    ChildModels,
    CallingXmls,    \* diagrams with the called process, of one model or another
    OtherXmls,      \* diagrams with another process
    NoChild, NoDiagram,
    Importers,      \* concurrent requests that import
    MaxStamp,       \* bound: of the clock, which moves on between stamps
    MaxImports      \* bound: imports

ChildXmls == CallingXmls \cup OtherXmls

ASSUME CallActivitiesAssumption ==
    /\ NoChild \notin ChildModels /\ NoDiagram \notin ChildXmls
    /\ MaxStamp \in Nat /\ MaxImports \in Nat

VARIABLES
    childDiagram,   \* the primary diagram of a model on disk
    childStatus,    \* process_model.json, or "missing"
    definitions,    \* committed rows by their XML: the model that imported it last, stamps
    importer,       \* requests that import
    clock, imports,
    cached,         \* _CALL_ACTIVITY_INDEX_CACHE of the tenant
    call,           \* a call that is being resolved
    \* history: indexes of what was committed since the call began; an update was stamped
    \* before one that was committed earlier, or in the same tick
    possible, hidden,
    \* history: models put back to an earlier diagram, or to one without the process; whose
    \* diagram another model imported since; with requests that overlapped or imports lost
    putBack, taken, unsettled

importVars == <<childDiagram, childStatus, definitions, importer, clock, imports>>
callVars == <<cached, call, possible, hidden>>
childHistory == <<putBack, taken, unsettled>>
childVars == <<importVars, callVars, childHistory>>

NoRow == [model |-> NoChild, id |-> 0, created |-> 0, updated |-> 0]
NoImport == [pc |-> "idle", model |-> NoChild, xml |-> NoDiagram, write |-> NoRow]
NoIndex == [signature |-> <<0, 0, 0, 0>>, index |-> {}]
NoCall == [pc |-> "idle", signature |-> <<0, 0, 0, 0>>, index |-> {}]

IsStored(x) == definitions[x] # NoRow
OnDisk(m) == childDiagram[m] # NoDiagram
\* process_model_status: absent reads as published, of a deleted model too
StatusOf(m) == IF childStatus[m] = "missing" THEN "published" ELSE childStatus[m]

(***************************************************************************)
(* The index                                                               *)
(***************************************************************************)

Greatest(S) == CHOOSE n \in S \cup {0} : \A k \in S : k <= n
\* (mutant of SignatureOf: rows that were updated are not looked at)
CountOf(rows) ==
    LET Stored == {x \in ChildXmls : rows[x] # NoRow} IN
    <<Cardinality(Stored), Greatest({rows[x].id : x \in Stored}),
      Greatest({rows[x].created : x \in Stored}), 0>>
SignatureOf(rows) ==
    LET Stored == {x \in ChildXmls : rows[x] # NoRow} IN
    <<Cardinality(Stored), Greatest({rows[x].id : x \in Stored}),
      Greatest({rows[x].created : x \in Stored}), Greatest({rows[x].updated : x \in Stored})>>

\* The definitions with the called process, by the model they name
IndexOf(rows) ==
    {[model |-> rows[x].model, xml |-> x, at |-> <<rows[x].created, rows[x].id>>] :
        x \in {x \in CallingXmls : rows[x] # NoRow}}

\* order_by(created_at.desc, id.desc)
IsNewer(e, f) == e.at[1] > f.at[1] \/ (e.at[1] = f.at[1] /\ e.at[2] > f.at[2])
\* Of each published model the newest
MatchesByModel(index) ==
    {e \in index : /\ StatusOf(e.model) = "published"
                   /\ \A f \in index : f.model = e.model /\ f # e => IsNewer(e, f)}
\* resolve_definition: none and more than one raise
Resolve(index) ==
    IF Cardinality(MatchesByModel(index)) = 1
    THEN (CHOOSE e \in MatchesByModel(index) : TRUE).xml ELSE NoDiagram

(***************************************************************************)
(* Models and imports                                                      *)
(***************************************************************************)

ImportAt(r, pc) == importer[r].pc = pc
\* Requests under way for this model or this diagram
Rivals(m, x) ==
    {r \in Importers : ~ImportAt(r, "idle") /\ (importer[r].model = m \/ importer[r].xml = x)}
BeginImport(r, m, x) ==
    /\ ImportAt(r, "idle") /\ imports < MaxImports
    /\ imports' = imports + 1
    /\ importer' = [importer EXCEPT ![r] =
                        [NoImport EXCEPT !.pc = "importing", !.model = m, !.xml = x]]
    /\ unsettled' = IF Rivals(m, x) = {} THEN unsettled
                    ELSE unsettled \cup {m} \cup {importer[s].model : s \in Rivals(m, x)}

\* update_file and save, or a new model or copy, which start as drafts
SaveDiagram(r) ==
    \E m \in ChildModels, x \in ChildXmls :
        /\ BeginImport(r, m, x)
        /\ childDiagram' = [childDiagram EXCEPT ![m] = x]
        /\ childStatus' = IF OnDisk(m) THEN childStatus ELSE [childStatus EXCEPT ![m] = "draft"]
        /\ putBack' = IF ~IsStored(x) /\ x \in CallingXmls THEN putBack \ {m}
                      ELSE IF x = childDiagram[m] \/ (~OnDisk(m) /\ x \in CallingXmls) THEN putBack
                      ELSE putBack \cup {m}
        /\ UNCHANGED <<definitions, clock, callVars, taken>>

\* _definition_id_for_start: imports the diagram unless this model imported it last
StartChild(r) ==
    \E m \in ChildModels :
        /\ OnDisk(m) /\ StatusOf(m) = "published"
        /\ definitions[childDiagram[m]].model # m
        /\ BeginImport(r, m, childDiagram[m])
        /\ UNCHANGED <<childDiagram, childStatus, definitions, clock, callVars, putBack, taken>>

\* Core writes the row: the key makes a second request for this XML wait.
StampImport(r) ==
    LET x == importer[r].xml
        Numbers == {definitions[y].id : y \in ChildXmls}
                   \cup {importer[s].write.id : s \in Importers} IN
    /\ ImportAt(r, "importing")
    /\ \A s \in Importers : ~(ImportAt(s, "stamped") /\ importer[s].xml = x)
    /\ clock' \in clock..MaxStamp
    /\ importer' = [importer EXCEPT ![r].pc = "stamped", ![r].write =
            [model |-> importer[r].model, updated |-> clock',
             id |-> IF IsStored(x) THEN definitions[x].id ELSE Greatest(Numbers) + 1,
             created |-> IF IsStored(x) THEN definitions[x].created ELSE clock']]
    /\ UNCHANGED <<childDiagram, childStatus, definitions, imports, callVars, childHistory>>

CommitImport(r) ==
    LET x == importer[r].xml
        m == importer[r].model
        written == importer[r].write IN
    /\ ImportAt(r, "stamped")
    /\ definitions' = [definitions EXCEPT ![x] = written]
    /\ hidden' =
        (hidden \/ (IsStored(x) /\ \E y \in ChildXmls : definitions[y].updated >= written.updated))
    /\ possible' = IF call.pc = "idle" THEN possible ELSE possible \cup {IndexOf(definitions')}
    /\ taken' = (taken \ {m}) \cup {n \in ChildModels \ {m} : childDiagram[n] = x}
    /\ importer' = [importer EXCEPT ![r] = NoImport]
    /\ UNCHANGED <<childDiagram, childStatus, clock, imports, cached, call, putBack, unsettled>>

\* The request fails after the file was written, or the import was refused.
LoseImport(r) ==
    /\ ~ImportAt(r, "idle")
    /\ unsettled' = unsettled \cup {importer[r].model}
    /\ importer' = [importer EXCEPT ![r] = NoImport]
    /\ UNCHANGED <<childDiagram, childStatus, definitions, clock, imports, callVars, putBack,
                   taken>>

SetChildStatus ==
    \E m \in ChildModels, s \in {"draft", "published"} :
        /\ OnDisk(m) /\ childStatus[m] # s
        /\ childStatus' = [childStatus EXCEPT ![m] = s]
        /\ UNCHANGED <<childDiagram, definitions, importer, clock, imports, callVars, childHistory>>

\* The directory goes, the rows stay.
DeleteChild ==
    \E m \in ChildModels :
        /\ OnDisk(m)
        /\ \A r \in Importers : importer[r].model # m
        /\ childDiagram' = [childDiagram EXCEPT ![m] = NoDiagram]
        /\ childStatus' = [childStatus EXCEPT ![m] = "missing"]
        /\ putBack' = putBack \cup {m}
        /\ UNCHANGED <<definitions, importer, clock, imports, callVars, taken, unsettled>>

(***************************************************************************)
(* A call                                                                  *)
(***************************************************************************)

\* The signature is read; the same one as the cache's gives the cache's index.
ReadSignature ==
    /\ call.pc = "idle"
    /\ call' = IF cached.signature = SignatureOf(definitions)
               THEN [pc |-> "indexed", signature |-> cached.signature, index |-> cached.index]
               ELSE [NoCall EXCEPT !.pc = "signed", !.signature = SignatureOf(definitions)]
    /\ possible' = {IndexOf(definitions)}
    /\ UNCHANGED <<importVars, cached, hidden, childHistory>>

\* Read in a later statement, and stored under the signature that was read first
LoadIndex ==
    /\ call.pc = "signed"
    /\ call' = [call EXCEPT !.pc = "indexed", !.index = IndexOf(definitions)]
    /\ cached' = [signature |-> call.signature, index |-> IndexOf(definitions)]
    /\ UNCHANGED <<importVars, possible, hidden, childHistory>>

\* The statuses are read from disk and the parent goes on with Resolve(call.index), or fails.
EndCall ==
    /\ call.pc = "indexed"
    /\ call' = NoCall
    /\ possible' = {}
    /\ UNCHANGED <<importVars, cached, hidden, childHistory>>

CallActivitiesInit ==
    /\ childDiagram = [m \in ChildModels |-> NoDiagram]
    /\ childStatus = [m \in ChildModels |-> "missing"]
    /\ definitions = [x \in ChildXmls |-> NoRow]
    /\ importer = [r \in Importers |-> NoImport]
    /\ clock = 1 /\ imports = 0
    /\ cached = NoIndex /\ call = NoCall
    /\ possible = {} /\ hidden = FALSE
    /\ putBack = {} /\ taken = {} /\ unsettled = {}

CallActivitiesNext ==
    \/ \E r \in Importers :
        \/ SaveDiagram(r) \/ StartChild(r)
        \/ StampImport(r) \/ CommitImport(r) \/ LoseImport(r)
    \/ SetChildStatus \/ DeleteChild
    \/ ReadSignature \/ LoadIndex \/ EndCall

CallActivitiesSpec == CallActivitiesInit /\ [][CallActivitiesNext]_childVars

Entries == [model : ChildModels, xml : CallingXmls,
            at : (1..MaxStamp) \X (1..MaxImports)]
CallActivitiesTypeOK ==
    /\ childDiagram \in [ChildModels -> ChildXmls \cup {NoDiagram}]
    /\ childStatus \in [ChildModels -> {"missing", "draft", "published"}]
    /\ \A x \in ChildXmls : definitions[x] = NoRow \/ definitions[x].model \in ChildModels
    /\ \A r \in Importers : importer[r].pc \in {"idle", "importing", "stamped"}
    /\ clock \in 1..MaxStamp /\ imports \in 0..MaxImports
    /\ \A e \in cached.index \cup call.index \cup UNION possible : e \in Entries
    /\ call.pc \in {"idle", "signed", "indexed"}
    /\ hidden \in BOOLEAN
    /\ putBack \cup taken \cup unsettled \subseteq ChildModels

(***************************************************************************)
(* Properties                                                              *)
(***************************************************************************)

\* A call finds what was stored at some moment since it began, however long the cache is
\* kept and whoever loads it: unless an update was committed out of the order of its stamps
\* or within one tick of another.  What it finds for a model is the diagram on the model's
\* page, unless the model was put back to an earlier diagram, lost the process or was
\* deleted, or another model has imported the same diagram since; and one published model
\* with the process, where no such model is, is what is called.
CallsFindTheChild ==
    /\ call.pc = "indexed" /\ ~hidden => call.index \in possible
    /\ LET disturbed == putBack \cup taken \cup unsettled
           index == IndexOf(definitions)
           shown == {m \in ChildModels :
                        StatusOf(m) = "published" /\ childDiagram[m] \in CallingXmls}
           idle(m) == \A r \in Importers : importer[r].model # m
       IN  /\ \A e \in MatchesByModel(index) :
                idle(e.model) => e.model \in disturbed \/ childDiagram[e.model] = e.xml
           /\ \A m \in shown :
                shown = {m} /\ (\A n \in ChildModels : idle(n) /\ n \notin disturbed)
                => Resolve(index) = childDiagram[m]
=============================================================================
