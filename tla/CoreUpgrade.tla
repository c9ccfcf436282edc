---------------------------- MODULE CoreUpgrade ----------------------------
(***************************************************************************)
(* The migrations that take a database to the schema of m8flow-core 1.0.0  *)
(* (migrations/env.py; 1518b05122bc, b2c3d4e5f6a7, c3d4e5f6a7b8,           *)
(* d4e5f6a7b8c9, c4d5e6f7a8b9, d6e7f8a9b0c1, d1e2f3a4b5c6).  A database is *)
(* what it holds at each place, a table or a column, as pairs of a row and *)
(* a value.  The writers are stopped, a backup is taken, the chain runs.   *)
(* PostgreSQL rolls a failed chain back; MySQL keeps what was done and the *)
(* operator restores the backup (docs/how-to/upgrade.md).                  *)
(***************************************************************************)
EXTENDS Integers, FiniteSets, Sequences, Overlays

CONSTANTS
    Rows,           \* rows of a table
    MaxRepairs,     \* bound: corrections of refused data by the operator
    MaxWrites       \* bound: changes of tasks between two upgrades

ASSUME CoreUpgradeAssumption == IsFiniteSet(Rows) /\ MaxRepairs \in Nat /\ MaxWrites \in Nat

VARIABLES
    database,       \* applied migrations, the places that exist, what they hold
    backup,         \* the database when the writers were stopped last
    transactional,  \* the dialect rolls schema changes back
    step,           \* position in Upgrade, 0 when the chain is not running
    goal,           \* the last migration of the release being installed
    halfDone,       \* the chain failed where nothing rolls it back
    refused,        \* it found data that it cannot convert
    repairs, writes,
    truth           \* history: what was recorded, by its place in the oldest schema

upgradeVars ==
    <<database, backup, transactional, step, goal, halfDone, refused, repairs, writes,
      truth>>

(***************************************************************************)
(* Places and what they hold                                               *)
(***************************************************************************)

\* Epoch columns of host tables, core tables and events, and the native ones that replace them
HostStamp == <<"host_epoch", "host_native">>
CoreStamp == <<"core_epoch", "core_native">>
EventStamp == <<"event_timestamp", "event_occurred_at">>
TIMESTAMP_COLUMNS == {HostStamp, CoreStamp, EventStamp}

\* The values of the oldest schema
Contents ==
    [p \in {"host_epoch", "core_epoch", "event_timestamp"} |-> {"t"}] ++
    [p \in {"single_process_hash", "full_process_model_hash"} |-> {"d", "e"}] ++
    [human_task |-> {"open", "done"}, human_task_user |-> {"lane", "manual"},
     payload_reference |-> {"tenant", "unknown"}, json_data |-> {"data"},
     uri |-> {"blank", "a", "b"}, event_type |-> {"task_completed", "process_x", "other"},
     group |-> {"rbac", "lane"}, tenant_specific_field |-> {"realm"},
     alembic_version |-> {"core_head", "host_head"}, core_marker |-> {"core_head", "earlier"}]

\* Where the chain takes what an old place holds
SuccessorOf ==
    [p \in {"single_process_hash", "full_process_model_hash"} |-> "process_xml_digest"] ++
    [p \in {"payload_reference", "json_data"} |-> "tenant_json_data"] ++
    [p \in {"alembic_version", "core_marker"} |-> "core_marker"] ++
    [c \in {pair[1] : pair \in TIMESTAMP_COLUMNS} |->
        (CHOOSE pair \in TIMESTAMP_COLUMNS : pair[1] = c)[2]] ++
    [human_task |-> "work_item", human_task_user |-> "work_item_user", uri |-> "resource_pair",
     event_type |-> "event_category", group |-> "authorization_key",
     tenant_specific_field |-> "realm_identifier"]

OldTables == {"human_task", "human_task_user", "group"}
NewTables == {"work_item", "work_item_user", "m8f_group", "core_marker"}
NewColumns == {"host_native", "core_native", "event_occurred_at", "event_category",
               "tenant_json_data", "authorization_key", "resource_pair",
               "process_xml_digest", "realm_identifier"}
OldColumns == DOMAIN Contents \ (OldTables \cup {"core_marker"})
Kept == {"event_type", "payload_reference"}     \* columns no migration drops
Places == OldTables \cup NewTables \cup NewColumns \cup OldColumns

\* A database is a function from the places that exist to the facts they hold.
Has(d, p) == p \in DOMAIN d.data
At(d, p) == IF Has(d, p) THEN d.data[p] ELSE {}
RowsOf(facts) == {f[1] : f \in facts}
OneEach(facts) == \A f, g \in facts : f[1] = g[1] => f = g
Distinct(facts) == \A f, g \in facts : f[2] = g[2] => f = g

Put(d, p, facts) == [d EXCEPT !.data = Single(p, facts) ++ @]
Add(d, P) == [d EXCEPT !.data = @ ++ [p \in P |-> {}]]
Drop(d, P) == [d EXCEPT !.data = [p \in DOMAIN @ \ P |-> @[p]]]
\* Rows that have no value yet take the one given.
Fill(d, p, facts) == Put(d, p, At(d, p) \cup {f \in facts : f[1] \notin RowsOf(At(d, p))})
Rename(d, old, new) ==
    IF Has(d, old) /\ ~Has(d, new) THEN Drop(Put(d, new, At(d, old)), {old}) ELSE d

Category(type) == IF type = "task_completed" THEN "task" ELSE "process"
Categories(d) == {<<f[1], Category(f[2])>> : f \in At(d, "event_type")}
AuthorizationKeys(groups) ==
    {<<f[1], IF f[2] = "rbac" THEN <<"identifier">> ELSE <<"lane", f[1]>> >> : f \in groups}
\* The full hash, or the single one where it is missing
CanonicalDigests(d) ==
    At(Fill(d, "full_process_model_hash", At(d, "single_process_hash")), "full_process_model_hash")

(***************************************************************************)
(* The chain                                                               *)
(***************************************************************************)

Upgrade == <<
    <<1, "createTables">>,
    <<2, "timestamps">>, <<2, "workItem">>, <<2, "category">>, <<2, "json">>, <<2, "authorization">>,
    <<3, "hostColumns">>,
    <<4, "coreColumns">>,
    <<5, "handoff">>, <<5, "digests">>, <<5, "workItems">>, <<5, "assignments">>,
    <<5, "targets">>, <<5, "events">>, <<5, "names">>, <<5, "cleanup">>,
    <<6, "marker">>,
    <<7, "uniqueEvents">> >>
Latest == 7
Retired == -1       \* stamped by the chain that the root replaced
Releases == {4, Latest}     \* 1.0.x and 2.0

ChainRuns == step # 0
AtStep(name) == ChainRuns /\ Upgrade[step][2] = name
FirstStep(applied) == CHOOSE i \in DOMAIN Upgrade :
    /\ Upgrade[i][1] = applied + 1
    /\ \A j \in 1..(i - 1) : Upgrade[j][1] <= applied

UpgradeTypeOK ==
    /\ \A d \in {database, backup} :
        /\ d.applied \in Retired..Latest
        /\ DOMAIN d.data \subseteq Places /\ \A p \in DOMAIN d.data : IsFiniteSet(d.data[p])
    /\ {transactional, halfDone, refused} \subseteq BOOLEAN
    /\ step \in 0..Len(Upgrade) /\ goal \in Releases
    /\ repairs \in 0..MaxRepairs /\ writes \in 0..MaxWrites

\* Data that a deployment may have gathered in one part of the schema
Odd == {{"human_task", "human_task_user"}, {"payload_reference", "json_data"}, {"uri"},
        {"event_type", "event_timestamp"}, {"group"},
        {"single_process_hash", "full_process_model_hash"}, {"alembic_version", "core_marker"}}
VersionTables == {"alembic_version", "core_marker"}
Plain(p) == IF p \in VersionTables \cup {"uri", "single_process_hash", "full_process_model_hash"} THEN {}
            ELSE Rows \X {CHOOSE v \in Contents[p] : v \notin {"rbac", "unknown", "task_completed", "other"}}
Gathered(p) ==
    IF p \in VersionTables THEN SUBSET {<<v, v>> : v \in Contents[p]}
    ELSE {facts \in SUBSET (Rows \X Contents[p]) :
            p \in {"human_task_user", "payload_reference"} \/ OneEach(facts)}

OldSchema(applied, part, odd) ==
    [applied |-> applied,
     data |-> [p \in OldTables \cup OldColumns \cup (part \cap {"core_marker"}) |->
                IF p \in part THEN odd[p] ELSE Plain(p)]]

\* A database of the oldest schema, of the retired chain, or an empty one
UpgradeInit ==
    /\ \/ \E part \in Odd, applied \in {1, Retired} :
            \E odd \in [part -> UNION {Gathered(p) : p \in part}] :
                /\ \A p \in part : odd[p] \in Gathered(p)
                /\ database = OldSchema(applied, part, odd)
       \/ database = [applied |-> 0, data |-> <<>>]
    /\ backup = database
    /\ transactional \in BOOLEAN
    /\ step = 0 /\ goal = Latest /\ halfDone = FALSE /\ refused = FALSE
    /\ repairs = 0 /\ writes = 0
    /\ truth = [p \in DOMAIN Contents |-> At(database, p)]

\* The writers are stopped and a release is started: a stamp no script has is cleared first.
StartUpgrade(release) ==
    /\ ~ChainRuns /\ ~halfDone /\ release > database.applied
    /\ database.applied < 1 => release = Latest
    /\ LET known == [database EXCEPT !.applied = IF @ = Retired THEN 0 ELSE @] IN
        /\ backup' = database /\ database' = known
        /\ goal' = release
        /\ step' = FirstStep(known.applied)
    /\ refused' = FALSE
    /\ UNCHANGED <<transactional, halfDone, repairs, writes, truth>>

\* A step is done; the last one of a migration stamps it, the last one of all commits.
StepDone(d) ==
    LET last == step = Len(Upgrade) \/ Upgrade[step + 1][1] # Upgrade[step][1]
        applied == IF last THEN Upgrade[step][1] ELSE d.applied
    IN  /\ database' = [d EXCEPT !.applied = applied]
        /\ IF applied = goal THEN step' = 0 /\ backup' = database'
           ELSE step' = step + 1 /\ backup' = backup
        /\ UNCHANGED <<transactional, goal, halfDone, refused, repairs, writes, truth>>

\* The chain stops before its end.
AbortChain ==
    /\ step' = 0
    /\ IF transactional THEN database' = backup /\ halfDone' = FALSE
       ELSE database' = database /\ halfDone' = TRUE
    /\ UNCHANGED <<backup, transactional, goal, repairs, writes, truth>>

Unless(bad, d) == IF bad THEN AbortChain /\ refused' = TRUE ELSE StepDone(d)

\* The process dies, or the database is lost.
UpgradeDies == ChainRuns /\ AbortChain /\ refused' = FALSE

RestoreBackup ==
    /\ halfDone
    /\ database' = backup /\ halfDone' = FALSE
    /\ UNCHANGED <<backup, transactional, step, goal, refused, repairs, writes, truth>>

(***************************************************************************)
(* 1518b05122bc, b2c3d4e5f6a7: what the releases before 2.0 install        *)
(***************************************************************************)

\* create_all builds the tables that are missing, in their present form.
CreateTables ==
    /\ AtStep("createTables")
    /\ LET tables == IF DOMAIN database.data = {} THEN NewTables \cup NewColumns \cup Kept ELSE NewTables
           built == Add(database, tables)
       IN  StepDone(IF Has(database, "core_marker") THEN built
                   ELSE Put(built, "core_marker", {<<"core_head", "core_head">>}))

\* An older form of this migration passed over the host tables.
AddTimestampColumns ==
    /\ AtStep("timestamps")
    /\ \E older \in BOOLEAN :
        /\ older => goal # Latest
        /\ LET filled(d, pair) == IF Has(d, pair[1]) THEN Fill(d, pair[2], At(d, pair[1])) ELSE d
               core == filled(filled(database, CoreStamp), EventStamp)
           IN  StepDone(IF older THEN core ELSE filled(core, HostStamp))

CreateWorkItem ==
    /\ AtStep("workItem")
    /\ StepDone(IF Has(database, "human_task") /\ ~Has(database, "work_item")
               THEN Put(database, "work_item", At(database, "human_task")) ELSE database)

EventCategory ==
    /\ AtStep("category")
    /\ StepDone(Fill(database, "event_category", Categories(database)))

\* A copy of each payload for each tenant that refers to it
TenantScopeJsonData ==
    /\ AtStep("json")
    /\ LET references == At(database, "payload_reference")
           unscoped == Has(database, "json_data") /\ ~Has(database, "tenant_json_data")
       IN  Unless(unscoped /\ \E f \in references :
                    f[2] = "unknown" \/ f[1] \notin RowsOf(At(database, "json_data")),
                  IF unscoped THEN Drop(Put(database, "tenant_json_data", references), {"json_data"})
                  ELSE database)

AuthorizationSchema ==
    /\ AtStep("authorization")
    /\ LET groups == At(database, "group")
           rbac == {f \in groups : f[2] = "rbac" /\ f[1] \notin RowsOf(At(database, "authorization_key"))}
           keyed == IF Has(database, "group") THEN Fill(database, "authorization_key", AuthorizationKeys(groups))
                    ELSE database
       IN  Unless(\/ Cardinality(rbac) > 1
                  \/ transactional /\ ~Distinct(At(database, "uri")),
                  Add(keyed, {"resource_pair"}))

(***************************************************************************)
(* c3d4e5f6a7b8, d4e5f6a7b8c9                                              *)
(***************************************************************************)

\* (mutant of RemoveHostEpochColumns: every native column is there)
DropHostEpochColumns == AtStep("hostColumns") /\ StepDone(Drop(database, {"host_epoch"}))
RemoveHostEpochColumns ==
    /\ AtStep("hostColumns")
    /\ LET epochs == At(database, "host_epoch")
           repaired == IF Has(database, "host_epoch") /\ ~Has(database, "host_native")
                       THEN Put(database, "host_native", epochs) ELSE database
       IN  StepDone(Drop(repaired, {"host_epoch"}))

RemoveCoreEpochColumns ==
    /\ AtStep("coreColumns")
    /\ StepDone(Drop(database, {"core_epoch", "event_timestamp"}))

(***************************************************************************)
(* c4d5e6f7a8b9, the breaking contract of 2.0                              *)
(***************************************************************************)

VersionsAt(p) == {f[2] : f \in At(database, p)}
MixedVersions == "core_head" \in VersionsAt("alembic_version")
                 /\ VersionsAt("alembic_version") # {"core_head"}
WithCoreHead(d) == IF "core_head" \in {f[2] : f \in At(d, "core_marker")} THEN d
                   ELSE Put(d, "core_marker", At(d, "core_marker") \cup {<<"core_head", "core_head">>})

\* A core marker must be the head; then the group table is renamed.
CompleteHandoff ==
    /\ AtStep("handoff")
    /\ Unless(\/ VersionsAt("core_marker") \notin {{}, {"core_head"}}
              \/ VersionsAt("core_marker") = {} /\ MixedVersions
              \/ Has(database, "group") /\ Has(database, "m8f_group"),
              Rename(database, "group", "m8f_group"))

\* The digests are checked and stay where they are: _migrate_process_digests has no caller.
ValidateProcessDigests ==
    /\ AtStep("digests")
    /\ Unless(~Has(database, "process_xml_digest") /\ ~Distinct(CanonicalDigests(database)), database)

\* Every human task has its work item, equal in every field.
Backfilled(tasks, items) == tasks \subseteq items

MigrateWorkItems ==
    /\ AtStep("workItems")
    /\ LET copied == IF Has(database, "human_task") /\ ~Has(database, "work_item")
                     THEN Put(database, "work_item", At(database, "human_task")) ELSE database
       IN  Unless(~Backfilled(At(copied, "human_task"), At(copied, "work_item")), copied)

MigrateAssignments ==
    /\ AtStep("assignments")
    /\ LET assigned == At(database, "human_task_user")
       IN  Unless(\/ ~(RowsOf(assigned) \subseteq RowsOf(At(database, "work_item")))
                  \/ ~OneEach(assigned),
                  IF Has(database, "human_task_user") THEN Fill(database, "work_item_user", assigned)
                  ELSE database)

MigratePermissionTargets ==
    /\ AtStep("targets")
    /\ LET paired == Fill(database, "resource_pair", At(database, "uri"))
       IN  Unless(\/ \E f \in At(database, "uri") : f[2] = "blank"
                  \/ ~Distinct(At(paired, "resource_pair")),
                  Drop(paired, {"uri"}))

MigrateEvents ==
    /\ AtStep("events")
    /\ LET events == At(database, "event_type")
           dated == IF Has(database, "event_occurred_at") THEN database
                    ELSE Fill(database, "event_occurred_at", At(database, "event_timestamp"))
       IN  Unless(\/ \E f \in events : f[2] = "other"
                  \/ RowsOf(events) # RowsOf(At(dated, "event_occurred_at")),
                  Drop(Fill(dated, "event_category", Categories(dated)), {"event_timestamp"}))

EnforceIdentityAndNames ==
    /\ AtStep("names")
    /\ StepDone(Rename(database, "tenant_specific_field", "realm_identifier"))

DropLegacy ==
    /\ AtStep("cleanup")
    /\ StepDone(WithCoreHead(Drop(database, {"core_epoch", "human_task_user", "human_task"})))

(***************************************************************************)
(* d6e7f8a9b0c1, d1e2f3a4b5c6                                              *)
(***************************************************************************)

IsolateCoreMarker == AtStep("marker") /\ Unless(MixedVersions, WithCoreHead(database))

\* The completion events of the model are those of one task.
UniqueCompletionEvents ==
    /\ AtStep("uniqueEvents")
    /\ Unless(Cardinality({f \in At(database, "event_type") : f[2] = "task_completed"}) > 1, database)

(***************************************************************************)
(* Between two upgrades                                                    *)
(***************************************************************************)

BetweenUpgrades == ~ChainRuns /\ ~halfDone /\ database.applied < Latest

\* The installed release works on a task; it may keep the work item in step.
WorkOnTask(r, v) ==
    /\ BetweenUpgrades /\ writes < MaxWrites
    /\ Has(database, "human_task") /\ database.applied > 1
    /\ LET tasks == {f \in At(database, "human_task") : f[1] # r} \cup {<<r, v>>}
       IN  /\ \/ database' = Put(database, "human_task", tasks)
              \/ database' = Put(Put(database, "human_task", tasks), "work_item", tasks)
           /\ truth' = [truth EXCEPT !.human_task = tasks]
    /\ writes' = writes + 1
    /\ backup' = database'
    /\ UNCHANGED <<transactional, step, goal, halfDone, refused, repairs>>

Repair(d, p) ==
    /\ BetweenUpgrades /\ refused /\ repairs < MaxRepairs
    /\ database' = d /\ backup' = d
    /\ truth' = IF p = "none" THEN truth ELSE [truth EXCEPT ![p] = At(d, p)]
    /\ repairs' = repairs + 1
    /\ UNCHANGED <<transactional, step, goal, halfDone, refused, writes>>

\* The operator corrects a value that nothing was derived from yet,
CorrectValue(p, f, v) ==
    /\ f \in At(database, p) /\ ~Has(database, SuccessorOf[p])
    /\ Repair(Put(database, p, (At(database, p) \ {f}) \cup {<<f[1], v>>}), p)

\* removes one with what was derived from it,
RemoveValue(p, f) ==
    /\ f \in At(database, p)
    /\ LET without == Put(database, p, At(database, p) \ {f})
           derived == SuccessorOf[p]
       IN  Repair(IF Has(without, derived)
                  THEN Put(without, derived, {g \in At(without, derived) : g[1] # f[1]})
                  ELSE without, p)

\* or brings the work items up to date.
ResyncWorkItems ==
    /\ Has(database, "work_item") /\ Has(database, "human_task")
    /\ Repair(Put(database, "work_item", At(database, "human_task")), "none")

CoreUpgradeNext ==
    \/ \E release \in Releases : StartUpgrade(release)
    \/ CreateTables
    \/ AddTimestampColumns \/ CreateWorkItem \/ EventCategory \/ TenantScopeJsonData
    \/ AuthorizationSchema
    \/ RemoveHostEpochColumns \/ RemoveCoreEpochColumns
    \/ CompleteHandoff \/ ValidateProcessDigests \/ MigrateWorkItems \/ MigrateAssignments
    \/ MigratePermissionTargets \/ MigrateEvents \/ EnforceIdentityAndNames \/ DropLegacy
    \/ IsolateCoreMarker \/ UniqueCompletionEvents
    \/ UpgradeDies \/ RestoreBackup
    \/ \E r \in Rows, v \in Contents["human_task"] : WorkOnTask(r, v)
    \/ \E p \in DOMAIN Contents : \E f \in At(database, p) :
        RemoveValue(p, f) \/ \E v \in Contents[p] : CorrectValue(p, f, v)
    \/ ResyncWorkItems

CoreUpgradeSpec == UpgradeInit /\ [][CoreUpgradeNext]_upgradeVars

(***************************************************************************)
(* Properties                                                              *)
(***************************************************************************)

Upgraded == ~ChainRuns /\ database.applied = Latest

\* At every moment what the application and the operator recorded is at its old place or, where
\* that is gone, at the new one, and after the chain at the new one; whatever was refused, rolled
\* back or restored on the way, and however stale the work items were ("Verify the normalized
\* rows preserve every legacy approval-chain row", c4d5e6f7a8b9).
NothingLost ==
    /\ \A p \in {"human_task", "human_task_user", "uri", "tenant_specific_field",
                 "host_epoch", "core_epoch", "event_timestamp"} :
        /\ Has(database, p) => At(database, p) = truth[p]
        /\ ~Has(database, p) \/ Upgraded => At(database, SuccessorOf[p]) = truth[p]
    /\ Upgraded =>
        /\ At(database, "event_category") = {<<f[1], Category(f[2])>> : f \in truth["event_type"]}
        /\ At(database, "tenant_json_data") = truth["payload_reference"]
        /\ RowsOf(At(database, "authorization_key")) = RowsOf(truth["group"])
        /\ Distinct(At(database, "authorization_key"))

\* An upgraded database has the digest by which the program finds an imported definition
\* (workflow/__init__.py:2996), and no longer "the old digest ... columns" (upgrade.md).
DigestsAreMigrated == Upgraded =>
    /\ Has(database, "process_xml_digest")
    /\ ~Has(database, "full_process_model_hash")
=============================================================================
