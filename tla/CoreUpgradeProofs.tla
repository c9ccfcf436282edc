------------------------- MODULE CoreUpgradeProofs --------------------------
(***************************************************************************)
(* TLAPS proofs about CoreUpgrade: no migration of the chain loses what a  *)
(* place of the database records, for any finite set of rows, any number   *)
(* of repairs by the operator and of writes by the application, where a    *)
(* failed migration rolls back and where it does not.                      *)
(*                                                                         *)
(* The invariant says, for each step of the chain, which places a database *)
(* at that step has, and that what was recorded is at one of them; the     *)
(* backup is always a database between two steps.                          *)
(***************************************************************************)
EXTENDS CoreUpgrade, FiniteSetTheorems, TLAPS

USE CoreUpgradeAssumption

(***************************************************************************)
(* The invariant                                                           *)
(***************************************************************************)
IsDatabase(d) ==
    /\ d = [applied |-> d.applied, data |-> d.data]
    /\ d.data = [p \in DOMAIN d.data |-> d.data[p]]

\* What was recorded, t, is at its place or where that went.
RecordedAt(t, d, old, new) == At(d, IF Has(d, old) THEN old ELSE new) = t[old]
Recorded(t, d) ==
    /\ RecordedAt(t, d, "human_task", "work_item")
    /\ RecordedAt(t, d, "human_task_user", "work_item_user")
    /\ RecordedAt(t, d, "uri", "resource_pair")
    /\ RecordedAt(t, d, "tenant_specific_field", "realm_identifier")
    /\ RecordedAt(t, d, "host_epoch", "host_native")
    /\ RecordedAt(t, d, "core_epoch", "core_native")
    /\ RecordedAt(t, d, "event_timestamp", "event_occurred_at")

\* What is where, when the chain has come to the step k
StampEqual(d, old, new) == Has(d, old) /\ Has(d, new) => At(d, new) = At(d, old)
StampAt(d, old, new, made, gone) ==
    /\ StampEqual(d, old, new)
    /\ made /\ Has(d, old) => Has(d, new)
    /\ gone => ~Has(d, old)
StampsAt(d, k) ==
    /\ StampAt(d, "host_epoch", "host_native", FALSE, k > 7)
    /\ StampAt(d, "core_epoch", "core_native", k > 2, k > 8)
    /\ StampAt(d, "event_timestamp", "event_occurred_at", k > 2, k > 8)
TasksAt(d, k) ==
    /\ Has(d, "human_task") /\ Has(d, "work_item") =>
        /\ OneEach(At(d, "work_item"))
        /\ RowsOf(At(d, "work_item")) \subseteq RowsOf(At(d, "human_task"))
    /\ Has(d, "human_task") /\ k > 11 => At(d, "work_item") = At(d, "human_task")
    /\ Has(d, "human_task_user") =>
        At(d, "work_item_user") = IF k > 12 THEN At(d, "human_task_user") ELSE {}
    /\ k > 16 => ~Has(d, "human_task") /\ ~Has(d, "human_task_user")
NamesAt(d, k) ==
    /\ Has(d, "uri") => At(d, "resource_pair") = {}
    /\ k > 13 => ~Has(d, "uri")
    /\ Has(d, "tenant_specific_field") => ~Has(d, "realm_identifier")
    /\ k > 15 => ~Has(d, "tenant_specific_field")
EventsAt(t, d, k) ==
    /\ At(d, "event_type") = t["event_type"]
    /\ At(d, "event_category") = IF k > 4 THEN Categories(d) ELSE {}
PayloadsAt(t, d, k) ==
    /\ At(d, "payload_reference") = t["payload_reference"]
    /\ IF Has(d, "json_data") THEN k <= 5 /\ ~Has(d, "tenant_json_data")
       ELSE /\ At(d, "tenant_json_data") = t["payload_reference"]
            /\ OneEach(t["payload_reference"])
GroupsAt(t, d, k) ==
    /\ IF Has(d, "group") THEN At(d, "group") = t["group"] ELSE k > 9 \/ t["group"] = {}
    /\ IF k > 6 THEN /\ RowsOf(At(d, "authorization_key")) = RowsOf(t["group"])
                     /\ Distinct(At(d, "authorization_key"))
       ELSE At(d, "authorization_key") = {}
DatabaseAt(t, d, k) ==
    /\ IsDatabase(d) /\ Recorded(t, d)
    /\ StampsAt(d, k) /\ TasksAt(d, k) /\ NamesAt(d, k)
    /\ EventsAt(t, d, k) /\ PayloadsAt(t, d, k) /\ GroupsAt(t, d, k)

\* The step that comes next where a release is installed, or none
NextStep(applied) ==
    IF applied = Latest THEN 19 ELSE IF applied = 4 THEN 9 ELSE IF applied = 1 THEN 2 ELSE 1
Settled(t, d) ==
    d.applied \in {Retired, 0, 1, 4, Latest} /\ DatabaseAt(t, d, NextStep(d.applied))

\* Places where a row has one value
OneValued == {"human_task", "event_type", "group", "host_epoch", "core_epoch", "event_timestamp"}
TruthOK(t) ==
    /\ t = [p \in DOMAIN Contents |-> t[p]]
    /\ \A p \in OneValued : OneEach(t[p])
    /\ IsFiniteSet(t["group"])
    /\ t["payload_reference"] \in SUBSET (Rows \X {"tenant", "unknown"})

UpgradeIInv ==
    /\ TruthOK(truth)
    /\ Settled(truth, backup)
    /\ step \in 0..18 /\ transactional \in BOOLEAN /\ halfDone \in BOOLEAN
    /\ ~ChainRuns /\ ~halfDone => database = backup
    /\ ChainRuns =>
        /\ ~halfDone /\ database.applied = Upgrade[step][1] - 1
        /\ goal = Latest \/ (goal = 4 /\ step < 9)
        /\ DatabaseAt(truth, database, step)
    /\ halfDone => ~ChainRuns /\ database.applied < Latest /\ Recorded(truth, database)

(***************************************************************************)
(* What the operations of a migration leave                                *)
(***************************************************************************)
LEMMA PutIs ==
    ASSUME NEW d, IsDatabase(d), NEW p, NEW facts, NEW e, e = Put(d, p, facts)
    PROVE  /\ IsDatabase(e) /\ e.applied = d.applied
           /\ \A q : /\ Has(e, q) <=> q = p \/ Has(d, q)
                     /\ At(e, q) = IF q = p THEN facts ELSE At(d, q)
<1>1. e = [applied |-> d.applied, data |-> Single(p, facts) ++ d.data]
    BY DEF Put, IsDatabase
<1>2. PICK data : data = Single(p, facts) ++ d.data
    OBVIOUS
<1>3. /\ DOMAIN data = {p} \cup DOMAIN d.data
      /\ data = [q \in DOMAIN data |-> data[q]]
      /\ \A q \in DOMAIN data : data[q] = IF q = p THEN facts ELSE d.data[q]
    BY <1>2 DEF ++, Single
<1>4. e.data = data /\ e.applied = d.applied
    BY <1>1, <1>2
<1> QED BY <1>1, <1>3, <1>4 DEF IsDatabase, Has, At

LEMMA AddIs ==
    ASSUME NEW d, IsDatabase(d), NEW P, NEW e, e = Add(d, P)
    PROVE  /\ IsDatabase(e) /\ e.applied = d.applied
           /\ \A q : (Has(e, q) <=> q \in P \/ Has(d, q)) /\ At(e, q) = At(d, q)
<1>1. e = [applied |-> d.applied, data |-> d.data ++ [q \in P |-> {}]]
    BY DEF Add, IsDatabase
<1>2. PICK data : data = d.data ++ [q \in P |-> {}]
    OBVIOUS
<1>3. /\ DOMAIN data = P \cup DOMAIN d.data
      /\ data = [q \in DOMAIN data |-> data[q]]
      /\ \A q \in DOMAIN data : data[q] = IF q \in DOMAIN d.data THEN d.data[q] ELSE {}
    BY <1>2 DEF ++
<1>4. e.data = data /\ e.applied = d.applied
    BY <1>1, <1>2
<1> QED BY <1>1, <1>3, <1>4 DEF IsDatabase, Has, At

LEMMA DropIs ==
    ASSUME NEW d, IsDatabase(d), NEW P, NEW e, e = Drop(d, P)
    PROVE  /\ IsDatabase(e) /\ e.applied = d.applied
           /\ \A q : /\ Has(e, q) <=> q \notin P /\ Has(d, q)
                     /\ At(e, q) = IF q \in P THEN {} ELSE At(d, q)
<1>1. e = [applied |-> d.applied, data |-> [q \in DOMAIN d.data \ P |-> d.data[q]]]
    BY DEF Drop, IsDatabase
<1>2. PICK data : data = [q \in DOMAIN d.data \ P |-> d.data[q]]
    OBVIOUS
<1>3. /\ DOMAIN data = DOMAIN d.data \ P
      /\ data = [q \in DOMAIN data |-> data[q]]
      /\ \A q \in DOMAIN data : data[q] = d.data[q]
    BY <1>2
<1>4. e.data = data /\ e.applied = d.applied
    BY <1>1, <1>2
<1> QED BY <1>1, <1>3, <1>4 DEF IsDatabase, Has, At

\* What is filled: everything where nothing is, nothing where every row has a value
LEMMA FillIs ==
    ASSUME NEW d, IsDatabase(d), NEW p, NEW facts, NEW e, e = Fill(d, p, facts)
    PROVE  /\ IsDatabase(e) /\ e.applied = d.applied
           /\ \A q : Has(e, q) <=> q = p \/ Has(d, q)
           /\ \A q : q # p => At(e, q) = At(d, q)
           /\ At(d, p) = {} => At(e, p) = facts
           /\ RowsOf(facts) \subseteq RowsOf(At(d, p)) => At(e, p) = At(d, p)
<1>1. PICK filled : filled = At(d, p) \cup {f \in facts : f[1] \notin RowsOf(At(d, p))}
    OBVIOUS
<1>2. At(d, p) = {} => filled = facts
    BY <1>1 DEF RowsOf
<1>3. RowsOf(facts) \subseteq RowsOf(At(d, p)) => filled = At(d, p)
    BY <1>1 DEF RowsOf
<1>4. e = Put(d, p, filled)
    BY <1>1 DEF Fill
<1> QED BY <1>2, <1>3, <1>4, PutIs

(***************************************************************************)
(* The migrations, one by one                                              *)
(***************************************************************************)
Same(e, d, q) == (Has(e, q) <=> Has(d, q)) /\ At(e, q) = At(d, q)

LEMMA TablesCreated ==
    ASSUME NEW t, NEW d, DatabaseAt(t, d, 1), NEW built,
           built = Add(d, IF DOMAIN d.data = {} THEN NewTables \cup NewColumns \cup Kept ELSE NewTables),
           NEW e, e = IF Has(d, "core_marker") THEN built
                      ELSE Put(built, "core_marker", {<<"core_head", "core_head">>})
    PROVE  e.applied = d.applied /\ DatabaseAt(t, e, 2)
<1>1. PICK P : /\ P = IF DOMAIN d.data = {} THEN NewTables \cup NewColumns \cup Kept ELSE NewTables
               /\ built = Add(d, P)
    OBVIOUS
<1>2. /\ IsDatabase(built) /\ built.applied = d.applied
      /\ \A q : (Has(built, q) <=> q \in P \/ Has(d, q)) /\ At(built, q) = At(d, q)
    BY <1>1, AddIs DEF DatabaseAt
<1>3. /\ IsDatabase(e) /\ e.applied = d.applied
      /\ \A q : q # "core_marker" => /\ Has(e, q) <=> q \in P \/ Has(d, q)
                                     /\ At(e, q) = At(d, q)
    <2>1. CASE Has(d, "core_marker")
        BY <1>2, <2>1
    <2>2. CASE ~Has(d, "core_marker")
        <3>1. PICK facts : e = Put(built, "core_marker", facts)
            BY <2>2
        <3>2. /\ IsDatabase(e) /\ e.applied = built.applied
              /\ \A q : /\ Has(e, q) <=> q = "core_marker" \/ Has(built, q)
                        /\ q # "core_marker" => At(e, q) = At(built, q)
            BY ONLY <1>2, <3>1, PutIs
        <3> QED BY <1>2, <3>2
    <2> QED BY <2>1, <2>2
<1>4. /\ \A q : q \notin NewTables \cup NewColumns \cup Kept => Same(e, d, q)
      /\ P # NewTables => \A q : ~Has(d, q)
      /\ P = NewTables => \A q : q \notin NewTables => Same(e, d, q)
      /\ \A q : q # "core_marker" => At(e, q) = At(d, q)
      /\ \A q : Has(d, q) /\ q # "core_marker" => Has(e, q)
    BY <1>1, <1>3 DEF Kept, Has, Same, NewTables
<1>5. /\ Same(e, d, "human_task") /\ Same(e, d, "human_task_user") /\ Same(e, d, "uri")
      /\ Same(e, d, "tenant_specific_field") /\ Same(e, d, "host_epoch") /\ Same(e, d, "core_epoch")
      /\ Same(e, d, "event_timestamp") /\ Same(e, d, "json_data") /\ Same(e, d, "group")
      /\ \/ \A q : ~Has(d, q)
         \/ /\ Same(e, d, "host_native") /\ Same(e, d, "core_native")
            /\ Same(e, d, "event_occurred_at") /\ Same(e, d, "realm_identifier")
            /\ Same(e, d, "tenant_json_data")
      /\ At(e, "work_item") = At(d, "work_item") /\ At(e, "work_item_user") = At(d, "work_item_user")
      /\ At(e, "resource_pair") = At(d, "resource_pair") /\ At(e, "event_type") = At(d, "event_type")
      /\ At(e, "event_category") = At(d, "event_category")
      /\ At(e, "payload_reference") = At(d, "payload_reference")
      /\ At(e, "authorization_key") = At(d, "authorization_key")
      /\ At(e, "realm_identifier") = At(d, "realm_identifier")
      /\ At(e, "host_native") = At(d, "host_native") /\ At(e, "core_native") = At(d, "core_native")
      /\ At(e, "event_occurred_at") = At(d, "event_occurred_at")
      /\ At(e, "tenant_json_data") = At(d, "tenant_json_data")
    BY <1>4 DEF NewTables, NewColumns, Kept
<1>6. ~Has(d, "work_item") => At(d, "work_item") = {}
    BY DEF At
<1>7. Recorded(t, e)
    BY <1>5 DEF DatabaseAt, Recorded, RecordedAt, Same
<1>8. StampsAt(e, 2)
    BY <1>5 DEF DatabaseAt, StampsAt, StampAt, StampEqual, Same
<1>9. TasksAt(e, 2)
    <2>1. PICK tasks, items : tasks = At(d, "human_task") /\ items = At(d, "work_item")
        OBVIOUS
    <2>2. items = {} => OneEach(items) /\ RowsOf(items) \subseteq RowsOf(tasks)
        BY DEF OneEach, RowsOf
    <2>3. TasksAt(d, 1)
        BY DEF DatabaseAt
    <2>4. Has(e, "human_task") => OneEach(items) /\ RowsOf(items) \subseteq RowsOf(tasks)
        BY <1>5, <1>6, <2>1, <2>2, <2>3 DEF TasksAt, Same
    <2>5. Has(e, "human_task_user") => At(e, "work_item_user") = {}
        BY <1>5, <2>3 DEF TasksAt, Same
    <2>6. At(e, "human_task") = tasks /\ At(e, "work_item") = items
        BY <1>5, <2>1 DEF Same
    <2> QED BY ONLY <2>4, <2>5, <2>6 DEF TasksAt
<1>10. NamesAt(e, 2)
    BY <1>5 DEF DatabaseAt, NamesAt, Same
<1>11. EventsAt(t, e, 2)
    BY <1>5 DEF DatabaseAt, EventsAt, Categories
<1>12. PayloadsAt(t, e, 2)
    BY <1>5 DEF DatabaseAt, PayloadsAt, Same
<1>13. GroupsAt(t, e, 2)
    BY <1>5 DEF DatabaseAt, GroupsAt, Same
<1> QED BY <1>3, <1>7, <1>8, <1>9, <1>10, <1>11, <1>12, <1>13 DEF DatabaseAt

\* A native column is made of the epoch column where there is one.
FilledStamp(d, old, new) == IF Has(d, old) THEN Fill(d, new, At(d, old)) ELSE d
LEMMA StampFilled ==
    ASSUME NEW d, IsDatabase(d), NEW old, NEW new, old # new, StampEqual(d, old, new),
           NEW e, e = FilledStamp(d, old, new)
    PROVE  /\ IsDatabase(e) /\ e.applied = d.applied
           /\ \A q : q # new => Same(e, d, q)
           /\ ~Has(d, old) => At(e, new) = At(d, new)
           /\ Has(d, old) => Has(e, new) /\ At(e, new) = At(d, old)
<1>1. CASE ~Has(d, old)
    BY <1>1 DEF FilledStamp, Same
<1>2. CASE Has(d, old)
    <2>1. e = Fill(d, new, At(d, old))
        BY <1>2 DEF FilledStamp
    <2>2. /\ IsDatabase(e) /\ e.applied = d.applied
          /\ \A q : (Has(e, q) <=> q = new \/ Has(d, q)) /\ (q # new => At(e, q) = At(d, q))
          /\ At(d, new) = {} => At(e, new) = At(d, old)
          /\ RowsOf(At(d, old)) \subseteq RowsOf(At(d, new)) => At(e, new) = At(d, new)
        BY <2>1, FillIs
    <2>3. ~Has(d, new) => At(d, new) = {}
        BY DEF At
    <2>4. Has(d, new) => At(d, new) = At(d, old)
        BY <1>2 DEF StampAt, StampEqual
    <2> QED BY <1>2, <2>2, <2>3, <2>4 DEF Same
<1> QED BY <1>1, <1>2

\* Parts of the schema that a step leaves alone
LEMMA StampsStay ==
    ASSUME NEW d, NEW e, NEW k, NEW l, StampsAt(d, k),
           (k > 7 <=> l > 7) /\ (k > 2 <=> l > 2) /\ (k > 8 <=> l > 8),
           Same(e, d, "host_epoch") /\ Same(e, d, "host_native") /\ Same(e, d, "core_epoch"),
           Same(e, d, "core_native") /\ Same(e, d, "event_timestamp"),
           Same(e, d, "event_occurred_at")
    PROVE  StampsAt(e, l)
BY DEF StampsAt, StampAt, StampEqual, Same

LEMMA TasksStay ==
    ASSUME NEW d, NEW e, NEW k, NEW l, TasksAt(d, k),
           (k > 11 <=> l > 11) /\ (k > 12 <=> l > 12) /\ (k > 16 <=> l > 16),
           Same(e, d, "human_task") /\ Same(e, d, "work_item"),
           Same(e, d, "human_task_user") /\ Same(e, d, "work_item_user")
    PROVE  TasksAt(e, l)
BY DEF TasksAt, Same

LEMMA NamesStay ==
    ASSUME NEW d, NEW e, NEW k, NEW l, NamesAt(d, k),
           (k > 13 <=> l > 13) /\ (k > 15 <=> l > 15),
           Same(e, d, "uri") /\ Same(e, d, "resource_pair"),
           Same(e, d, "tenant_specific_field") /\ Same(e, d, "realm_identifier")
    PROVE  NamesAt(e, l)
BY DEF NamesAt, Same

LEMMA EventsStay ==
    ASSUME NEW t, NEW d, NEW e, NEW k, NEW l, EventsAt(t, d, k), k > 4 <=> l > 4,
           Same(e, d, "event_type") /\ Same(e, d, "event_category")
    PROVE  EventsAt(t, e, l)
BY DEF EventsAt, Same, Categories

LEMMA PayloadsStay ==
    ASSUME NEW t, NEW d, NEW e, NEW k, NEW l, PayloadsAt(t, d, k), k <= 5 <=> l <= 5,
           Same(e, d, "payload_reference") /\ Same(e, d, "json_data"),
           Same(e, d, "tenant_json_data")
    PROVE  PayloadsAt(t, e, l)
BY DEF PayloadsAt, Same

LEMMA GroupsStay ==
    ASSUME NEW t, NEW d, NEW e, NEW k, NEW l, GroupsAt(t, d, k),
           (k > 9 <=> l > 9) /\ (k > 6 <=> l > 6),
           Same(e, d, "group") /\ Same(e, d, "authorization_key")
    PROVE  GroupsAt(t, e, l)
BY DEF GroupsAt, Same

LEMMA TimestampsAdded ==
    ASSUME NEW t, NEW d, DatabaseAt(t, d, 2),
           NEW c, c = FilledStamp(d, "core_epoch", "core_native"),
           NEW v, v = FilledStamp(c, "event_timestamp", "event_occurred_at"),
           NEW e, e = v \/ e = FilledStamp(v, "host_epoch", "host_native")
    PROVE  e.applied = d.applied /\ DatabaseAt(t, e, 3)
<1>1. IsDatabase(d) /\ StampsAt(d, 2)
    BY DEF DatabaseAt
<1>2. /\ StampEqual(d, "core_epoch", "core_native")
      /\ StampEqual(d, "event_timestamp", "event_occurred_at")
      /\ StampEqual(d, "host_epoch", "host_native")
    BY <1>1 DEF StampsAt, StampAt, StampEqual
<1>3. /\ IsDatabase(c) /\ c.applied = d.applied
      /\ \A q : q # "core_native" => Same(c, d, q)
      /\ ~Has(d, "core_epoch") => At(c, "core_native") = At(d, "core_native")
      /\ Has(d, "core_epoch") => Has(c, "core_native") /\ At(c, "core_native") = At(d, "core_epoch")
    <2>1. PICK old, new : old = "core_epoch" /\ new = "core_native"
        OBVIOUS
    <2>2. old # new /\ StampEqual(d, old, new) /\ c = FilledStamp(d, old, new)
        BY <1>2, <2>1
    <2>3. /\ IsDatabase(c) /\ c.applied = d.applied /\ \A q : q # new => Same(c, d, q)
          /\ ~Has(d, old) => At(c, new) = At(d, new)
          /\ Has(d, old) => Has(c, new) /\ At(c, new) = At(d, old)
        BY ONLY <1>1, <2>2, StampFilled
    <2> QED BY <2>1, <2>3
<1>4. StampEqual(c, "event_timestamp", "event_occurred_at")
    BY <1>2, <1>3 DEF StampAt, StampEqual, Same
<1>5. /\ IsDatabase(v) /\ v.applied = c.applied
      /\ \A q : q # "event_occurred_at" => Same(v, c, q)
      /\ ~Has(c, "event_timestamp") => At(v, "event_occurred_at") = At(c, "event_occurred_at")
      /\ Has(c, "event_timestamp") => /\ Has(v, "event_occurred_at")
                                      /\ At(v, "event_occurred_at") = At(c, "event_timestamp")
    <2>1. PICK old, new : old = "event_timestamp" /\ new = "event_occurred_at"
        OBVIOUS
    <2>2. old # new /\ StampEqual(c, old, new) /\ v = FilledStamp(c, old, new)
        BY <1>4, <2>1
    <2>3. /\ IsDatabase(v) /\ v.applied = c.applied /\ \A q : q # new => Same(v, c, q)
          /\ ~Has(c, old) => At(v, new) = At(c, new)
          /\ Has(c, old) => Has(v, new) /\ At(v, new) = At(c, old)
        BY ONLY <1>3, <2>2, StampFilled
    <2> QED BY <2>1, <2>3
<1>6. StampEqual(v, "host_epoch", "host_native")
    BY <1>2, <1>3, <1>5 DEF StampAt, StampEqual, Same
<1>7. /\ IsDatabase(e) /\ e.applied = v.applied
      /\ \A q : q # "host_native" => Same(e, v, q)
      /\ ~Has(v, "host_epoch") => At(e, "host_native") = At(v, "host_native")
      /\ Has(v, "host_epoch") /\ Has(e, "host_native") => At(e, "host_native") = At(v, "host_epoch")
    <2>1. CASE e = v
        BY <1>5, <1>6, <2>1 DEF StampAt, StampEqual, Same
    <2>2. CASE e = FilledStamp(v, "host_epoch", "host_native")
        <3>1. PICK old, new : old = "host_epoch" /\ new = "host_native"
            OBVIOUS
        <3>2. old # new /\ StampEqual(v, old, new) /\ e = FilledStamp(v, old, new)
            BY <1>6, <2>2, <3>1
        <3>3. /\ IsDatabase(e) /\ e.applied = v.applied /\ \A q : q # new => Same(e, v, q)
              /\ ~Has(v, old) => At(e, new) = At(v, new)
              /\ Has(v, old) => Has(e, new) /\ At(e, new) = At(v, old)
            BY ONLY <1>5, <3>2, StampFilled
        <3> QED BY <3>1, <3>3
    <2> QED BY <2>1, <2>2
<1>8. /\ \A q : q \notin {"host_native", "core_native", "event_occurred_at"} => Same(e, d, q)
      /\ Has(d, "core_epoch") => Has(e, "core_native") /\ At(e, "core_native") = At(d, "core_epoch")
      /\ ~Has(d, "core_epoch") => At(e, "core_native") = At(d, "core_native")
      /\ Has(d, "event_timestamp") =>
            Has(e, "event_occurred_at") /\ At(e, "event_occurred_at") = At(d, "event_timestamp")
      /\ ~Has(d, "event_timestamp") => At(e, "event_occurred_at") = At(d, "event_occurred_at")
      /\ Has(d, "host_epoch") /\ Has(e, "host_native") => At(e, "host_native") = At(d, "host_epoch")
      /\ ~Has(d, "host_epoch") => At(e, "host_native") = At(d, "host_native")
    <2>1. /\ \A q : q \notin {"host_native", "core_native", "event_occurred_at"} => Same(e, d, q)
          /\ Same(c, d, "event_timestamp") /\ Same(c, d, "event_occurred_at") /\ Same(v, c, "core_native")
          /\ Same(c, d, "host_epoch") /\ Same(v, c, "host_epoch") /\ Same(c, d, "host_native")
          /\ Same(v, c, "host_native") /\ Same(e, v, "core_native") /\ Same(e, v, "event_occurred_at")
        BY <1>3, <1>5, <1>7 DEF Same
    <2> QED BY <1>3, <1>5, <1>7, <2>1 DEF Same
<1>9. /\ Same(e, d, "human_task") /\ Same(e, d, "work_item") /\ Same(e, d, "human_task_user")
      /\ Same(e, d, "work_item_user") /\ Same(e, d, "uri") /\ Same(e, d, "resource_pair")
      /\ Same(e, d, "tenant_specific_field") /\ Same(e, d, "realm_identifier")
      /\ Same(e, d, "event_type") /\ Same(e, d, "event_category") /\ Same(e, d, "payload_reference")
      /\ Same(e, d, "json_data") /\ Same(e, d, "tenant_json_data") /\ Same(e, d, "group")
      /\ Same(e, d, "authorization_key") /\ Same(e, d, "host_epoch") /\ Same(e, d, "core_epoch")
      /\ Same(e, d, "event_timestamp")
    BY <1>8
<1>10. Recorded(t, e)
    BY <1>8, <1>9 DEF DatabaseAt, Recorded, RecordedAt, Same
<1>11. StampsAt(e, 3)
    BY <1>8, <1>9 DEF StampsAt, StampAt, StampEqual, Same
<1>12. TasksAt(e, 3)
    BY <1>9, TasksStay DEF DatabaseAt
<1>13. NamesAt(e, 3)
    BY <1>9, NamesStay DEF DatabaseAt
<1>14. EventsAt(t, e, 3)
    BY <1>9, EventsStay DEF DatabaseAt
<1>15. PayloadsAt(t, e, 3)
    BY <1>9, PayloadsStay DEF DatabaseAt
<1>16. GroupsAt(t, e, 3)
    BY <1>9, GroupsStay DEF DatabaseAt
<1>17. e.applied = d.applied
    BY <1>3, <1>5, <1>7
<1> QED BY <1>7, <1>10, <1>11, <1>12, <1>13, <1>14, <1>15, <1>16, <1>17 DEF DatabaseAt

\* A table is copied where its successor is missing, or renamed.
LEMMA WorkItemsCopied ==
    ASSUME NEW t, TruthOK(t), NEW d, NEW k \in 1..11, DatabaseAt(t, d, k),
           NEW e, e = IF Has(d, "human_task") /\ ~Has(d, "work_item")
                      THEN Put(d, "work_item", At(d, "human_task")) ELSE d
    PROVE  /\ e.applied = d.applied /\ DatabaseAt(t, e, k)
           /\ \A q : q # "work_item" => Same(e, d, q)
           /\ Has(e, "human_task") => Has(e, "work_item")
<1>1. CASE ~(Has(d, "human_task") /\ ~Has(d, "work_item"))
    BY <1>1 DEF Same
<1>2. CASE Has(d, "human_task") /\ ~Has(d, "work_item")
    <2>1. PICK tasks : tasks = At(d, "human_task") /\ e = Put(d, "work_item", tasks)
        BY <1>2
    <2>2. IsDatabase(d) /\ Recorded(t, d) /\ TasksAt(d, k)
        BY DEF DatabaseAt
    <2>3. /\ IsDatabase(e) /\ e.applied = d.applied
          /\ \A q : /\ Has(e, q) <=> q = "work_item" \/ Has(d, q)
                    /\ At(e, q) = IF q = "work_item" THEN tasks ELSE At(d, q)
        BY ONLY <2>1, <2>2, PutIs
    <2>4. /\ \A q : q # "work_item" => Same(e, d, q)
          /\ Has(e, "work_item") /\ At(e, "work_item") = tasks
        BY <2>3 DEF Same
    <2>5. Same(e, d, "human_task") /\ Same(e, d, "human_task_user") /\ Same(e, d, "work_item_user")
        BY <2>4
    <2>6. tasks = t["human_task"] /\ OneEach(tasks)
        BY <1>2, <2>1, <2>2 DEF Recorded, RecordedAt, TruthOK, OneValued
    <2>7. TasksAt(e, k)
        <3>1. At(e, "human_task") = tasks
            BY <2>1, <2>5 DEF Same
        <3> QED BY ONLY <2>2, <2>4, <2>5, <2>6, <3>1, k \in 1..11 DEF TasksAt, Same
    <2>8. /\ Same(e, d, "uri") /\ Same(e, d, "resource_pair") /\ Same(e, d, "tenant_specific_field")
          /\ Same(e, d, "realm_identifier") /\ Same(e, d, "host_epoch") /\ Same(e, d, "host_native")
          /\ Same(e, d, "core_epoch") /\ Same(e, d, "core_native") /\ Same(e, d, "event_timestamp")
          /\ Same(e, d, "event_occurred_at")
        BY <2>4
    <2>9. Recorded(t, e)
        BY <1>2, <2>2, <2>5, <2>8 DEF Recorded, RecordedAt, Same
    <2>10. StampsAt(e, k)
        BY <2>8, StampsStay DEF DatabaseAt
    <2>11. NamesAt(e, k)
        BY <2>8, NamesStay DEF DatabaseAt
    <2>12. EventsAt(t, e, k)
        BY <2>4, EventsStay DEF DatabaseAt
    <2>13. PayloadsAt(t, e, k)
        BY <2>4, PayloadsStay DEF DatabaseAt
    <2>14. GroupsAt(t, e, k)
        BY <2>4, GroupsStay DEF DatabaseAt
    <2> QED BY <2>3, <2>4, <2>7, <2>9, <2>10, <2>11, <2>12, <2>13, <2>14 DEF DatabaseAt
<1> QED BY <1>1, <1>2

LEMMA RenameIs ==
    ASSUME NEW d, IsDatabase(d), NEW old, NEW new, old # new, NEW e, e = Rename(d, old, new)
    PROVE  /\ IsDatabase(e) /\ e.applied = d.applied
           /\ \A q : q \notin {old, new} => Same(e, d, q)
           /\ IF Has(d, old) /\ ~Has(d, new) THEN ~Has(e, old) /\ At(e, new) = At(d, old)
              ELSE Same(e, d, old) /\ Same(e, d, new)
<1>1. CASE ~(Has(d, old) /\ ~Has(d, new))
    BY <1>1 DEF Rename, Same
<1>2. CASE Has(d, old) /\ ~Has(d, new)
    <2>1. PICK c : c = Put(d, new, At(d, old))
        OBVIOUS
    <2>2. e = Drop(c, {old})
        BY <1>2, <2>1 DEF Rename
    <2>3. /\ IsDatabase(c) /\ c.applied = d.applied
          /\ \A q : /\ Has(c, q) <=> q = new \/ Has(d, q)
                    /\ At(c, q) = IF q = new THEN At(d, old) ELSE At(d, q)
        BY ONLY <2>1, PutIs, IsDatabase(d)
    <2>4. /\ IsDatabase(e) /\ e.applied = c.applied
          /\ \A q : /\ Has(e, q) <=> q # old /\ Has(c, q)
                    /\ At(e, q) = IF q = old THEN {} ELSE At(c, q)
        <3>1. PICK P : P = {old}
            OBVIOUS
        <3>2. e = Drop(c, P)
            BY <2>2, <3>1
        <3>3. /\ IsDatabase(e) /\ e.applied = c.applied
              /\ \A q : /\ Has(e, q) <=> q \notin P /\ Has(c, q)
                        /\ At(e, q) = IF q \in P THEN {} ELSE At(c, q)
            BY ONLY <2>3, <3>2, DropIs
        <3> QED BY <3>1, <3>3
    <2> QED BY <1>2, <2>3, <2>4 DEF Same
<1> QED BY <1>1, <1>2

LEMMA CategoriesFilled ==
    ASSUME NEW t, NEW d, NEW k \in {4, 14}, DatabaseAt(t, d, k),
           NEW e, e = Fill(d, "event_category", Categories(d))
    PROVE  e.applied = d.applied /\ DatabaseAt(t, e, k + 1)
<1>1. IsDatabase(d) /\ Recorded(t, d) /\ EventsAt(t, d, k)
    BY DEF DatabaseAt
<1>2. PICK facts : facts = Categories(d)
    OBVIOUS
<1>3. /\ IsDatabase(e) /\ e.applied = d.applied
      /\ \A q : Has(e, q) <=> q = "event_category" \/ Has(d, q)
      /\ \A q : q # "event_category" => At(e, q) = At(d, q)
      /\ At(d, "event_category") = {} => At(e, "event_category") = facts
      /\ RowsOf(facts) \subseteq RowsOf(At(d, "event_category")) =>
            At(e, "event_category") = At(d, "event_category")
    <2>1. e = Fill(d, "event_category", facts)
        BY <1>2
    <2> QED BY ONLY <1>1, <2>1, FillIs
<1>4. \A q : q # "event_category" => Same(e, d, q)
    BY <1>3 DEF Same
<1>5. At(e, "event_category") = facts
    BY <1>1, <1>2, <1>3 DEF EventsAt
<1>6. Same(e, d, "event_type")
    BY <1>4
<1>7. EventsAt(t, e, k + 1)
    <2>1. Categories(e) = facts
        BY <1>2, <1>6 DEF Categories, Same
    <2>2. k + 1 > 4
        OBVIOUS
    <2> QED BY <1>1, <1>5, <1>6, <2>1, <2>2 DEF EventsAt, Same
<1>8. /\ Same(e, d, "human_task") /\ Same(e, d, "work_item") /\ Same(e, d, "human_task_user")
      /\ Same(e, d, "work_item_user") /\ Same(e, d, "uri") /\ Same(e, d, "resource_pair")
      /\ Same(e, d, "tenant_specific_field") /\ Same(e, d, "realm_identifier")
      /\ Same(e, d, "payload_reference") /\ Same(e, d, "json_data") /\ Same(e, d, "tenant_json_data")
      /\ Same(e, d, "group") /\ Same(e, d, "authorization_key") /\ Same(e, d, "host_epoch")
      /\ Same(e, d, "host_native") /\ Same(e, d, "core_epoch") /\ Same(e, d, "core_native")
      /\ Same(e, d, "event_timestamp") /\ Same(e, d, "event_occurred_at")
    BY <1>4
<1>9. Recorded(t, e)
    BY <1>1, <1>8 DEF Recorded, RecordedAt, Same
<1>10. PICK l : l = k + 1
    OBVIOUS
<1>11. /\ k > 7 <=> l > 7
       /\ k > 2 <=> l > 2
       /\ k > 8 <=> l > 8
       /\ k > 11 <=> l > 11
       /\ k > 12 <=> l > 12
       /\ k > 16 <=> l > 16
       /\ k > 13 <=> l > 13
       /\ k > 15 <=> l > 15
       /\ k <= 5 <=> l <= 5
       /\ k > 9 <=> l > 9
       /\ k > 6 <=> l > 6
    BY <1>10
<1>12. StampsAt(e, l)
    BY <1>8, <1>11, StampsStay DEF DatabaseAt
<1>13. TasksAt(e, l)
    BY <1>8, <1>11, TasksStay DEF DatabaseAt
<1>14. NamesAt(e, l)
    BY <1>8, <1>11, NamesStay DEF DatabaseAt
<1>15. PayloadsAt(t, e, l)
    BY <1>8, <1>11, PayloadsStay DEF DatabaseAt
<1>16. GroupsAt(t, e, l)
    BY <1>8, <1>11, GroupsStay DEF DatabaseAt
<1> QED BY <1>3, <1>7, <1>9, <1>10, <1>12, <1>13, <1>14, <1>15, <1>16 DEF DatabaseAt

\* A step that touches the places S leaves alone the parts that have none of them.
OthersKept(t, d, e, k, l, S) ==
    /\ /\ S \cap {"host_epoch", "host_native", "core_epoch", "core_native", "event_timestamp",
                  "event_occurred_at"} = {}
       /\ k = l \/ k \notin {2, 7, 8}
       => StampsAt(e, l)
    /\ /\ S \cap {"human_task", "work_item", "human_task_user", "work_item_user"} = {}
       /\ k = l \/ k \notin {11, 12, 16}
       => TasksAt(e, l)
    /\ /\ S \cap {"uri", "resource_pair", "tenant_specific_field", "realm_identifier"} = {}
       /\ k = l \/ k \notin {13, 15}
       => NamesAt(e, l)
    /\ S \cap {"event_type", "event_category"} = {} /\ (k = l \/ k # 4) => EventsAt(t, e, l)
    /\ S \cap {"payload_reference", "json_data", "tenant_json_data"} = {} /\ (k = l \/ k # 5)
       => PayloadsAt(t, e, l)
    /\ S \cap {"group", "authorization_key"} = {} /\ (k = l \/ k \notin {6, 9}) => GroupsAt(t, e, l)
    /\ \A old, new : old \notin S /\ new \notin S =>
        RecordedAt(t, e, old, new) = RecordedAt(t, d, old, new)

LEMMA OthersStay ==
    ASSUME NEW t, NEW d, NEW e, NEW k \in 1..18, NEW l \in {k, k + 1}, DatabaseAt(t, d, k),
           NEW S, \A q : q \notin S => Same(e, d, q)
    PROVE  OthersKept(t, d, e, k, l, S)
<1>1. \A n \in 1..18 : k = l \/ k # n => (k > n <=> l > n)
    OBVIOUS
<1>2. k = l \/ k # 5 => (k <= 5 <=> l <= 5)
    OBVIOUS
<1>3. ASSUME S \cap {"host_epoch", "host_native", "core_epoch", "core_native", "event_timestamp",
                     "event_occurred_at"} = {}, k = l \/ k \notin {2, 7, 8}
      PROVE  StampsAt(e, l)
    <2>1. /\ Same(e, d, "host_epoch") /\ Same(e, d, "host_native") /\ Same(e, d, "core_epoch")
          /\ Same(e, d, "core_native") /\ Same(e, d, "event_timestamp")
          /\ Same(e, d, "event_occurred_at")
        BY <1>3
    <2>2. /\ k > 7 <=> l > 7
          /\ k > 2 <=> l > 2
          /\ k > 8 <=> l > 8
        BY <1>1, <1>3
    <2> QED BY <2>1, <2>2, StampsStay DEF DatabaseAt
<1>4. ASSUME S \cap {"human_task", "work_item", "human_task_user", "work_item_user"} = {},
             k = l \/ k \notin {11, 12, 16}
      PROVE  TasksAt(e, l)
    <2>1. /\ Same(e, d, "human_task") /\ Same(e, d, "work_item")
          /\ Same(e, d, "human_task_user") /\ Same(e, d, "work_item_user")
        BY <1>4
    <2>2. /\ k > 11 <=> l > 11
          /\ k > 12 <=> l > 12
          /\ k > 16 <=> l > 16
        BY <1>1, <1>4
    <2> QED BY <2>1, <2>2, TasksStay DEF DatabaseAt
<1>5. ASSUME S \cap {"uri", "resource_pair", "tenant_specific_field", "realm_identifier"} = {},
             k = l \/ k \notin {13, 15}
      PROVE  NamesAt(e, l)
    <2>1. /\ Same(e, d, "uri") /\ Same(e, d, "resource_pair")
          /\ Same(e, d, "tenant_specific_field") /\ Same(e, d, "realm_identifier")
        BY <1>5
    <2>2. /\ k > 13 <=> l > 13
          /\ k > 15 <=> l > 15
        BY <1>1, <1>5
    <2> QED BY <2>1, <2>2, NamesStay DEF DatabaseAt
<1>6. ASSUME S \cap {"event_type", "event_category"} = {}, k = l \/ k # 4 PROVE EventsAt(t, e, l)
    <2>1. Same(e, d, "event_type") /\ Same(e, d, "event_category")
        BY <1>6
    <2>2. k > 4 <=> l > 4
        BY <1>1, <1>6
    <2> QED BY <2>1, <2>2, EventsStay DEF DatabaseAt
<1>7. ASSUME S \cap {"payload_reference", "json_data", "tenant_json_data"} = {}, k = l \/ k # 5
      PROVE  PayloadsAt(t, e, l)
    <2>1. /\ Same(e, d, "payload_reference") /\ Same(e, d, "json_data")
          /\ Same(e, d, "tenant_json_data")
        BY <1>7
    <2> QED BY <1>2, <1>7, <2>1, PayloadsStay DEF DatabaseAt
<1>8. ASSUME S \cap {"group", "authorization_key"} = {}, k = l \/ k \notin {6, 9} PROVE GroupsAt(t, e, l)
    <2>1. Same(e, d, "group") /\ Same(e, d, "authorization_key")
        BY <1>8
    <2>2. /\ k > 9 <=> l > 9
          /\ k > 6 <=> l > 6
        BY <1>1, <1>8
    <2> QED BY <2>1, <2>2, GroupsStay DEF DatabaseAt
<1>9. ASSUME NEW old, NEW new, old \notin S, new \notin S
      PROVE  RecordedAt(t, e, old, new) = RecordedAt(t, d, old, new)
    <2>1. Same(e, d, old) /\ Same(e, d, new)
        BY <1>9
    <2> QED BY <2>1 DEF RecordedAt, Same
<1> QED BY <1>3, <1>4, <1>5, <1>6, <1>7, <1>8, <1>9 DEF OthersKept

LEMMA JsonScoped ==
    ASSUME NEW t, TruthOK(t), NEW d, DatabaseAt(t, d, 5), NEW references,
           references = At(d, "payload_reference"),
           NEW unscoped, unscoped = (Has(d, "json_data") /\ ~Has(d, "tenant_json_data")),
           ~(unscoped /\ \E f \in references :
                f[2] = "unknown" \/ f[1] \notin RowsOf(At(d, "json_data"))),
           NEW e, e = IF unscoped THEN Drop(Put(d, "tenant_json_data", references), {"json_data"}) ELSE d
    PROVE  e.applied = d.applied /\ DatabaseAt(t, e, 6)
<1>1. IsDatabase(d) /\ Recorded(t, d) /\ PayloadsAt(t, d, 5)
    BY DEF DatabaseAt
<1>2. /\ IsDatabase(e) /\ e.applied = d.applied
      /\ \A q : q \notin {"json_data", "tenant_json_data"} => Same(e, d, q)
      /\ ~Has(e, "json_data")
      /\ At(e, "tenant_json_data") = references
      /\ OneEach(references)
    <2>1. CASE unscoped
        <3>1. PICK c, P : c = Put(d, "tenant_json_data", references) /\ P = {"json_data"} /\ e = Drop(c, P)
            BY <2>1
        <3>2. /\ IsDatabase(c) /\ c.applied = d.applied
              /\ \A q : /\ Has(c, q) <=> q = "tenant_json_data" \/ Has(d, q)
                        /\ At(c, q) = IF q = "tenant_json_data" THEN references ELSE At(d, q)
            BY ONLY <1>1, <3>1, PutIs
        <3>3. /\ IsDatabase(e) /\ e.applied = c.applied
              /\ \A q : /\ Has(e, q) <=> q \notin P /\ Has(c, q)
                        /\ At(e, q) = IF q \in P THEN {} ELSE At(c, q)
            BY ONLY <3>1, <3>2, DropIs
        <3>4. OneEach(references)
            <4>1. references \in SUBSET (Rows \X {"tenant", "unknown"})
                BY <1>1 DEF PayloadsAt, TruthOK
            <4>2. \A f \in references : f = <<f[1], f[2]>> /\ f[2] = "tenant"
                BY <2>1, <4>1
            <4> QED BY <4>2 DEF OneEach
        <3> QED BY <3>1, <3>2, <3>3, <3>4 DEF Same
    <2>2. CASE ~unscoped
        <3>1. e = d /\ ~Has(d, "json_data")
            BY <1>1, <2>2 DEF PayloadsAt
        <3> QED BY <1>1, <3>1 DEF Same, PayloadsAt
    <2> QED BY <2>1, <2>2
<1>3. PayloadsAt(t, e, 6)
    <2>1. Same(e, d, "payload_reference")
        BY <1>2
    <2> QED BY <1>1, <1>2, <2>1 DEF PayloadsAt, Same
<1>4. PICK S : S = {"json_data", "tenant_json_data"}
    OBVIOUS
<1>5. /\ StampsAt(e, 6) /\ TasksAt(e, 6) /\ NamesAt(e, 6) /\ EventsAt(t, e, 6) /\ GroupsAt(t, e, 6)
      /\ Recorded(t, e)
    <2>1. PICK k, l : k = 5 /\ l = 6
        OBVIOUS
    <2>2. k \in 1..18 /\ l \in {k, k + 1} /\ DatabaseAt(t, d, k) /\ \A q : q \notin S => Same(e, d, q)
        BY <1>2, <1>4, <2>1
    <2>3. OthersKept(t, d, e, k, l, S)
        BY ONLY <2>2, OthersStay
    <2> QED BY <1>1, <1>4, <2>1, <2>3 DEF Recorded, OthersKept
<1> QED BY <1>2, <1>3, <1>5 DEF DatabaseAt

\* Two roles that are not the only ones of a tenant have keys of their own.
LEMMA AtMostOneElement ==
    ASSUME NEW S, IsFiniteSet(S), ~(Cardinality(S) > 1), NEW x \in S, NEW y \in S
    PROVE  x = y
<1> SUFFICES ASSUME x # y PROVE FALSE
    OBVIOUS
<1>2. IsFiniteSet({x}) /\ Cardinality({x}) = 1
    BY FS_Singleton
<1>3. Cardinality({x} \cup {y}) = 2
    <2>1. y \notin {x}
        OBVIOUS
    <2>2. Cardinality({x} \cup {y}) = Cardinality({x}) + 1
        BY ONLY <1>2, <2>1, FS_AddElement
    <2> QED BY <1>2, <2>2
<1>4. {x} \cup {y} \subseteq S
    OBVIOUS
<1>5. Cardinality({x} \cup {y}) <= Cardinality(S)
    BY <1>4, FS_Subset
<1>6. Cardinality(S) \in Nat
    BY FS_CardinalityType
<1> QED BY <1>3, <1>5, <1>6

LEMMA KeysDiffer ==
    ASSUME NEW groups, IsFiniteSet(groups), NEW rbac, rbac = {f \in groups : f[2] = "rbac"},
           ~(Cardinality(rbac) > 1), NEW keys, keys = AuthorizationKeys(groups)
    PROVE  RowsOf(keys) = RowsOf(groups) /\ Distinct(keys)
<1>1. ASSUME NEW f, NEW g \in keys, f \in keys, f[2] = g[2] PROVE f = g
    <2>1. PICK x \in groups : f = <<x[1], IF x[2] = "rbac" THEN <<"identifier">> ELSE <<"lane", x[1]>> >>
        BY <1>1 DEF AuthorizationKeys
    <2>2. PICK y \in groups : g = <<y[1], IF y[2] = "rbac" THEN <<"identifier">> ELSE <<"lane", y[1]>> >>
        BY <1>1 DEF AuthorizationKeys
    <2>3. IsFiniteSet(rbac)
        BY FS_Subset
    <2>4. CASE x[2] = "rbac" /\ y[2] = "rbac"
        <3>1. x = y
            BY <2>3, <2>4, AtMostOneElement
        <3> QED BY <2>1, <2>2, <3>1
    <2>5. CASE x[2] # "rbac" /\ y[2] # "rbac"
        <3>1. f[2] = <<"lane", x[1]>> /\ g[2] = <<"lane", y[1]>>
            BY <2>1, <2>2, <2>5
        <3>2. <<"lane", x[1]>>[2] = x[1] /\ <<"lane", y[1]>>[2] = y[1]
            OBVIOUS
        <3>3. x[1] = y[1]
            BY ONLY <1>1, <3>1, <3>2
        <3> QED BY <2>1, <2>2, <2>5, <3>3
    <2>6. CASE (x[2] = "rbac") # (y[2] = "rbac")
        <3>1. \/ f[2] = <<"identifier">> /\ g[2] = <<"lane", y[1]>>
              \/ g[2] = <<"identifier">> /\ f[2] = <<"lane", x[1]>>
            BY <2>1, <2>2, <2>6
        <3>2. \A r : Len(<<"identifier">>) = 1 /\ Len(<<"lane", r>>) = 2
            OBVIOUS
        <3> QED BY <1>1, <3>1, <3>2
    <2> QED BY <2>4, <2>5, <2>6
<1>2. \A x \in groups : \E f \in keys : f[1] = x[1]
    <2>1. TAKE x \in groups
    <2>2. PICK f : f = <<x[1], IF x[2] = "rbac" THEN <<"identifier">> ELSE <<"lane", x[1]>> >>
        OBVIOUS
    <2> QED BY <2>2 DEF AuthorizationKeys
<1>3. \A f \in keys : \E x \in groups : f[1] = x[1]
    BY DEF AuthorizationKeys
<1> QED BY <1>1, <1>2, <1>3 DEF RowsOf, Distinct

LEMMA GroupsKeyed ==
    ASSUME NEW t, TruthOK(t), NEW d, DatabaseAt(t, d, 6), NEW groups, groups = At(d, "group"),
           NEW rbac, rbac = {f \in groups : f[2] = "rbac" /\ f[1] \notin RowsOf(At(d, "authorization_key"))},
           ~(Cardinality(rbac) > 1),
           NEW keyed, keyed = IF Has(d, "group") THEN Fill(d, "authorization_key", AuthorizationKeys(groups))
                              ELSE d,
           NEW e, e = Add(keyed, {"resource_pair"})
    PROVE  e.applied = d.applied /\ DatabaseAt(t, e, 7)
<1>1. IsDatabase(d) /\ Recorded(t, d) /\ NamesAt(d, 6) /\ GroupsAt(t, d, 6)
    BY DEF DatabaseAt
<1>2. At(d, "authorization_key") = {} /\ groups = t["group"]
    <2>1. CASE Has(d, "group")
        BY <1>1, <2>1 DEF GroupsAt
    <2>2. CASE ~Has(d, "group")
        <3>1. groups = {}
            BY <2>2 DEF At
        <3>2. t["group"] = {} /\ At(d, "authorization_key") = {}
            BY ONLY <1>1, <2>2 DEF GroupsAt
        <3> QED BY <3>1, <3>2
    <2> QED BY <2>1, <2>2
<1>3. PICK keys : keys = AuthorizationKeys(groups)
    OBVIOUS
<1>4. RowsOf(keys) = RowsOf(groups) /\ Distinct(keys)
    <2>1. rbac = {f \in groups : f[2] = "rbac"}
        BY <1>2 DEF RowsOf
    <2>2. IsFiniteSet(groups)
        BY <1>2 DEF TruthOK
    <2> QED BY ONLY <1>3, <2>1, <2>2, ~(Cardinality(rbac) > 1), KeysDiffer
<1>5. /\ IsDatabase(keyed) /\ keyed.applied = d.applied
      /\ \A q : q # "authorization_key" => Same(keyed, d, q)
      /\ RowsOf(At(keyed, "authorization_key")) = RowsOf(groups)
      /\ Distinct(At(keyed, "authorization_key"))
    <2>1. CASE Has(d, "group")
        <3>1. keyed = Fill(d, "authorization_key", keys)
            BY <1>3, <2>1
        <3>2. /\ IsDatabase(keyed) /\ keyed.applied = d.applied
              /\ \A q : Has(keyed, q) <=> q = "authorization_key" \/ Has(d, q)
              /\ \A q : q # "authorization_key" => At(keyed, q) = At(d, q)
              /\ At(d, "authorization_key") = {} => At(keyed, "authorization_key") = keys
            BY ONLY <1>1, <3>1, FillIs
        <3> QED BY <1>2, <1>4, <3>2 DEF Same
    <2>2. CASE ~Has(d, "group")
        BY <1>1, <1>2, <2>2 DEF Same, At, RowsOf, Distinct
    <2> QED BY <2>1, <2>2
<1>6. /\ IsDatabase(e) /\ e.applied = keyed.applied
      /\ \A q : (Has(e, q) <=> q = "resource_pair" \/ Has(keyed, q)) /\ At(e, q) = At(keyed, q)
    <2>1. PICK P : P = {"resource_pair"} /\ e = Add(keyed, P)
        OBVIOUS
    <2>2. \A q : (Has(e, q) <=> q \in P \/ Has(keyed, q)) /\ At(e, q) = At(keyed, q)
        BY ONLY <1>5, <2>1, AddIs
    <2>3. IsDatabase(e) /\ e.applied = keyed.applied
        BY ONLY <1>5, <2>1, AddIs
    <2> QED BY <2>1, <2>2, <2>3
<1>7. PICK S : S = {"resource_pair", "authorization_key"}
    OBVIOUS
<1>8. /\ \A q : q \notin S => Same(e, d, q)
      /\ At(e, "resource_pair") = At(d, "resource_pair")
      /\ At(e, "authorization_key") = At(keyed, "authorization_key")
    BY <1>5, <1>6, <1>7 DEF Same
<1>9. GroupsAt(t, e, 7)
    <2>1. Same(e, d, "group")
        BY <1>7, <1>8
    <2> QED BY <1>1, <1>2, <1>5, <1>8, <2>1 DEF GroupsAt, Same
<1>10. Same(e, d, "uri") /\ Same(e, d, "tenant_specific_field") /\ Same(e, d, "realm_identifier")
    BY <1>7, <1>8
<1>11. NamesAt(e, 7)
    BY <1>1, <1>8, <1>10 DEF NamesAt, Same
<1>12. StampsAt(e, 7) /\ TasksAt(e, 7) /\ EventsAt(t, e, 7) /\ PayloadsAt(t, e, 7) /\ Recorded(t, e)
    <2>1. PICK k, l : k = 6 /\ l = 7
        OBVIOUS
    <2>2. k \in 1..18 /\ l \in {k, k + 1} /\ DatabaseAt(t, d, k) /\ \A q : q \notin S => Same(e, d, q)
        BY <1>8, <2>1
    <2>3. OthersKept(t, d, e, k, l, S)
        BY ONLY <2>2, OthersStay
    <2>4. RecordedAt(t, e, "uri", "resource_pair")
        BY <1>1, <1>8, <1>10 DEF Recorded, RecordedAt, Same
    <2> QED BY <1>1, <1>7, <2>1, <2>3, <2>4 DEF Recorded, OthersKept
<1> QED BY <1>5, <1>6, <1>9, <1>11, <1>12 DEF DatabaseAt

LEMMA HostEpochsDropped ==
    ASSUME NEW t, NEW d, DatabaseAt(t, d, 7), NEW repaired,
           repaired = IF Has(d, "host_epoch") /\ ~Has(d, "host_native")
                      THEN Put(d, "host_native", At(d, "host_epoch")) ELSE d,
           NEW e, e = Drop(repaired, {"host_epoch"})
    PROVE  e.applied = d.applied /\ DatabaseAt(t, e, 8)
<1>1. IsDatabase(d) /\ Recorded(t, d) /\ StampsAt(d, 7)
    BY DEF DatabaseAt
<1>2. /\ IsDatabase(repaired) /\ repaired.applied = d.applied
      /\ \A q : q # "host_native" => Same(repaired, d, q)
      /\ Has(d, "host_epoch") => At(repaired, "host_native") = At(d, "host_epoch")
      /\ ~Has(d, "host_epoch") => At(repaired, "host_native") = At(d, "host_native")
    <2>1. CASE Has(d, "host_epoch") /\ ~Has(d, "host_native")
        <3>1. PICK epochs : epochs = At(d, "host_epoch") /\ repaired = Put(d, "host_native", epochs)
            BY <2>1
        <3>2. /\ IsDatabase(repaired) /\ repaired.applied = d.applied
              /\ \A q : /\ Has(repaired, q) <=> q = "host_native" \/ Has(d, q)
                        /\ At(repaired, q) = IF q = "host_native" THEN epochs ELSE At(d, q)
            BY ONLY <1>1, <3>1, PutIs
        <3> QED BY <2>1, <3>1, <3>2 DEF Same
    <2>2. CASE ~(Has(d, "host_epoch") /\ ~Has(d, "host_native"))
        BY <1>1, <2>2 DEF Same, StampsAt, StampAt, StampEqual
    <2> QED BY <2>1, <2>2
<1>3. /\ IsDatabase(e) /\ e.applied = repaired.applied
      /\ \A q : /\ Has(e, q) <=> q # "host_epoch" /\ Has(repaired, q)
                /\ q # "host_epoch" => At(e, q) = At(repaired, q)
    <2>1. PICK P : P = {"host_epoch"} /\ e = Drop(repaired, P)
        OBVIOUS
    <2>2. /\ IsDatabase(e) /\ e.applied = repaired.applied
          /\ \A q : /\ Has(e, q) <=> q \notin P /\ Has(repaired, q)
                    /\ At(e, q) = IF q \in P THEN {} ELSE At(repaired, q)
        BY ONLY <1>2, <2>1, DropIs
    <2> QED BY <2>1, <2>2
<1>4. PICK S : S = {"host_epoch", "host_native"}
    OBVIOUS
<1>5. \A q : q \notin S => Same(e, d, q)
    BY <1>2, <1>3, <1>4 DEF Same
<1>6. RecordedAt(t, e, "host_epoch", "host_native")
    <2>1. At(e, "host_native") = t["host_epoch"]
        BY <1>1, <1>2, <1>3 DEF Recorded, RecordedAt
    <2> QED BY <1>3, <2>1 DEF RecordedAt
<1>7. StampsAt(e, 8)
    <2>1. /\ Same(e, d, "core_epoch") /\ Same(e, d, "core_native") /\ Same(e, d, "event_timestamp")
          /\ Same(e, d, "event_occurred_at")
        BY <1>4, <1>5
    <2> QED BY <1>1, <1>3, <2>1 DEF StampsAt, StampAt, StampEqual, Same
<1>8. /\ TasksAt(e, 8) /\ NamesAt(e, 8) /\ EventsAt(t, e, 8) /\ PayloadsAt(t, e, 8)
      /\ GroupsAt(t, e, 8) /\ Recorded(t, e)
    <2>1. PICK k, l : k = 7 /\ l = 8
        OBVIOUS
    <2>2. k \in 1..18 /\ l \in {k, k + 1} /\ DatabaseAt(t, d, k) /\ \A q : q \notin S => Same(e, d, q)
        BY <1>5, <2>1
    <2>3. OthersKept(t, d, e, k, l, S)
        BY ONLY <2>2, OthersStay
    <2> QED BY <1>1, <1>4, <1>6, <2>1, <2>3 DEF Recorded, OthersKept
<1> QED BY <1>2, <1>3, <1>7, <1>8 DEF DatabaseAt

LEMMA CoreEpochsDropped ==
    ASSUME NEW t, NEW d, DatabaseAt(t, d, 8), NEW e, e = Drop(d, {"core_epoch", "event_timestamp"})
    PROVE  e.applied = d.applied /\ DatabaseAt(t, e, 9)
<1>1. IsDatabase(d) /\ Recorded(t, d) /\ StampsAt(d, 8)
    BY DEF DatabaseAt
<1>2. PICK S : S = {"core_epoch", "event_timestamp"} /\ e = Drop(d, S)
    OBVIOUS
<1>3. /\ IsDatabase(e) /\ e.applied = d.applied
      /\ \A q : /\ Has(e, q) <=> q \notin S /\ Has(d, q)
                /\ At(e, q) = IF q \in S THEN {} ELSE At(d, q)
    BY ONLY <1>1, <1>2, DropIs
<1>4. \A q : q \notin S => Same(e, d, q)
    BY <1>3 DEF Same
<1>5. /\ Same(e, d, "core_native") /\ Same(e, d, "event_occurred_at") /\ Same(e, d, "host_epoch")
      /\ Same(e, d, "host_native") /\ ~Has(e, "core_epoch") /\ ~Has(e, "event_timestamp")
    BY <1>2, <1>3, <1>4
<1>6. /\ At(d, "core_native") = t["core_epoch"]
      /\ At(d, "event_occurred_at") = t["event_timestamp"]
    BY <1>1 DEF Recorded, RecordedAt, StampsAt, StampAt, StampEqual
<1>7. /\ RecordedAt(t, e, "core_epoch", "core_native")
      /\ RecordedAt(t, e, "event_timestamp", "event_occurred_at")
    BY <1>5, <1>6 DEF RecordedAt, Same
<1>8. StampsAt(e, 9)
    BY <1>1, <1>5 DEF StampsAt, StampAt, StampEqual, Same
<1>9. /\ TasksAt(e, 9) /\ NamesAt(e, 9) /\ EventsAt(t, e, 9) /\ PayloadsAt(t, e, 9)
      /\ GroupsAt(t, e, 9) /\ Recorded(t, e)
    <2>1. PICK k, l : k = 8 /\ l = 9
        OBVIOUS
    <2>2. k \in 1..18 /\ l \in {k, k + 1} /\ DatabaseAt(t, d, k) /\ \A q : q \notin S => Same(e, d, q)
        BY <1>4, <2>1
    <2>3. OthersKept(t, d, e, k, l, S)
        BY ONLY <2>2, OthersStay
    <2> QED BY <1>1, <1>2, <1>7, <2>1, <2>3 DEF Recorded, OthersKept
<1> QED BY <1>3, <1>8, <1>9 DEF DatabaseAt

LEMMA GroupRenamed ==
    ASSUME NEW t, NEW d, DatabaseAt(t, d, 9), NEW e, e = Rename(d, "group", "m8f_group")
    PROVE  e.applied = d.applied /\ DatabaseAt(t, e, 10)
<1>1. IsDatabase(d) /\ Recorded(t, d) /\ GroupsAt(t, d, 9)
    BY DEF DatabaseAt
<1>2. PICK old, new : old = "group" /\ new = "m8f_group" /\ e = Rename(d, old, new) /\ old # new
    OBVIOUS
<1>3. /\ IsDatabase(e) /\ e.applied = d.applied
      /\ \A q : q \notin {old, new} => Same(e, d, q)
      /\ IF Has(d, old) /\ ~Has(d, new) THEN ~Has(e, old) /\ At(e, new) = At(d, old)
         ELSE Same(e, d, old) /\ Same(e, d, new)
    BY ONLY <1>1, <1>2, RenameIs
<1>4. GroupsAt(t, e, 10)
    <2>1. Same(e, d, "authorization_key")
        BY <1>2, <1>3
    <2>2. ~Has(e, "group") \/ Same(e, d, "group")
        BY <1>2, <1>3
    <2> QED BY <1>1, <2>1, <2>2 DEF GroupsAt, Same
<1>5. PICK S : S = {old, new}
    OBVIOUS
<1>6. /\ StampsAt(e, 10) /\ TasksAt(e, 10) /\ NamesAt(e, 10) /\ EventsAt(t, e, 10)
      /\ PayloadsAt(t, e, 10) /\ Recorded(t, e)
    <2>1. PICK k, l : k = 9 /\ l = 10
        OBVIOUS
    <2>2. k \in 1..18 /\ l \in {k, k + 1} /\ DatabaseAt(t, d, k) /\ \A q : q \notin S => Same(e, d, q)
        BY <1>3, <1>5, <2>1
    <2>3. OthersKept(t, d, e, k, l, S)
        BY ONLY <2>2, OthersStay
    <2> QED BY <1>1, <1>2, <1>5, <2>1, <2>3 DEF Recorded, OthersKept
<1> QED BY <1>3, <1>4, <1>6 DEF DatabaseAt

\* A step that writes nothing, or one place of which nothing is said
LEMMA NothingMoved ==
    ASSUME NEW t, NEW d, NEW k \in {3, 10, 17, 18}, DatabaseAt(t, d, k), NEW l \in {k, k + 1},
           NEW e, IsDatabase(e), \A q : q # "core_marker" => Same(e, d, q)
    PROVE  DatabaseAt(t, e, l)
<1>1. PICK S : S = {"core_marker"}
    OBVIOUS
<1>2. k \in 1..18 /\ l \in {k, k + 1} /\ DatabaseAt(t, d, k) /\ \A q : q \notin S => Same(e, d, q)
    BY <1>1
<1>3. OthersKept(t, d, e, k, l, S)
    BY ONLY <1>2, OthersStay
<1>4. Recorded(t, d) /\ Recorded(t, e)
    BY <1>1, <1>3 DEF DatabaseAt, Recorded, OthersKept
<1> QED BY <1>1, <1>3, <1>4 DEF DatabaseAt, OthersKept

LEMMA CoreHeadIs ==
    ASSUME NEW d, IsDatabase(d), NEW e, e = WithCoreHead(d)
    PROVE  IsDatabase(e) /\ e.applied = d.applied /\ \A q : q # "core_marker" => Same(e, d, q)
<1>1. e = d \/ \E facts : e = Put(d, "core_marker", facts)
    BY DEF WithCoreHead
<1>2. CASE e = d
    BY <1>2 DEF Same
<1>3. ASSUME NEW facts, e = Put(d, "core_marker", facts)
      PROVE  IsDatabase(e) /\ e.applied = d.applied /\ \A q : q # "core_marker" => Same(e, d, q)
    <2>1. /\ IsDatabase(e) /\ e.applied = d.applied
          /\ \A q : /\ Has(e, q) <=> q = "core_marker" \/ Has(d, q)
                    /\ At(e, q) = IF q = "core_marker" THEN facts ELSE At(d, q)
        BY ONLY IsDatabase(d), <1>3, PutIs
    <2> QED BY <2>1 DEF Same
<1> QED BY <1>1, <1>2, <1>3

LEMMA WorkItemsChecked ==
    ASSUME NEW t, TruthOK(t), NEW d, DatabaseAt(t, d, 11),
           NEW e, e = IF Has(d, "human_task") /\ ~Has(d, "work_item")
                      THEN Put(d, "work_item", At(d, "human_task")) ELSE d,
           Backfilled(At(e, "human_task"), At(e, "work_item"))
    PROVE  e.applied = d.applied /\ DatabaseAt(t, e, 12)
<1>1. PICK k, l : k = 11 /\ l = 12
    OBVIOUS
<1>2. /\ e.applied = d.applied /\ DatabaseAt(t, e, k)
      /\ Has(e, "human_task") => Has(e, "work_item")
    <2>1. k \in 1..11 /\ DatabaseAt(t, d, k)
        BY <1>1
    <2> QED BY <2>1, WorkItemsCopied
<1>3. IsDatabase(e) /\ Recorded(t, e) /\ TasksAt(e, k)
    BY <1>2 DEF DatabaseAt
<1>4. Has(e, "human_task") => At(e, "work_item") = At(e, "human_task")
    <2>1. PICK tasks, items : tasks = At(e, "human_task") /\ items = At(e, "work_item")
        OBVIOUS
    <2>2. tasks \subseteq items
        BY <2>1 DEF Backfilled
    <2>3. ASSUME Has(e, "human_task"), NEW f \in items PROVE f \in tasks
        <3>1. OneEach(items) /\ RowsOf(items) \subseteq RowsOf(tasks)
            BY <1>2, <1>3, <2>1, <2>3 DEF TasksAt
        <3>2. PICK g \in tasks : g[1] = f[1]
            BY <3>1 DEF RowsOf
        <3> QED BY <2>2, <3>1, <3>2 DEF OneEach
    <2> QED BY <2>1, <2>2, <2>3
<1>5. TasksAt(e, l)
    BY <1>1, <1>3, <1>4 DEF TasksAt
<1>6. PICK S : S = {"work_item"}
    OBVIOUS
<1>7. StampsAt(e, l) /\ NamesAt(e, l) /\ EventsAt(t, e, l) /\ PayloadsAt(t, e, l) /\ GroupsAt(t, e, l)
    <2>1. k \in 1..18 /\ l \in {k, k + 1} /\ \A q : q \notin S => Same(e, e, q)
        BY <1>1 DEF Same
    <2>2. OthersKept(t, e, e, k, l, S)
        BY ONLY <1>2, <2>1, OthersStay
    <2> QED BY <1>1, <1>6, <2>2 DEF OthersKept
<1> QED BY <1>1, <1>2, <1>3, <1>5, <1>7 DEF DatabaseAt

LEMMA AssignmentsMoved ==
    ASSUME NEW t, NEW d, DatabaseAt(t, d, 12), NEW assigned, assigned = At(d, "human_task_user"),
           NEW e, e = IF Has(d, "human_task_user") THEN Fill(d, "work_item_user", assigned) ELSE d
    PROVE  e.applied = d.applied /\ DatabaseAt(t, e, 13)
<1>1. IsDatabase(d) /\ Recorded(t, d) /\ TasksAt(d, 12)
    BY DEF DatabaseAt
<1>2. /\ IsDatabase(e) /\ e.applied = d.applied
      /\ \A q : q # "work_item_user" => Same(e, d, q)
      /\ Has(d, "human_task_user") => At(e, "work_item_user") = assigned
      /\ ~Has(d, "human_task_user") => e = d
    <2>1. CASE Has(d, "human_task_user")
        <3>1. e = Fill(d, "work_item_user", assigned) /\ At(d, "work_item_user") = {}
            BY <1>1, <2>1 DEF TasksAt
        <3>2. /\ IsDatabase(e) /\ e.applied = d.applied
              /\ \A q : Has(e, q) <=> q = "work_item_user" \/ Has(d, q)
              /\ \A q : q # "work_item_user" => At(e, q) = At(d, q)
              /\ At(d, "work_item_user") = {} => At(e, "work_item_user") = assigned
            BY ONLY <1>1, <3>1, FillIs
        <3> QED BY <2>1, <3>1, <3>2 DEF Same
    <2>2. CASE ~Has(d, "human_task_user")
        BY <1>1, <2>2 DEF Same
    <2> QED BY <2>1, <2>2
<1>3. Same(e, d, "human_task") /\ Same(e, d, "human_task_user") /\ Same(e, d, "work_item")
    BY <1>2
<1>4. TasksAt(e, 13)
    BY <1>1, <1>2, <1>3 DEF TasksAt, Same
<1>5. RecordedAt(t, e, "human_task_user", "work_item_user")
    BY <1>1, <1>2, <1>3 DEF Recorded, RecordedAt, Same
<1>6. PICK S : S = {"work_item_user"}
    OBVIOUS
<1>7. /\ StampsAt(e, 13) /\ NamesAt(e, 13) /\ EventsAt(t, e, 13) /\ PayloadsAt(t, e, 13)
      /\ GroupsAt(t, e, 13) /\ Recorded(t, e)
    <2>1. PICK k, l : k = 12 /\ l = 13
        OBVIOUS
    <2>2. k \in 1..18 /\ l \in {k, k + 1} /\ DatabaseAt(t, d, k) /\ \A q : q \notin S => Same(e, d, q)
        BY <1>2, <1>6, <2>1
    <2>3. OthersKept(t, d, e, k, l, S)
        BY ONLY <2>2, OthersStay
    <2> QED BY <1>1, <1>5, <1>6, <2>1, <2>3 DEF Recorded, OthersKept
<1> QED BY <1>2, <1>4, <1>7 DEF DatabaseAt

LEMMA TargetsPaired ==
    ASSUME NEW t, NEW d, DatabaseAt(t, d, 13),
           NEW paired, paired = Fill(d, "resource_pair", At(d, "uri")),
           NEW e, e = Drop(paired, {"uri"})
    PROVE  e.applied = d.applied /\ DatabaseAt(t, e, 14)
<1>1. IsDatabase(d) /\ Recorded(t, d) /\ NamesAt(d, 13)
    BY DEF DatabaseAt
<1>2. PICK uris : uris = At(d, "uri") /\ paired = Fill(d, "resource_pair", uris)
    OBVIOUS
<1>3. /\ IsDatabase(paired) /\ paired.applied = d.applied
      /\ \A q : Has(paired, q) <=> q = "resource_pair" \/ Has(d, q)
      /\ \A q : q # "resource_pair" => At(paired, q) = At(d, q)
      /\ At(d, "resource_pair") = {} => At(paired, "resource_pair") = uris
      /\ RowsOf(uris) \subseteq RowsOf(At(d, "resource_pair")) =>
            At(paired, "resource_pair") = At(d, "resource_pair")
    BY ONLY <1>1, <1>2, FillIs
<1>4. PICK P : P = {"uri"} /\ e = Drop(paired, P)
    OBVIOUS
<1>5. /\ IsDatabase(e) /\ e.applied = paired.applied
      /\ \A q : /\ Has(e, q) <=> q \notin P /\ Has(paired, q)
                /\ At(e, q) = IF q \in P THEN {} ELSE At(paired, q)
    BY ONLY <1>3, <1>4, DropIs
<1>6. At(paired, "resource_pair") = t["uri"]
    <2>1. CASE Has(d, "uri")
        BY <1>1, <1>2, <1>3, <2>1 DEF Recorded, RecordedAt, NamesAt
    <2>2. CASE ~Has(d, "uri")
        <3>1. uris = {}
            BY <1>2, <2>2 DEF At
        <3>2. RowsOf(uris) = {}
            BY <3>1 DEF RowsOf
        <3> QED BY <1>1, <1>3, <2>2, <3>2 DEF Recorded, RecordedAt
    <2> QED BY <2>1, <2>2
<1>7. RecordedAt(t, e, "uri", "resource_pair")
    BY <1>4, <1>5, <1>6 DEF RecordedAt
<1>8. PICK S : S = {"uri", "resource_pair"}
    OBVIOUS
<1>9. \A q : q \notin S => Same(e, d, q)
    BY <1>3, <1>4, <1>5, <1>8 DEF Same
<1>10. NamesAt(e, 14)
    <2>1. Same(e, d, "tenant_specific_field") /\ Same(e, d, "realm_identifier") /\ ~Has(e, "uri")
        BY <1>4, <1>5, <1>8, <1>9
    <2> QED BY <1>1, <2>1 DEF NamesAt, Same
<1>11. /\ StampsAt(e, 14) /\ TasksAt(e, 14) /\ EventsAt(t, e, 14) /\ PayloadsAt(t, e, 14)
       /\ GroupsAt(t, e, 14) /\ Recorded(t, e)
    <2>1. PICK k, l : k = 13 /\ l = 14
        OBVIOUS
    <2>2. k \in 1..18 /\ l \in {k, k + 1} /\ DatabaseAt(t, d, k) /\ \A q : q \notin S => Same(e, d, q)
        BY <1>9, <2>1
    <2>3. OthersKept(t, d, e, k, l, S)
        BY ONLY <2>2, OthersStay
    <2> QED BY <1>1, <1>7, <1>8, <2>1, <2>3 DEF Recorded, OthersKept
<1> QED BY <1>3, <1>5, <1>10, <1>11 DEF DatabaseAt

LEMMA EventsMoved ==
    ASSUME NEW t, NEW d, DatabaseAt(t, d, 14), NEW dated,
           dated = IF Has(d, "event_occurred_at") THEN d
                   ELSE Fill(d, "event_occurred_at", At(d, "event_timestamp")),
           NEW e, e = Drop(Fill(dated, "event_category", Categories(dated)), {"event_timestamp"})
    PROVE  e.applied = d.applied /\ DatabaseAt(t, e, 15)
<1>1. IsDatabase(d) /\ Recorded(t, d) /\ StampsAt(d, 14)
    BY DEF DatabaseAt
<1>2. ~Has(d, "event_timestamp") /\ At(d, "event_timestamp") = {}
    BY <1>1 DEF StampsAt, StampAt, At
<1>3. /\ IsDatabase(dated) /\ dated.applied = d.applied
      /\ \A q : q # "event_occurred_at" => Same(dated, d, q)
      /\ At(dated, "event_occurred_at") = At(d, "event_occurred_at")
    <2>1. CASE Has(d, "event_occurred_at")
        BY <1>1, <2>1 DEF Same
    <2>2. CASE ~Has(d, "event_occurred_at")
        <3>1. PICK facts : facts = {} /\ dated = Fill(d, "event_occurred_at", facts)
            BY <1>2, <2>2
        <3>2. /\ IsDatabase(dated) /\ dated.applied = d.applied
              /\ \A q : Has(dated, q) <=> q = "event_occurred_at" \/ Has(d, q)
              /\ \A q : q # "event_occurred_at" => At(dated, q) = At(d, q)
              /\ At(d, "event_occurred_at") = {} => At(dated, "event_occurred_at") = facts
            BY ONLY <1>1, <3>1, FillIs
        <3>3. At(d, "event_occurred_at") = {}
            BY <2>2 DEF At
        <3> QED BY <3>1, <3>2, <3>3 DEF Same
    <2> QED BY <2>1, <2>2
<1>4. DatabaseAt(t, dated, 14)
    <2>1. PICK k, l, S : k = 14 /\ l = 14 /\ S = {"event_occurred_at"}
        OBVIOUS
    <2>2. k \in 1..18 /\ l \in {k, k + 1} /\ DatabaseAt(t, d, k) /\ \A q : q \notin S => Same(dated, d, q)
        BY <1>3, <2>1
    <2>3. OthersKept(t, d, dated, k, l, S)
        BY ONLY <2>2, OthersStay
    <2>4. /\ Same(dated, d, "host_epoch") /\ Same(dated, d, "host_native") /\ Same(dated, d, "core_epoch")
          /\ Same(dated, d, "core_native") /\ Same(dated, d, "event_timestamp")
        BY <1>3
    <2>5. StampsAt(dated, 14)
        BY <1>1, <2>4 DEF StampsAt, StampAt, StampEqual, Same
    <2>6. RecordedAt(t, dated, "event_timestamp", "event_occurred_at")
        BY <1>1, <1>2, <1>3, <2>4 DEF Recorded, RecordedAt, Same
    <2> QED BY <1>1, <1>3, <2>1, <2>3, <2>5, <2>6 DEF DatabaseAt, Recorded, OthersKept
<1>5. PICK k, c : k = 14 /\ c = Fill(dated, "event_category", Categories(dated))
    OBVIOUS
<1>6. c.applied = dated.applied /\ DatabaseAt(t, c, k + 1)
    <2>1. k \in {4, 14} /\ DatabaseAt(t, dated, k)
        BY <1>4, <1>5
    <2> QED BY ONLY <1>5, <2>1, CategoriesFilled
<1>7. IsDatabase(c) /\ ~Has(c, "event_timestamp")
    BY <1>5, <1>6 DEF DatabaseAt, StampsAt, StampAt
<1>8. e = c
    <2>1. e = [c EXCEPT !.data = [p \in DOMAIN @ \ {"event_timestamp"} |-> @[p]]]
        BY <1>5 DEF Drop
    <2>2. DOMAIN c.data \ {"event_timestamp"} = DOMAIN c.data
        BY <1>7 DEF Has
    <2>3. PICK data : data = c.data /\ data = [p \in DOMAIN data |-> data[p]]
        BY <1>7 DEF IsDatabase
    <2>4. c = [applied |-> c.applied, data |-> data]
        BY <1>7, <2>3 DEF IsDatabase
    <2> QED BY <2>1, <2>2, <2>3, <2>4
<1>9. k + 1 = 15
    BY <1>5
<1> QED BY <1>3, <1>6, <1>8, <1>9

LEMMA NamesEnforced ==
    ASSUME NEW t, NEW d, DatabaseAt(t, d, 15),
           NEW e, e = Rename(d, "tenant_specific_field", "realm_identifier")
    PROVE  e.applied = d.applied /\ DatabaseAt(t, e, 16)
<1>1. IsDatabase(d) /\ Recorded(t, d) /\ NamesAt(d, 15)
    BY DEF DatabaseAt
<1>2. PICK old, new : /\ old = "tenant_specific_field" /\ new = "realm_identifier"
                      /\ e = Rename(d, old, new) /\ old # new
    OBVIOUS
<1>3. /\ IsDatabase(e) /\ e.applied = d.applied
      /\ \A q : q \notin {old, new} => Same(e, d, q)
      /\ IF Has(d, old) /\ ~Has(d, new) THEN ~Has(e, old) /\ At(e, new) = At(d, old)
         ELSE Same(e, d, old) /\ Same(e, d, new)
    BY ONLY <1>1, <1>2, RenameIs
<1>4. ~Has(e, old) /\ RecordedAt(t, e, old, new)
    BY <1>1, <1>2, <1>3 DEF NamesAt, Recorded, RecordedAt, Same
<1>5. NamesAt(e, 16)
    <2>1. Same(e, d, "uri") /\ Same(e, d, "resource_pair")
        BY <1>2, <1>3
    <2> QED BY <1>1, <1>2, <1>4, <2>1 DEF NamesAt, Same
<1>6. PICK S : S = {old, new}
    OBVIOUS
<1>7. /\ StampsAt(e, 16) /\ TasksAt(e, 16) /\ EventsAt(t, e, 16) /\ PayloadsAt(t, e, 16)
      /\ GroupsAt(t, e, 16) /\ Recorded(t, e)
    <2>1. PICK k, l : k = 15 /\ l = 16
        OBVIOUS
    <2>2. k \in 1..18 /\ l \in {k, k + 1} /\ DatabaseAt(t, d, k) /\ \A q : q \notin S => Same(e, d, q)
        BY <1>3, <1>6, <2>1
    <2>3. OthersKept(t, d, e, k, l, S)
        BY ONLY <2>2, OthersStay
    <2> QED BY <1>1, <1>2, <1>4, <1>6, <2>1, <2>3 DEF Recorded, OthersKept
<1> QED BY <1>3, <1>5, <1>7 DEF DatabaseAt

LEMMA LegacyDropped ==
    ASSUME NEW t, NEW d, DatabaseAt(t, d, 16),
           NEW c, c = Drop(d, {"core_epoch", "human_task_user", "human_task"}),
           NEW e, e = WithCoreHead(c)
    PROVE  e.applied = d.applied /\ DatabaseAt(t, e, 17)
<1>1. IsDatabase(d) /\ Recorded(t, d) /\ StampsAt(d, 16) /\ TasksAt(d, 16)
    BY DEF DatabaseAt
<1>2. PICK S : S = {"core_epoch", "human_task_user", "human_task"} /\ c = Drop(d, S)
    OBVIOUS
<1>3. /\ IsDatabase(c) /\ c.applied = d.applied
      /\ \A q : /\ Has(c, q) <=> q \notin S /\ Has(d, q)
                /\ At(c, q) = IF q \in S THEN {} ELSE At(d, q)
    BY ONLY <1>1, <1>2, DropIs
<1>4. \A q : q \notin S => Same(c, d, q)
    BY <1>3 DEF Same
<1>5. /\ ~Has(c, "core_epoch") /\ ~Has(c, "human_task_user") /\ ~Has(c, "human_task")
      /\ Same(c, d, "core_native") /\ Same(c, d, "work_item") /\ Same(c, d, "work_item_user")
      /\ Same(c, d, "host_epoch") /\ Same(c, d, "host_native") /\ Same(c, d, "event_timestamp")
      /\ Same(c, d, "event_occurred_at")
    BY <1>2, <1>3, <1>4
<1>6. /\ At(d, "core_native") = t["core_epoch"]
      /\ At(d, "work_item") = t["human_task"]
      /\ At(d, "work_item_user") = t["human_task_user"]
    BY <1>1 DEF Recorded, RecordedAt, StampsAt, StampAt, TasksAt
<1>7. /\ RecordedAt(t, c, "core_epoch", "core_native")
      /\ RecordedAt(t, c, "human_task", "work_item")
      /\ RecordedAt(t, c, "human_task_user", "work_item_user")
    BY <1>5, <1>6 DEF RecordedAt, Same
<1>8. StampsAt(c, 17)
    BY <1>1, <1>5 DEF StampsAt, StampAt, StampEqual, Same
<1>9. TasksAt(c, 17)
    BY <1>5 DEF TasksAt
<1>10. /\ NamesAt(c, 17) /\ EventsAt(t, c, 17) /\ PayloadsAt(t, c, 17) /\ GroupsAt(t, c, 17)
       /\ Recorded(t, c)
    <2>1. PICK k, l : k = 16 /\ l = 17
        OBVIOUS
    <2>2. k \in 1..18 /\ l \in {k, k + 1} /\ DatabaseAt(t, d, k) /\ \A q : q \notin S => Same(c, d, q)
        BY <1>4, <2>1
    <2>3. OthersKept(t, d, c, k, l, S)
        BY ONLY <2>2, OthersStay
    <2> QED BY <1>1, <1>2, <1>7, <2>1, <2>3 DEF Recorded, OthersKept
<1>11. DatabaseAt(t, c, 17)
    BY <1>3, <1>8, <1>9, <1>10 DEF DatabaseAt
<1>12. IsDatabase(e) /\ e.applied = c.applied /\ \A q : q # "core_marker" => Same(e, c, q)
    BY ONLY <1>3, e = WithCoreHead(c), CoreHeadIs
<1>13. DatabaseAt(t, e, 17)
    <2>1. PICK k, l : k = 17 /\ l = 17
        OBVIOUS
    <2>2. k \in {3, 10, 17, 18} /\ l \in {k, k + 1} /\ DatabaseAt(t, c, k)
        BY <1>11, <2>1
    <2>3. DatabaseAt(t, e, l)
        BY ONLY <1>12, <2>2, NothingMoved
    <2> QED BY <2>1, <2>3
<1> QED BY <1>3, <1>12, <1>13

(***************************************************************************)
(* The chain                                                               *)
(***************************************************************************)

\* The migration that the step s belongs to
MigrationOf(s) ==
    IF s = 1 THEN 1 ELSE IF s < 7 THEN 2 ELSE IF s = 7 THEN 3 ELSE IF s = 8 THEN 4
    ELSE IF s < 17 THEN 5 ELSE IF s = 17 THEN 6 ELSE 7

LEMMA ChainIs ==
    /\ Len(Upgrade) = 18 /\ DOMAIN Upgrade = 1..18
    /\ \A s \in 1..18 : Upgrade[s][1] = MigrationOf(s)
<1>1. Len(Upgrade) = 18 /\ DOMAIN Upgrade = 1..18
    BY DEF Upgrade
<1>2. ASSUME NEW s \in 1..18 PROVE Upgrade[s][1] = MigrationOf(s)
    BY DEF Upgrade, MigrationOf
<1> QED BY <1>1, <1>2

LEMMA NamesAre ==
    ASSUME NEW s \in 1..18
    PROVE  /\ Upgrade[s][2] = "createTables" => s = 1
           /\ Upgrade[s][2] = "timestamps" => s = 2
           /\ Upgrade[s][2] = "workItem" => s = 3
           /\ Upgrade[s][2] = "category" => s = 4
           /\ Upgrade[s][2] = "json" => s = 5
           /\ Upgrade[s][2] = "authorization" => s = 6
           /\ Upgrade[s][2] = "hostColumns" => s = 7
           /\ Upgrade[s][2] = "coreColumns" => s = 8
           /\ Upgrade[s][2] = "handoff" => s = 9
           /\ Upgrade[s][2] = "digests" => s = 10
           /\ Upgrade[s][2] = "workItems" => s = 11
           /\ Upgrade[s][2] = "assignments" => s = 12
           /\ Upgrade[s][2] = "targets" => s = 13
           /\ Upgrade[s][2] = "events" => s = 14
           /\ Upgrade[s][2] = "names" => s = 15
           /\ Upgrade[s][2] = "cleanup" => s = 16
           /\ Upgrade[s][2] = "marker" => s = 17
           /\ Upgrade[s][2] = "uniqueEvents" => s = 18
BY DEF Upgrade

LEMMA FirstStepIs == FirstStep(0) = 1 /\ FirstStep(1) = 2 /\ FirstStep(4) = 9
<1>1. ASSUME NEW applied \in {0, 1, 4}, NEW i \in 1..18, NEW j \in 1..18,
             MigrationOf(i) = applied + 1, \A h \in 1..(i - 1) : MigrationOf(h) <= applied,
             MigrationOf(j) = applied + 1, \A h \in 1..(j - 1) : MigrationOf(h) <= applied
      PROVE  i = j
    <2>1. ~(i < j) /\ ~(j < i)
        BY <1>1
    <2> QED BY <2>1
<1>2. ASSUME NEW applied \in {0, 1, 4}, NEW i \in 1..18,
             MigrationOf(i) = applied + 1, \A h \in 1..(i - 1) : MigrationOf(h) <= applied
      PROVE  FirstStep(applied) = i
    <2>1. \A j \in DOMAIN Upgrade : \A h \in 1..(j - 1) : h \in DOMAIN Upgrade
        BY ChainIs
    <2>2. FirstStep(applied) = CHOOSE j \in 1..18 : /\ MigrationOf(j) = applied + 1
                                                    /\ \A h \in 1..(j - 1) : MigrationOf(h) <= applied
        BY ChainIs, <2>1 DEF FirstStep
    <2> QED BY <1>1, <1>2, <2>2
<1>3. /\ MigrationOf(1) = 1 /\ MigrationOf(2) = 2 /\ MigrationOf(9) = 5
      /\ \A h \in 1..1 : MigrationOf(h) <= 1
      /\ \A h \in 1..8 : MigrationOf(h) <= 4
    BY DEF MigrationOf
<1> QED BY <1>2, <1>3

LEMMA ContentsAre ==
    /\ DOMAIN Contents = {"host_epoch", "core_epoch", "event_timestamp", "single_process_hash",
            "full_process_model_hash", "human_task", "human_task_user", "payload_reference",
            "json_data", "uri", "event_type", "group", "tenant_specific_field", "alembic_version",
            "core_marker"}
    /\ Contents["host_epoch"] = {"t"} /\ Contents["core_epoch"] = {"t"}
    /\ Contents["event_timestamp"] = {"t"} /\ Contents["payload_reference"] = {"tenant", "unknown"}
    /\ Contents["group"] = {"rbac", "lane"}
BY DEF Contents, ++

LEMMA SuccessorsAre ==
    /\ SuccessorOf["human_task"] = "work_item" /\ SuccessorOf["human_task_user"] = "work_item_user"
    /\ SuccessorOf["uri"] = "resource_pair" /\ SuccessorOf["tenant_specific_field"] = "realm_identifier"
    /\ SuccessorOf["host_epoch"] = "host_native" /\ SuccessorOf["core_epoch"] = "core_native"
    /\ SuccessorOf["event_timestamp"] = "event_occurred_at"
    /\ SuccessorOf["event_type"] = "event_category" /\ SuccessorOf["group"] = "authorization_key"
    /\ SuccessorOf["payload_reference"] = "tenant_json_data"
    /\ SuccessorOf["json_data"] = "tenant_json_data"
    /\ SuccessorOf["single_process_hash"] = "process_xml_digest"
    /\ SuccessorOf["full_process_model_hash"] = "process_xml_digest"
    /\ SuccessorOf["alembic_version"] = "core_marker" /\ SuccessorOf["core_marker"] = "core_marker"
<1>1. PICK stamps : stamps = [c \in {pair[1] : pair \in TIMESTAMP_COLUMNS} |->
                                (CHOOSE pair \in TIMESTAMP_COLUMNS : pair[1] = c)[2]]
    OBVIOUS
<1>2. /\ DOMAIN stamps = {"host_epoch", "core_epoch", "event_timestamp"}
      /\ stamps["host_epoch"] = "host_native" /\ stamps["core_epoch"] = "core_native"
      /\ stamps["event_timestamp"] = "event_occurred_at"
    <2>1. DOMAIN stamps = {"host_epoch", "core_epoch", "event_timestamp"}
        BY <1>1 DEF TIMESTAMP_COLUMNS, HostStamp, CoreStamp, EventStamp
    <2>2. \A c \in DOMAIN stamps : \E pair \in TIMESTAMP_COLUMNS : pair[1] = c /\ stamps[c] = pair[2]
        BY <1>1
    <2> QED BY <2>1, <2>2 DEF TIMESTAMP_COLUMNS, HostStamp, CoreStamp, EventStamp
<1> QED BY <1>1, <1>2 DEF SuccessorOf, ++

\* The stamp of a database says nothing of what it holds.
LEMMA Stamped ==
    ASSUME NEW t, NEW d, NEW k, DatabaseAt(t, d, k), NEW a, NEW e, e = [d EXCEPT !.applied = a]
    PROVE  e.applied = a /\ DatabaseAt(t, e, k)
<1>1. IsDatabase(d) /\ Recorded(t, d) /\ StampsAt(d, k) /\ TasksAt(d, k) /\ NamesAt(d, k)
    BY DEF DatabaseAt
<1>2. EventsAt(t, d, k) /\ PayloadsAt(t, d, k) /\ GroupsAt(t, d, k)
    BY DEF DatabaseAt
<1>3. e = [applied |-> a, data |-> d.data]
    BY <1>1 DEF IsDatabase
<1>4. e.applied = a /\ e.data = d.data
    BY <1>3
<1>5. IsDatabase(e) /\ \A q : Same(e, d, q)
    BY <1>1, <1>3, <1>4 DEF IsDatabase, Same, Has, At
<1>6. Recorded(t, e)
    BY <1>1, <1>4 DEF Recorded, RecordedAt, Has, At
<1>7. StampsAt(e, k)
    BY <1>1, <1>5, StampsStay
<1>8. TasksAt(e, k)
    BY <1>1, <1>5, TasksStay
<1>9. NamesAt(e, k)
    BY <1>1, <1>5, NamesStay
<1>10. EventsAt(t, e, k)
    BY <1>2, <1>5, EventsStay
<1>11. PayloadsAt(t, e, k)
    BY <1>2, <1>5, PayloadsStay
<1>12. GroupsAt(t, e, k)
    BY <1>2, <1>5, GroupsStay
<1> QED BY <1>4, <1>5, <1>6, <1>7, <1>8, <1>9, <1>10, <1>11, <1>12 DEF DatabaseAt

LEMMA WhileChainRuns ==
    ASSUME UpgradeIInv, ChainRuns
    PROVE  /\ TruthOK(truth) /\ Settled(truth, backup) /\ transactional \in BOOLEAN /\ ~halfDone
           /\ step \in 1..18 /\ database.applied = MigrationOf(step) - 1
           /\ goal = Latest \/ (goal = 4 /\ step < 9)
           /\ IsDatabase(database) /\ DatabaseAt(truth, database, step)
<1>1. step \in 1..18
    BY DEF UpgradeIInv, ChainRuns
<1> QED BY <1>1, ChainIs DEF UpgradeIInv, DatabaseAt

LEMMA StepDoneKeeps ==
    ASSUME UpgradeIInv, ChainRuns, NEW d, d.applied = database.applied,
           DatabaseAt(truth, d, step + 1), StepDone(d)
    PROVE  UpgradeIInv'
<1>1. /\ TruthOK(truth) /\ Settled(truth, backup) /\ transactional \in BOOLEAN /\ ~halfDone
      /\ step \in 1..18 /\ database.applied = MigrationOf(step) - 1
      /\ goal = Latest \/ (goal = 4 /\ step < 9)
    BY WhileChainRuns
<1>2. PICK applied : applied = IF step = 18 \/ MigrationOf(step + 1) # MigrationOf(step)
                               THEN MigrationOf(step) ELSE MigrationOf(step) - 1
    OBVIOUS
<1>3. /\ database' = [d EXCEPT !.applied = applied]
      /\ IF applied = goal THEN step' = 0 /\ backup' = database' ELSE step' = step + 1 /\ backup' = backup
      /\ UNCHANGED <<transactional, goal, halfDone, truth>>
    <2>1. step # 18 => step + 1 \in 1..18
        BY <1>1
    <2>2. Upgrade[step][1] = MigrationOf(step) /\ (step # 18 => Upgrade[step + 1][1] = MigrationOf(step + 1))
        BY <1>1, <2>1, ChainIs
    <2>3. Len(Upgrade) = 18
        BY ChainIs
    <2>4. applied = IF step = Len(Upgrade) \/ Upgrade[step + 1][1] # Upgrade[step][1]
                    THEN Upgrade[step][1] ELSE d.applied
        BY <1>1, <1>2, <2>2, <2>3
    <2> QED BY <2>4 DEF StepDone
<1>4. database'.applied = applied /\ DatabaseAt(truth, database', step + 1)
    <2>1. PICK k, e : k = step + 1 /\ e = [d EXCEPT !.applied = applied]
        OBVIOUS
    <2>2. DatabaseAt(truth, d, k)
        BY <2>1
    <2>3. e.applied = applied /\ DatabaseAt(truth, e, k)
        BY <2>1, <2>2, Stamped
    <2> QED BY <1>3, <2>1, <2>3
<1>5. CASE applied = goal
    <2>1. applied \in {4, Latest} /\ NextStep(applied) = step + 1
        BY <1>1, <1>2, <1>5 DEF MigrationOf, NextStep, Latest
    <2>2. Settled(truth', backup')
        <3>1. DatabaseAt(truth, database', NextStep(applied))
            BY <1>4, <2>1
        <3> QED BY <1>3, <1>4, <1>5, <2>1, <3>1 DEF Settled
    <2>3. /\ TruthOK(truth') /\ step' = 0 /\ transactional' \in BOOLEAN /\ ~halfDone'
          /\ halfDone' \in BOOLEAN /\ database' = backup'
        BY <1>1, <1>3, <1>5 DEF UpgradeIInv
    <2> QED BY <2>2, <2>3 DEF UpgradeIInv, ChainRuns
<1>6. CASE applied # goal
    <2>1. step + 1 \in 1..18 /\ MigrationOf(step + 1) - 1 = applied /\ (goal = 4 => step + 1 < 9)
        BY <1>1, <1>2, <1>6 DEF MigrationOf, Latest
    <2>2. step' = step + 1 /\ backup' = backup /\ step' # 0
        BY <1>3, <1>6, <2>1
    <2>3. database'.applied = Upgrade[step'][1] - 1
        BY <1>4, <2>1, <2>2, ChainIs
    <2>4. DatabaseAt(truth', database', step')
        BY <1>3, <1>4, <2>2
    <2>5. Settled(truth', backup')
        BY <1>1, <1>3, <2>2
    <2> QED BY <1>1, <1>3, <2>1, <2>2, <2>3, <2>4, <2>5 DEF UpgradeIInv, ChainRuns
<1> QED BY <1>5, <1>6

LEMMA AbortKeeps ==
    ASSUME UpgradeIInv, ChainRuns, AbortChain
    PROVE  UpgradeIInv'
<1>1. /\ TruthOK(truth) /\ Settled(truth, backup) /\ transactional \in BOOLEAN
      /\ step \in 1..18 /\ database.applied = MigrationOf(step) - 1
      /\ Recorded(truth, database)
    BY WhileChainRuns DEF DatabaseAt
<1>2. /\ step' = 0 /\ UNCHANGED <<backup, transactional, goal, truth>>
      /\ IF transactional THEN database' = backup /\ halfDone' = FALSE
         ELSE database' = database /\ halfDone' = TRUE
    BY DEF AbortChain
<1>3. Settled(truth', backup') /\ TruthOK(truth') /\ step' \in 0..18
    BY <1>1, <1>2
<1>4. database.applied < Latest
    BY <1>1 DEF MigrationOf, Latest
<1>5. CASE transactional
    BY <1>1, <1>2, <1>3, <1>5 DEF UpgradeIInv, ChainRuns
<1>6. CASE ~transactional
    <2>1. Recorded(truth', database') /\ database'.applied < Latest
        BY <1>1, <1>2, <1>4, <1>6
    <2> QED BY <1>1, <1>2, <1>3, <1>6, <2>1 DEF UpgradeIInv, ChainRuns
<1> QED BY <1>5, <1>6

LEMMA BetweenReleases ==
    ASSUME UpgradeIInv, ~ChainRuns, ~halfDone
    PROVE  /\ TruthOK(truth) /\ transactional \in BOOLEAN /\ step = 0 /\ database = backup
           /\ database.applied \in {Retired, 0, 1, 4, Latest}
           /\ DatabaseAt(truth, database, NextStep(database.applied))
BY DEF UpgradeIInv, Settled, ChainRuns

LEMMA StartKeeps ==
    ASSUME UpgradeIInv, NEW release \in Releases, StartUpgrade(release)
    PROVE  UpgradeIInv'
<1>1. ~ChainRuns /\ ~halfDone /\ release > database.applied /\ (database.applied < 1 => release = Latest)
    BY DEF StartUpgrade
<1>2. /\ TruthOK(truth) /\ transactional \in BOOLEAN /\ database = backup
      /\ database.applied \in {Retired, 0, 1, 4, Latest}
      /\ DatabaseAt(truth, database, NextStep(database.applied))
    BY <1>1, BetweenReleases
<1>3. PICK a, k : a = (IF database.applied = Retired THEN 0 ELSE database.applied) /\ k = FirstStep(a)
    OBVIOUS
<1>4. /\ a \in {0, 1, 4} /\ k \in 1..18 /\ k = NextStep(database.applied) /\ a = MigrationOf(k) - 1
      /\ release = Latest \/ (release = 4 /\ k < 9)
    BY <1>1, <1>2, <1>3, FirstStepIs DEF NextStep, MigrationOf, Retired, Latest, Releases
<1>5. PICK known : known = [database EXCEPT !.applied = a]
    OBVIOUS
<1>6. known.applied = a /\ DatabaseAt(truth, known, k)
    <2>1. DatabaseAt(truth, database, k)
        BY <1>2, <1>4
    <2> QED BY <1>5, <2>1, Stamped
<1>7. /\ known = [database EXCEPT !.applied = IF @ = Retired THEN 0 ELSE @]
      /\ backup' = database /\ database' = known /\ goal' = release /\ step' = FirstStep(known.applied)
      /\ UNCHANGED <<transactional, halfDone, truth>>
    <2>1. known = [database EXCEPT !.applied = IF database.applied = Retired THEN 0 ELSE database.applied]
        BY <1>3, <1>5
    <2> QED BY <2>1 DEF StartUpgrade
<1>8. step' = k /\ step' # 0 /\ database'.applied = Upgrade[step'][1] - 1
    BY <1>3, <1>4, <1>6, <1>7, ChainIs
<1>9. DatabaseAt(truth', database', step')
    BY <1>6, <1>7, <1>8
<1>10. Settled(truth', backup')
    BY <1>2, <1>7 DEF Settled
<1> QED BY <1>1, <1>2, <1>4, <1>7, <1>8, <1>9, <1>10 DEF UpgradeIInv, ChainRuns

LEMMA FirstReleasesKeep ==
    ASSUME UpgradeIInv,
           \/ CreateTables \/ AddTimestampColumns \/ CreateWorkItem \/ EventCategory
           \/ TenantScopeJsonData \/ AuthorizationSchema
           \/ RemoveHostEpochColumns \/ RemoveCoreEpochColumns
    PROVE  UpgradeIInv'
<1>1. ASSUME ChainRuns
      PROVE  step \in 1..18 /\ TruthOK(truth) /\ IsDatabase(database) /\ DatabaseAt(truth, database, step)
    BY <1>1, WhileChainRuns
<1>2. CASE CreateTables
    <2>1. ChainRuns /\ step = 1 /\ step + 1 = 2
        BY <1>1, <1>2, NamesAre DEF CreateTables, AtStep
    <2>2. PICK built, e :
            /\ built = Add(database, IF DOMAIN database.data = {} THEN NewTables \cup NewColumns \cup Kept
                                     ELSE NewTables)
            /\ e = IF Has(database, "core_marker") THEN built
                   ELSE Put(built, "core_marker", {<<"core_head", "core_head">>})
            /\ StepDone(e)
        BY <1>2 DEF CreateTables
    <2>3. DatabaseAt(truth, database, 1)
        BY <1>1, <2>1
    <2>4. e.applied = database.applied /\ DatabaseAt(truth, e, 2)
        BY ONLY <2>2, <2>3, TablesCreated
    <2>5. DatabaseAt(truth, e, step + 1)
        BY <2>1, <2>4
    <2> QED BY ONLY UpgradeIInv, <2>1, <2>2, <2>4, <2>5, StepDoneKeeps
<1>3. CASE AddTimestampColumns
    <2>1. ChainRuns /\ step = 2 /\ step + 1 = 3
        BY <1>1, <1>3, NamesAre DEF AddTimestampColumns, AtStep
    <2>2. PICK c, v, e :
            /\ c = FilledStamp(database, "core_epoch", "core_native")
            /\ v = FilledStamp(c, "event_timestamp", "event_occurred_at")
            /\ e = v \/ e = FilledStamp(v, "host_epoch", "host_native")
            /\ StepDone(e)
        <3>1. /\ CoreStamp[1] = "core_epoch" /\ CoreStamp[2] = "core_native"
              /\ EventStamp[1] = "event_timestamp" /\ EventStamp[2] = "event_occurred_at"
              /\ HostStamp[1] = "host_epoch" /\ HostStamp[2] = "host_native"
            BY DEF CoreStamp, EventStamp, HostStamp
        <3> QED BY <1>3, <3>1 DEF AddTimestampColumns, FilledStamp
    <2>3. DatabaseAt(truth, database, 2)
        BY <1>1, <2>1
    <2>4. e.applied = database.applied /\ DatabaseAt(truth, e, 3)
        BY ONLY <2>2, <2>3, TimestampsAdded
    <2>5. DatabaseAt(truth, e, step + 1)
        BY <2>1, <2>4
    <2> QED BY ONLY UpgradeIInv, <2>1, <2>2, <2>4, <2>5, StepDoneKeeps
<1>4. CASE CreateWorkItem
    <2>1. ChainRuns /\ step = 3
        BY <1>1, <1>4, NamesAre DEF CreateWorkItem, AtStep
    <2>2. PICK e : /\ e = IF Has(database, "human_task") /\ ~Has(database, "work_item")
                          THEN Put(database, "work_item", At(database, "human_task")) ELSE database
                   /\ StepDone(e)
        BY <1>4 DEF CreateWorkItem
    <2>3. PICK k, l : k = 3 /\ l = step + 1
        OBVIOUS
    <2>4. /\ k \in 1..11 /\ k \in {3, 10, 17, 18} /\ l \in {k, k + 1}
          /\ DatabaseAt(truth, database, k) /\ TruthOK(truth)
        BY <1>1, <2>1, <2>3
    <2>5. e.applied = database.applied /\ DatabaseAt(truth, e, k)
        BY ONLY <2>2, <2>4, WorkItemsCopied
    <2>6. IsDatabase(e) /\ \A q : q # "core_marker" => Same(e, e, q)
        BY <2>5 DEF DatabaseAt, Same
    <2>7. DatabaseAt(truth, e, l)
        BY ONLY <2>4, <2>5, <2>6, NothingMoved
    <2> QED BY ONLY UpgradeIInv, <2>1, <2>2, <2>3, <2>5, <2>7, StepDoneKeeps
<1>5. CASE EventCategory
    <2>1. ChainRuns /\ step = 4
        BY <1>1, <1>5, NamesAre DEF EventCategory, AtStep
    <2>2. PICK e : e = Fill(database, "event_category", Categories(database)) /\ StepDone(e)
        BY <1>5 DEF EventCategory
    <2>3. PICK k : k = step /\ k \in {4, 14} /\ DatabaseAt(truth, database, k)
        BY <1>1, <2>1
    <2>4. e.applied = database.applied /\ DatabaseAt(truth, e, k + 1)
        BY ONLY <2>2, <2>3, CategoriesFilled
    <2> QED BY ONLY UpgradeIInv, <2>1, <2>2, <2>3, <2>4, StepDoneKeeps
<1>6. CASE TenantScopeJsonData
    <2>1. ChainRuns /\ step = 5 /\ step + 1 = 6
        BY <1>1, <1>6, NamesAre DEF TenantScopeJsonData, AtStep
    <2>2. PICK references, unscoped, e :
            /\ references = At(database, "payload_reference")
            /\ unscoped = (Has(database, "json_data") /\ ~Has(database, "tenant_json_data"))
            /\ e = IF unscoped THEN Drop(Put(database, "tenant_json_data", references), {"json_data"})
                   ELSE database
            /\ \/ AbortChain
               \/ /\ ~(unscoped /\ \E f \in references :
                         f[2] = "unknown" \/ f[1] \notin RowsOf(At(database, "json_data")))
                  /\ StepDone(e)
        BY <1>6 DEF TenantScopeJsonData, Unless
    <2>3. CASE AbortChain
        BY <2>1, <2>3, AbortKeeps
    <2>4. CASE /\ ~(unscoped /\ \E f \in references :
                      f[2] = "unknown" \/ f[1] \notin RowsOf(At(database, "json_data")))
               /\ StepDone(e)
        <3>1. DatabaseAt(truth, database, 5) /\ TruthOK(truth)
            BY <1>1, <2>1
        <3>2. e.applied = database.applied /\ DatabaseAt(truth, e, 6)
            BY ONLY <2>2, <2>4, <3>1, JsonScoped
        <3>3. DatabaseAt(truth, e, step + 1)
            BY <2>1, <3>2
        <3> QED BY ONLY UpgradeIInv, <2>1, <2>4, <3>2, <3>3, StepDoneKeeps
    <2> QED BY <2>2, <2>3, <2>4
<1>7. CASE AuthorizationSchema
    <2>1. ChainRuns /\ step = 6 /\ step + 1 = 7
        BY <1>1, <1>7, NamesAre DEF AuthorizationSchema, AtStep
    <2>2. PICK groups, rbac, keyed, e :
            /\ groups = At(database, "group")
            /\ rbac = {f \in groups : f[2] = "rbac" /\ f[1] \notin RowsOf(At(database, "authorization_key"))}
            /\ keyed = IF Has(database, "group")
                       THEN Fill(database, "authorization_key", AuthorizationKeys(groups)) ELSE database
            /\ e = Add(keyed, {"resource_pair"})
            /\ AbortChain \/ (~(Cardinality(rbac) > 1) /\ StepDone(e))
        BY <1>7 DEF AuthorizationSchema, Unless
    <2>3. CASE AbortChain
        BY <2>1, <2>3, AbortKeeps
    <2>4. CASE ~(Cardinality(rbac) > 1) /\ StepDone(e)
        <3>1. DatabaseAt(truth, database, 6) /\ TruthOK(truth)
            BY <1>1, <2>1
        <3>2. e.applied = database.applied /\ DatabaseAt(truth, e, 7)
            BY ONLY <2>2, <2>4, <3>1, GroupsKeyed
        <3>3. DatabaseAt(truth, e, step + 1)
            BY <2>1, <3>2
        <3> QED BY ONLY UpgradeIInv, <2>1, <2>4, <3>2, <3>3, StepDoneKeeps
    <2> QED BY <2>2, <2>3, <2>4
<1>8. CASE RemoveHostEpochColumns
    <2>1. ChainRuns /\ step = 7 /\ step + 1 = 8
        BY <1>1, <1>8, NamesAre DEF RemoveHostEpochColumns, AtStep
    <2>2. PICK repaired, e :
            /\ repaired = IF Has(database, "host_epoch") /\ ~Has(database, "host_native")
                          THEN Put(database, "host_native", At(database, "host_epoch")) ELSE database
            /\ e = Drop(repaired, {"host_epoch"})
            /\ StepDone(e)
        BY <1>8 DEF RemoveHostEpochColumns
    <2>3. DatabaseAt(truth, database, 7)
        BY <1>1, <2>1
    <2>4. e.applied = database.applied /\ DatabaseAt(truth, e, 8)
        BY ONLY <2>2, <2>3, HostEpochsDropped
    <2>5. DatabaseAt(truth, e, step + 1)
        BY <2>1, <2>4
    <2> QED BY ONLY UpgradeIInv, <2>1, <2>2, <2>4, <2>5, StepDoneKeeps
<1>9. CASE RemoveCoreEpochColumns
    <2>1. ChainRuns /\ step = 8 /\ step + 1 = 9
        BY <1>1, <1>9, NamesAre DEF RemoveCoreEpochColumns, AtStep
    <2>2. PICK e : e = Drop(database, {"core_epoch", "event_timestamp"}) /\ StepDone(e)
        BY <1>9 DEF RemoveCoreEpochColumns
    <2>3. DatabaseAt(truth, database, 8)
        BY <1>1, <2>1
    <2>4. e.applied = database.applied /\ DatabaseAt(truth, e, 9)
        BY ONLY <2>2, <2>3, CoreEpochsDropped
    <2>5. DatabaseAt(truth, e, step + 1)
        BY <2>1, <2>4
    <2> QED BY ONLY UpgradeIInv, <2>1, <2>2, <2>4, <2>5, StepDoneKeeps
<1> QED BY <1>2, <1>3, <1>4, <1>5, <1>6, <1>7, <1>8, <1>9

LEMMA ContractKeeps ==
    ASSUME UpgradeIInv,
           \/ CompleteHandoff \/ ValidateProcessDigests \/ MigrateWorkItems \/ MigrateAssignments
           \/ MigratePermissionTargets \/ MigrateEvents \/ EnforceIdentityAndNames \/ DropLegacy
           \/ IsolateCoreMarker \/ UniqueCompletionEvents
    PROVE  UpgradeIInv'
<1>1. ASSUME ChainRuns
      PROVE  step \in 1..18 /\ TruthOK(truth) /\ IsDatabase(database) /\ DatabaseAt(truth, database, step)
    BY <1>1, WhileChainRuns
<1>2. CASE CompleteHandoff
    <2>1. ChainRuns /\ step = 9 /\ step + 1 = 10
        BY <1>1, <1>2, NamesAre DEF CompleteHandoff, AtStep
    <2>2. PICK e :
            /\ e = Rename(database, "group", "m8f_group")
            /\ AbortChain \/ StepDone(e)
        BY <1>2 DEF CompleteHandoff, Unless
    <2>3. CASE AbortChain
        BY <2>1, <2>3, AbortKeeps
    <2>4. CASE StepDone(e)
        <3>1. DatabaseAt(truth, database, 9)
            BY <1>1, <2>1
        <3>2. e.applied = database.applied /\ DatabaseAt(truth, e, 10)
            BY ONLY <2>2, <2>4, <3>1, GroupRenamed
        <3>3. DatabaseAt(truth, e, step + 1)
            BY <2>1, <3>2
        <3> QED BY ONLY UpgradeIInv, <2>1, <2>4, <3>2, <3>3, StepDoneKeeps
    <2> QED BY <2>2, <2>3, <2>4
<1>3. CASE ValidateProcessDigests
    <2>1. ChainRuns /\ step = 10
        BY <1>1, <1>3, NamesAre DEF ValidateProcessDigests, AtStep
    <2>2. PICK e : e = database /\ (AbortChain \/ StepDone(e))
        BY <1>3 DEF ValidateProcessDigests, Unless
    <2>3. CASE AbortChain
        BY <2>1, <2>3, AbortKeeps
    <2>4. CASE StepDone(e)
        <3>1. PICK k, l : k = step /\ l = step + 1
            OBVIOUS
        <3>2. k \in {3, 10, 17, 18} /\ l \in {k, k + 1} /\ DatabaseAt(truth, database, k) /\ IsDatabase(database)
            BY <1>1, <2>1, <3>1
        <3>3. IsDatabase(e) /\ e.applied = database.applied /\ \A q : q # "core_marker" => Same(e, database, q)
            BY <2>2, <3>2 DEF Same
        <3>4. DatabaseAt(truth, e, l)
            BY ONLY <3>2, <3>3, NothingMoved
        <3> QED BY ONLY UpgradeIInv, <2>1, <2>4, <3>1, <3>3, <3>4, StepDoneKeeps
    <2> QED BY <2>2, <2>3, <2>4
<1>4. CASE MigrateWorkItems
    <2>1. ChainRuns /\ step = 11 /\ step + 1 = 12
        BY <1>1, <1>4, NamesAre DEF MigrateWorkItems, AtStep
    <2>2. PICK e :
            /\ e = IF Has(database, "human_task") /\ ~Has(database, "work_item")
                   THEN Put(database, "work_item", At(database, "human_task")) ELSE database
            /\ AbortChain \/ (Backfilled(At(e, "human_task"), At(e, "work_item")) /\ StepDone(e))
        BY <1>4 DEF MigrateWorkItems, Unless
    <2>3. CASE AbortChain
        BY <2>1, <2>3, AbortKeeps
    <2>4. CASE Backfilled(At(e, "human_task"), At(e, "work_item")) /\ StepDone(e)
        <3>1. DatabaseAt(truth, database, 11) /\ TruthOK(truth)
            BY <1>1, <2>1
        <3>2. e.applied = database.applied /\ DatabaseAt(truth, e, 12)
            BY ONLY <2>2, <2>4, <3>1, WorkItemsChecked
        <3>3. DatabaseAt(truth, e, step + 1)
            BY <2>1, <3>2
        <3> QED BY ONLY UpgradeIInv, <2>1, <2>4, <3>2, <3>3, StepDoneKeeps
    <2> QED BY <2>2, <2>3, <2>4
<1>5. CASE MigrateAssignments
    <2>1. ChainRuns /\ step = 12 /\ step + 1 = 13
        BY <1>1, <1>5, NamesAre DEF MigrateAssignments, AtStep
    <2>2. PICK assigned, e :
            /\ assigned = At(database, "human_task_user")
            /\ e = IF Has(database, "human_task_user") THEN Fill(database, "work_item_user", assigned)
                   ELSE database
            /\ AbortChain \/ StepDone(e)
        BY <1>5 DEF MigrateAssignments, Unless
    <2>3. CASE AbortChain
        BY <2>1, <2>3, AbortKeeps
    <2>4. CASE StepDone(e)
        <3>1. DatabaseAt(truth, database, 12)
            BY <1>1, <2>1
        <3>2. e.applied = database.applied /\ DatabaseAt(truth, e, 13)
            BY ONLY <2>2, <2>4, <3>1, AssignmentsMoved
        <3>3. DatabaseAt(truth, e, step + 1)
            BY <2>1, <3>2
        <3> QED BY ONLY UpgradeIInv, <2>1, <2>4, <3>2, <3>3, StepDoneKeeps
    <2> QED BY <2>2, <2>3, <2>4
<1>6. CASE MigratePermissionTargets
    <2>1. ChainRuns /\ step = 13 /\ step + 1 = 14
        BY <1>1, <1>6, NamesAre DEF MigratePermissionTargets, AtStep
    <2>2. PICK paired, e :
            /\ paired = Fill(database, "resource_pair", At(database, "uri"))
            /\ e = Drop(paired, {"uri"})
            /\ AbortChain \/ StepDone(e)
        BY <1>6 DEF MigratePermissionTargets, Unless
    <2>3. CASE AbortChain
        BY <2>1, <2>3, AbortKeeps
    <2>4. CASE StepDone(e)
        <3>1. DatabaseAt(truth, database, 13)
            BY <1>1, <2>1
        <3>2. e.applied = database.applied /\ DatabaseAt(truth, e, 14)
            BY ONLY <2>2, <2>4, <3>1, TargetsPaired
        <3>3. DatabaseAt(truth, e, step + 1)
            BY <2>1, <3>2
        <3> QED BY ONLY UpgradeIInv, <2>1, <2>4, <3>2, <3>3, StepDoneKeeps
    <2> QED BY <2>2, <2>3, <2>4
<1>7. CASE MigrateEvents
    <2>1. ChainRuns /\ step = 14 /\ step + 1 = 15
        BY <1>1, <1>7, NamesAre DEF MigrateEvents, AtStep
    <2>2. PICK dated, e :
            /\ dated = IF Has(database, "event_occurred_at") THEN database
                       ELSE Fill(database, "event_occurred_at", At(database, "event_timestamp"))
            /\ e = Drop(Fill(dated, "event_category", Categories(dated)), {"event_timestamp"})
            /\ AbortChain \/ StepDone(e)
        BY <1>7 DEF MigrateEvents, Unless
    <2>3. CASE AbortChain
        BY <2>1, <2>3, AbortKeeps
    <2>4. CASE StepDone(e)
        <3>1. DatabaseAt(truth, database, 14)
            BY <1>1, <2>1
        <3>2. e.applied = database.applied /\ DatabaseAt(truth, e, 15)
            BY ONLY <2>2, <2>4, <3>1, EventsMoved
        <3>3. DatabaseAt(truth, e, step + 1)
            BY <2>1, <3>2
        <3> QED BY ONLY UpgradeIInv, <2>1, <2>4, <3>2, <3>3, StepDoneKeeps
    <2> QED BY <2>2, <2>3, <2>4
<1>8. CASE EnforceIdentityAndNames
    <2>1. ChainRuns /\ step = 15 /\ step + 1 = 16
        BY <1>1, <1>8, NamesAre DEF EnforceIdentityAndNames, AtStep
    <2>2. PICK e :
            /\ e = Rename(database, "tenant_specific_field", "realm_identifier")
            /\ StepDone(e)
        BY <1>8 DEF EnforceIdentityAndNames
    <2>3. DatabaseAt(truth, database, 15)
        BY <1>1, <2>1
    <2>4. e.applied = database.applied /\ DatabaseAt(truth, e, 16)
        BY ONLY <2>2, <2>3, NamesEnforced
    <2>5. DatabaseAt(truth, e, step + 1)
        BY <2>1, <2>4
    <2> QED BY ONLY UpgradeIInv, <2>1, <2>2, <2>4, <2>5, StepDoneKeeps
<1>9. CASE DropLegacy
    <2>1. ChainRuns /\ step = 16 /\ step + 1 = 17
        BY <1>1, <1>9, NamesAre DEF DropLegacy, AtStep
    <2>2. PICK c, e :
            /\ c = Drop(database, {"core_epoch", "human_task_user", "human_task"})
            /\ e = WithCoreHead(c)
            /\ StepDone(e)
        BY <1>9 DEF DropLegacy
    <2>3. DatabaseAt(truth, database, 16)
        BY <1>1, <2>1
    <2>4. e.applied = database.applied /\ DatabaseAt(truth, e, 17)
        BY ONLY <2>2, <2>3, LegacyDropped
    <2>5. DatabaseAt(truth, e, step + 1)
        BY <2>1, <2>4
    <2> QED BY ONLY UpgradeIInv, <2>1, <2>2, <2>4, <2>5, StepDoneKeeps
<1>10. CASE IsolateCoreMarker
    <2>1. ChainRuns /\ step = 17
        BY <1>1, <1>10, NamesAre DEF IsolateCoreMarker, AtStep
    <2>2. PICK e : e = WithCoreHead(database) /\ (AbortChain \/ StepDone(e))
        BY <1>10 DEF IsolateCoreMarker, Unless
    <2>3. CASE AbortChain
        BY <2>1, <2>3, AbortKeeps
    <2>4. CASE StepDone(e)
        <3>1. PICK k, l : k = step /\ l = step + 1
            OBVIOUS
        <3>2. k \in {3, 10, 17, 18} /\ l \in {k, k + 1} /\ DatabaseAt(truth, database, k) /\ IsDatabase(database)
            BY <1>1, <2>1, <3>1
        <3>3. IsDatabase(e) /\ e.applied = database.applied /\ \A q : q # "core_marker" => Same(e, database, q)
            BY ONLY <2>2, <3>2, CoreHeadIs
        <3>4. DatabaseAt(truth, e, l)
            BY ONLY <3>2, <3>3, NothingMoved
        <3> QED BY ONLY UpgradeIInv, <2>1, <2>4, <3>1, <3>3, <3>4, StepDoneKeeps
    <2> QED BY <2>2, <2>3, <2>4
<1>11. CASE UniqueCompletionEvents
    <2>1. ChainRuns /\ step = 18
        BY <1>1, <1>11, NamesAre DEF UniqueCompletionEvents, AtStep
    <2>2. PICK e : e = database /\ (AbortChain \/ StepDone(e))
        BY <1>11 DEF UniqueCompletionEvents, Unless
    <2>3. CASE AbortChain
        BY <2>1, <2>3, AbortKeeps
    <2>4. CASE StepDone(e)
        <3>1. PICK k, l : k = step /\ l = step + 1
            OBVIOUS
        <3>2. k \in {3, 10, 17, 18} /\ l \in {k, k + 1} /\ DatabaseAt(truth, database, k) /\ IsDatabase(database)
            BY <1>1, <2>1, <3>1
        <3>3. IsDatabase(e) /\ e.applied = database.applied /\ \A q : q # "core_marker" => Same(e, database, q)
            BY <2>2, <3>2 DEF Same
        <3>4. DatabaseAt(truth, e, l)
            BY ONLY <3>2, <3>3, NothingMoved
        <3> QED BY ONLY UpgradeIInv, <2>1, <2>4, <3>1, <3>3, <3>4, StepDoneKeeps
    <2> QED BY <2>2, <2>3, <2>4
<1> QED BY <1>2, <1>3, <1>4, <1>5, <1>6, <1>7, <1>8, <1>9, <1>10, <1>11

LEMMA RecoveryKeeps ==
    ASSUME UpgradeIInv, UpgradeDies \/ RestoreBackup
    PROVE  UpgradeIInv'
<1>1. CASE UpgradeDies
    BY <1>1, AbortKeeps DEF UpgradeDies
<1>2. CASE RestoreBackup
    <2>1. /\ database' = backup /\ halfDone' = FALSE
          /\ UNCHANGED <<backup, transactional, step, goal, truth>>
        BY <1>2 DEF RestoreBackup
    <2>2. TruthOK(truth) /\ Settled(truth, backup) /\ step = 0 /\ transactional \in BOOLEAN
        BY <1>2 DEF UpgradeIInv, RestoreBackup, ChainRuns
    <2>3. TruthOK(truth') /\ Settled(truth', backup')
        BY <2>1, <2>2
    <2> QED BY <2>1, <2>2, <2>3 DEF UpgradeIInv, ChainRuns
<1> QED BY <1>1, <1>2

(***************************************************************************)
(* Between two upgrades                                                    *)
(***************************************************************************)

LEMMA ValueReplaced ==
    ASSUME NEW S, OneEach(S), NEW f \in S, NEW v, NEW r, r = (S \ {f}) \cup {<<f[1], v>>}
    PROVE  OneEach(r)
<1>1. \A g \in S \ {f} : g[1] # f[1]
    BY DEF OneEach
<1>2. <<f[1], v>>[1] = f[1]
    OBVIOUS
<1> QED BY <1>1, <1>2 DEF OneEach

LEMMA FactRemoved ==
    ASSUME NEW S, NEW f \in S, NEW r, r = S \ {f}
    PROVE  /\ OneEach(S) => /\ OneEach(r) /\ r = {g \in S : g[1] # f[1]}
                            /\ RowsOf(r) = RowsOf(S) \ {f[1]}
           /\ IsFiniteSet(S) => IsFiniteSet(r)
<1>1. ASSUME OneEach(S) PROVE OneEach(r) /\ r = {g \in S : g[1] # f[1]}
    <2>1. \A g \in S \ {f} : g[1] # f[1]
        BY <1>1 DEF OneEach
    <2> QED BY <1>1, <2>1 DEF OneEach
<1>2. ASSUME r = {g \in S : g[1] # f[1]} PROVE RowsOf(r) = RowsOf(S) \ {f[1]}
    BY <1>2 DEF RowsOf
<1> QED BY <1>1, <1>2, FS_Subset

\* What was recorded at other places keeps its meaning.
LEMMA TruthElsewhere ==
    ASSUME NEW t, NEW u, NEW e, NEW k
    PROVE  /\ u["event_type"] = t["event_type"] => (EventsAt(u, e, k) <=> EventsAt(t, e, k))
           /\ u["payload_reference"] = t["payload_reference"] => (PayloadsAt(u, e, k) <=> PayloadsAt(t, e, k))
           /\ u["group"] = t["group"] => (GroupsAt(u, e, k) <=> GroupsAt(t, e, k))
           /\ \A old, new : u[old] = t[old] => (RecordedAt(u, e, old, new) <=> RecordedAt(t, e, old, new))
<1>1. u["event_type"] = t["event_type"] => (EventsAt(u, e, k) <=> EventsAt(t, e, k))
    BY DEF EventsAt
<1>2. u["payload_reference"] = t["payload_reference"] => (PayloadsAt(u, e, k) <=> PayloadsAt(t, e, k))
    BY DEF PayloadsAt
<1>3. u["group"] = t["group"] => (GroupsAt(u, e, k) <=> GroupsAt(t, e, k))
    BY DEF GroupsAt
<1>4. \A old, new : u[old] = t[old] => (RecordedAt(u, e, old, new) <=> RecordedAt(t, e, old, new))
    BY DEF RecordedAt
<1> QED BY <1>1, <1>2, <1>3, <1>4

\* What is recorded at the place p is u, and t elsewhere.
ChangedAt(t, u, p) == \A q \in DOMAIN Contents : q # p => u[q] = t[q]
\* d becomes e at the places S only.
ChangesAt(d, e, S) == IsDatabase(e) /\ \A q : q \notin S => Same(e, d, q)

LEMMA OthersUnchanged ==
    ASSUME NEW t, NEW d, NEW k \in {1, 2, 9}, DatabaseAt(t, d, k), NEW e, NEW S, ChangesAt(d, e, S)
    PROVE  OthersKept(t, d, e, k, k, S) /\ IsDatabase(e) /\ Recorded(t, d)
<1>1. k \in 1..18 /\ k \in {k, k + 1} /\ \A q : q \notin S => Same(e, d, q)
    BY DEF ChangesAt
<1>2. PICK l : l = k
    OBVIOUS
<1>3. l \in {k, k + 1}
    BY <1>2
<1>4. OthersKept(t, d, e, k, l, S)
    BY ONLY <1>1, <1>3, DatabaseAt(t, d, k), OthersStay
<1> QED BY <1>2, <1>4 DEF DatabaseAt, ChangesAt

LEMMA RecordedElsewhere ==
    ASSUME NEW t, NEW d, NEW e, NEW k, NEW S, OthersKept(t, d, e, k, k, S), Recorded(t, d),
           NEW u, NEW p, ChangedAt(t, u, p), NEW old \in DOMAIN Contents \ {p}, NEW new,
           old \notin S, new \notin S, RecordedAt(t, d, old, new)
    PROVE  RecordedAt(u, e, old, new)
<1>1. u[old] = t[old]
    BY DEF ChangedAt
<1>2. RecordedAt(t, e, old, new)
    BY DEF OthersKept
<1> QED BY <1>1, <1>2 DEF RecordedAt

LEMMA TasksChanged ==
    ASSUME NEW t, NEW d, NEW k \in {1, 2, 9}, DatabaseAt(t, d, k), NEW e,
           ChangesAt(d, e, {"human_task", "work_item"}), Has(e, "human_task"),
           Has(e, "work_item") => /\ OneEach(At(e, "work_item"))
                                  /\ RowsOf(At(e, "work_item")) \subseteq RowsOf(At(e, "human_task")),
           NEW u, ChangedAt(t, u, "human_task"), u["human_task"] = At(e, "human_task")
    PROVE  DatabaseAt(u, e, k)
<1>1. PICK S : S = {"human_task", "work_item"} /\ ChangesAt(d, e, S)
    OBVIOUS
<1>2. OthersKept(t, d, e, k, k, S) /\ IsDatabase(e) /\ Recorded(t, d)
    BY <1>1, OthersUnchanged
<1>3. TasksAt(e, k)
    <2>1. Same(e, d, "human_task_user") /\ Same(e, d, "work_item_user")
        BY <1>1 DEF ChangesAt
    <2>2. At(d, "human_task_user") = At(e, "human_task_user") /\ TasksAt(d, k)
        BY <2>1 DEF DatabaseAt, Same
    <2> QED BY <2>1, <2>2 DEF TasksAt, Same
<1>4. StampsAt(e, k) /\ NamesAt(e, k) /\ EventsAt(t, e, k) /\ PayloadsAt(t, e, k) /\ GroupsAt(t, e, k)
    BY <1>1, <1>2 DEF OthersKept
<1>5. /\ u["event_type"] = t["event_type"] /\ u["payload_reference"] = t["payload_reference"]
      /\ u["group"] = t["group"] /\ u["human_task_user"] = t["human_task_user"] /\ u["uri"] = t["uri"]
      /\ u["tenant_specific_field"] = t["tenant_specific_field"] /\ u["host_epoch"] = t["host_epoch"]
      /\ u["core_epoch"] = t["core_epoch"] /\ u["event_timestamp"] = t["event_timestamp"]
    BY ContentsAre DEF ChangedAt
<1>6. EventsAt(u, e, k) /\ PayloadsAt(u, e, k) /\ GroupsAt(u, e, k)
    BY <1>4, <1>5, TruthElsewhere
<1>7. Recorded(u, e)
    <2>1. {"human_task_user", "uri", "tenant_specific_field", "host_epoch",
           "core_epoch", "event_timestamp"}
          \subseteq DOMAIN Contents \ {"human_task"}
        BY ContentsAre
    <2>2. RecordedAt(u, e, "human_task_user", "work_item_user")
        BY <1>1, <1>2, <2>1, RecordedElsewhere DEF Recorded
    <2>3. RecordedAt(u, e, "uri", "resource_pair")
        BY <1>1, <1>2, <2>1, RecordedElsewhere DEF Recorded
    <2>4. RecordedAt(u, e, "tenant_specific_field", "realm_identifier")
        BY <1>1, <1>2, <2>1, RecordedElsewhere DEF Recorded
    <2>5. RecordedAt(u, e, "host_epoch", "host_native")
        BY <1>1, <1>2, <2>1, RecordedElsewhere DEF Recorded
    <2>6. RecordedAt(u, e, "core_epoch", "core_native")
        BY <1>1, <1>2, <2>1, RecordedElsewhere DEF Recorded
    <2>7. RecordedAt(u, e, "event_timestamp", "event_occurred_at")
        BY <1>1, <1>2, <2>1, RecordedElsewhere DEF Recorded
    <2>8. RecordedAt(u, e, "human_task", "work_item")
        BY DEF RecordedAt
    <2> QED BY <2>2, <2>3, <2>4, <2>5, <2>6, <2>7, <2>8 DEF Recorded
<1> QED BY <1>2, <1>3, <1>4, <1>6, <1>7 DEF DatabaseAt

LEMMA AssignmentsChanged ==
    ASSUME NEW t, NEW d, NEW k \in {1, 2, 9}, DatabaseAt(t, d, k), NEW e,
           ChangesAt(d, e, {"human_task_user", "work_item_user"}),
           Has(e, "human_task_user"),
           At(e, "work_item_user") = {},
           NEW u, ChangedAt(t, u, "human_task_user"), u["human_task_user"] = At(e, "human_task_user")
    PROVE  DatabaseAt(u, e, k)
<1>1. PICK S : S = {"human_task_user", "work_item_user"} /\ ChangesAt(d, e, S)
    OBVIOUS
<1>2. OthersKept(t, d, e, k, k, S) /\ IsDatabase(e) /\ Recorded(t, d)
    BY <1>1, OthersUnchanged
<1>3. /\ u["human_task"] = t["human_task"] /\ u["uri"] = t["uri"]
      /\ u["tenant_specific_field"] = t["tenant_specific_field"]
      /\ u["host_epoch"] = t["host_epoch"] /\ u["core_epoch"] = t["core_epoch"]
      /\ u["event_timestamp"] = t["event_timestamp"] /\ u["event_type"] = t["event_type"]
      /\ u["payload_reference"] = t["payload_reference"] /\ u["group"] = t["group"]
    BY ContentsAre DEF ChangedAt
<1>4. TasksAt(e, k)
    <2>1. Same(e, d, "human_task") /\ Same(e, d, "work_item") /\ TasksAt(d, k)
        BY <1>1 DEF ChangesAt, DatabaseAt
    <2> QED BY <2>1 DEF TasksAt, Same
<1>5. StampsAt(e, k) /\ NamesAt(e, k) /\ EventsAt(t, e, k) /\ PayloadsAt(t, e, k) /\ GroupsAt(t, e, k)
    BY <1>1, <1>2 DEF OthersKept
<1>6. EventsAt(u, e, k) /\ PayloadsAt(u, e, k) /\ GroupsAt(u, e, k)
    BY <1>3, <1>5, TruthElsewhere
<1>7. Recorded(u, e)
    <2>1. {"human_task", "uri", "tenant_specific_field", "host_epoch",
           "core_epoch", "event_timestamp"}
          \subseteq DOMAIN Contents \ {"human_task_user"}
        BY ContentsAre
    <2>2. RecordedAt(u, e, "human_task", "work_item")
        BY <1>1, <1>2, <2>1, RecordedElsewhere DEF Recorded
    <2>3. RecordedAt(u, e, "uri", "resource_pair")
        BY <1>1, <1>2, <2>1, RecordedElsewhere DEF Recorded
    <2>4. RecordedAt(u, e, "tenant_specific_field", "realm_identifier")
        BY <1>1, <1>2, <2>1, RecordedElsewhere DEF Recorded
    <2>5. RecordedAt(u, e, "host_epoch", "host_native")
        BY <1>1, <1>2, <2>1, RecordedElsewhere DEF Recorded
    <2>6. RecordedAt(u, e, "core_epoch", "core_native")
        BY <1>1, <1>2, <2>1, RecordedElsewhere DEF Recorded
    <2>7. RecordedAt(u, e, "event_timestamp", "event_occurred_at")
        BY <1>1, <1>2, <2>1, RecordedElsewhere DEF Recorded
    <2>8. RecordedAt(u, e, "human_task_user", "work_item_user")
        BY DEF RecordedAt
    <2> QED BY <2>2, <2>3, <2>4, <2>5, <2>6, <2>7, <2>8 DEF Recorded
<1> QED BY <1>2, <1>4, <1>5, <1>6, <1>7 DEF DatabaseAt

LEMMA TargetsChanged ==
    ASSUME NEW t, NEW d, NEW k \in {1, 2, 9}, DatabaseAt(t, d, k), NEW e,
           ChangesAt(d, e, {"uri", "resource_pair"}),
           Has(d, "uri") /\ Has(e, "uri"),
           At(e, "resource_pair") = {},
           NEW u, ChangedAt(t, u, "uri"), u["uri"] = At(e, "uri")
    PROVE  DatabaseAt(u, e, k)
<1>1. PICK S : S = {"uri", "resource_pair"} /\ ChangesAt(d, e, S)
    OBVIOUS
<1>2. OthersKept(t, d, e, k, k, S) /\ IsDatabase(e) /\ Recorded(t, d)
    BY <1>1, OthersUnchanged
<1>3. /\ u["human_task"] = t["human_task"] /\ u["human_task_user"] = t["human_task_user"]
      /\ u["tenant_specific_field"] = t["tenant_specific_field"]
      /\ u["host_epoch"] = t["host_epoch"] /\ u["core_epoch"] = t["core_epoch"]
      /\ u["event_timestamp"] = t["event_timestamp"] /\ u["event_type"] = t["event_type"]
      /\ u["payload_reference"] = t["payload_reference"] /\ u["group"] = t["group"]
    BY ContentsAre DEF ChangedAt
<1>4. NamesAt(e, k)
    <2>1. /\ Same(e, d, "tenant_specific_field") /\ Same(e, d, "realm_identifier") /\ NamesAt(d, k)
        BY <1>1 DEF ChangesAt, DatabaseAt
    <2> QED BY <2>1 DEF NamesAt, Same
<1>5. StampsAt(e, k) /\ TasksAt(e, k) /\ EventsAt(t, e, k) /\ PayloadsAt(t, e, k) /\ GroupsAt(t, e, k)
    BY <1>1, <1>2 DEF OthersKept
<1>6. EventsAt(u, e, k) /\ PayloadsAt(u, e, k) /\ GroupsAt(u, e, k)
    BY <1>3, <1>5, TruthElsewhere
<1>7. Recorded(u, e)
    <2>1. {"human_task", "human_task_user", "tenant_specific_field", "host_epoch",
           "core_epoch", "event_timestamp"}
          \subseteq DOMAIN Contents \ {"uri"}
        BY ContentsAre
    <2>2. RecordedAt(u, e, "human_task", "work_item")
        BY <1>1, <1>2, <2>1, RecordedElsewhere DEF Recorded
    <2>3. RecordedAt(u, e, "human_task_user", "work_item_user")
        BY <1>1, <1>2, <2>1, RecordedElsewhere DEF Recorded
    <2>4. RecordedAt(u, e, "tenant_specific_field", "realm_identifier")
        BY <1>1, <1>2, <2>1, RecordedElsewhere DEF Recorded
    <2>5. RecordedAt(u, e, "host_epoch", "host_native")
        BY <1>1, <1>2, <2>1, RecordedElsewhere DEF Recorded
    <2>6. RecordedAt(u, e, "core_epoch", "core_native")
        BY <1>1, <1>2, <2>1, RecordedElsewhere DEF Recorded
    <2>7. RecordedAt(u, e, "event_timestamp", "event_occurred_at")
        BY <1>1, <1>2, <2>1, RecordedElsewhere DEF Recorded
    <2>8. RecordedAt(u, e, "uri", "resource_pair")
        BY DEF RecordedAt
    <2> QED BY <2>2, <2>3, <2>4, <2>5, <2>6, <2>7, <2>8 DEF Recorded
<1> QED BY <1>2, <1>4, <1>5, <1>6, <1>7 DEF DatabaseAt

LEMMA RealmChanged ==
    ASSUME NEW t, NEW d, NEW k \in {1, 2, 9}, DatabaseAt(t, d, k), NEW e,
           ChangesAt(d, e, {"tenant_specific_field", "realm_identifier"}),
           Has(e, "tenant_specific_field") /\ ~Has(e, "realm_identifier"),
           NEW u, ChangedAt(t, u, "tenant_specific_field"), u["tenant_specific_field"] = At(e, "tenant_specific_field")
    PROVE  DatabaseAt(u, e, k)
<1>1. PICK S : S = {"tenant_specific_field", "realm_identifier"} /\ ChangesAt(d, e, S)
    OBVIOUS
<1>2. OthersKept(t, d, e, k, k, S) /\ IsDatabase(e) /\ Recorded(t, d)
    BY <1>1, OthersUnchanged
<1>3. /\ u["human_task"] = t["human_task"] /\ u["human_task_user"] = t["human_task_user"]
      /\ u["uri"] = t["uri"] /\ u["host_epoch"] = t["host_epoch"]
      /\ u["core_epoch"] = t["core_epoch"] /\ u["event_timestamp"] = t["event_timestamp"]
      /\ u["event_type"] = t["event_type"] /\ u["payload_reference"] = t["payload_reference"]
      /\ u["group"] = t["group"]
    BY ContentsAre DEF ChangedAt
<1>4. NamesAt(e, k)
    <2>1. Same(e, d, "uri") /\ Same(e, d, "resource_pair") /\ NamesAt(d, k)
        BY <1>1 DEF ChangesAt, DatabaseAt
    <2> QED BY <2>1 DEF NamesAt, Same
<1>5. StampsAt(e, k) /\ TasksAt(e, k) /\ EventsAt(t, e, k) /\ PayloadsAt(t, e, k) /\ GroupsAt(t, e, k)
    BY <1>1, <1>2 DEF OthersKept
<1>6. EventsAt(u, e, k) /\ PayloadsAt(u, e, k) /\ GroupsAt(u, e, k)
    BY <1>3, <1>5, TruthElsewhere
<1>7. Recorded(u, e)
    <2>1. {"human_task", "human_task_user", "uri", "host_epoch",
           "core_epoch", "event_timestamp"}
          \subseteq DOMAIN Contents \ {"tenant_specific_field"}
        BY ContentsAre
    <2>2. RecordedAt(u, e, "human_task", "work_item")
        BY <1>1, <1>2, <2>1, RecordedElsewhere DEF Recorded
    <2>3. RecordedAt(u, e, "human_task_user", "work_item_user")
        BY <1>1, <1>2, <2>1, RecordedElsewhere DEF Recorded
    <2>4. RecordedAt(u, e, "uri", "resource_pair")
        BY <1>1, <1>2, <2>1, RecordedElsewhere DEF Recorded
    <2>5. RecordedAt(u, e, "host_epoch", "host_native")
        BY <1>1, <1>2, <2>1, RecordedElsewhere DEF Recorded
    <2>6. RecordedAt(u, e, "core_epoch", "core_native")
        BY <1>1, <1>2, <2>1, RecordedElsewhere DEF Recorded
    <2>7. RecordedAt(u, e, "event_timestamp", "event_occurred_at")
        BY <1>1, <1>2, <2>1, RecordedElsewhere DEF Recorded
    <2>8. RecordedAt(u, e, "tenant_specific_field", "realm_identifier")
        BY DEF RecordedAt
    <2> QED BY <2>2, <2>3, <2>4, <2>5, <2>6, <2>7, <2>8 DEF Recorded
<1> QED BY <1>2, <1>4, <1>5, <1>6, <1>7 DEF DatabaseAt

LEMMA HostStampChanged ==
    ASSUME NEW t, NEW d, NEW k \in {1, 2, 9}, DatabaseAt(t, d, k), NEW e,
           ChangesAt(d, e, {"host_epoch", "host_native"}),
           Has(d, "host_epoch") /\ Has(e, "host_epoch"),
           Has(e, "host_native") <=> Has(d, "host_native"),
           Has(e, "host_native") => At(e, "host_native") = At(e, "host_epoch"),
           NEW u, ChangedAt(t, u, "host_epoch"), u["host_epoch"] = At(e, "host_epoch")
    PROVE  DatabaseAt(u, e, k)
<1>1. PICK S : S = {"host_epoch", "host_native"} /\ ChangesAt(d, e, S)
    OBVIOUS
<1>2. OthersKept(t, d, e, k, k, S) /\ IsDatabase(e) /\ Recorded(t, d)
    BY <1>1, OthersUnchanged
<1>3. /\ u["human_task"] = t["human_task"] /\ u["human_task_user"] = t["human_task_user"]
      /\ u["uri"] = t["uri"] /\ u["tenant_specific_field"] = t["tenant_specific_field"]
      /\ u["core_epoch"] = t["core_epoch"] /\ u["event_timestamp"] = t["event_timestamp"]
      /\ u["event_type"] = t["event_type"] /\ u["payload_reference"] = t["payload_reference"]
      /\ u["group"] = t["group"]
    BY ContentsAre DEF ChangedAt
<1>4. StampsAt(e, k)
    <2>1. /\ Same(e, d, "core_epoch") /\ Same(e, d, "core_native")
          /\ Same(e, d, "event_timestamp") /\ Same(e, d, "event_occurred_at")
          /\ StampsAt(d, k)
        BY <1>1 DEF ChangesAt, DatabaseAt
    <2> QED BY <2>1 DEF StampsAt, StampAt, StampEqual, Same
<1>5. TasksAt(e, k) /\ NamesAt(e, k) /\ EventsAt(t, e, k) /\ PayloadsAt(t, e, k) /\ GroupsAt(t, e, k)
    BY <1>1, <1>2 DEF OthersKept
<1>6. EventsAt(u, e, k) /\ PayloadsAt(u, e, k) /\ GroupsAt(u, e, k)
    BY <1>3, <1>5, TruthElsewhere
<1>7. Recorded(u, e)
    <2>1. {"human_task", "human_task_user", "uri", "tenant_specific_field",
           "core_epoch", "event_timestamp"}
          \subseteq DOMAIN Contents \ {"host_epoch"}
        BY ContentsAre
    <2>2. RecordedAt(u, e, "human_task", "work_item")
        BY <1>1, <1>2, <2>1, RecordedElsewhere DEF Recorded
    <2>3. RecordedAt(u, e, "human_task_user", "work_item_user")
        BY <1>1, <1>2, <2>1, RecordedElsewhere DEF Recorded
    <2>4. RecordedAt(u, e, "uri", "resource_pair")
        BY <1>1, <1>2, <2>1, RecordedElsewhere DEF Recorded
    <2>5. RecordedAt(u, e, "tenant_specific_field", "realm_identifier")
        BY <1>1, <1>2, <2>1, RecordedElsewhere DEF Recorded
    <2>6. RecordedAt(u, e, "core_epoch", "core_native")
        BY <1>1, <1>2, <2>1, RecordedElsewhere DEF Recorded
    <2>7. RecordedAt(u, e, "event_timestamp", "event_occurred_at")
        BY <1>1, <1>2, <2>1, RecordedElsewhere DEF Recorded
    <2>8. RecordedAt(u, e, "host_epoch", "host_native")
        BY DEF RecordedAt
    <2> QED BY <2>2, <2>3, <2>4, <2>5, <2>6, <2>7, <2>8 DEF Recorded
<1> QED BY <1>2, <1>4, <1>5, <1>6, <1>7 DEF DatabaseAt

LEMMA CoreStampChanged ==
    ASSUME NEW t, NEW d, NEW k \in {1, 2, 9}, DatabaseAt(t, d, k), NEW e,
           ChangesAt(d, e, {"core_epoch", "core_native"}),
           Has(d, "core_epoch") /\ Has(e, "core_epoch"),
           Has(e, "core_native") <=> Has(d, "core_native"),
           Has(e, "core_native") => At(e, "core_native") = At(e, "core_epoch"),
           NEW u, ChangedAt(t, u, "core_epoch"), u["core_epoch"] = At(e, "core_epoch")
    PROVE  DatabaseAt(u, e, k)
<1>1. PICK S : S = {"core_epoch", "core_native"} /\ ChangesAt(d, e, S)
    OBVIOUS
<1>2. OthersKept(t, d, e, k, k, S) /\ IsDatabase(e) /\ Recorded(t, d)
    BY <1>1, OthersUnchanged
<1>3. /\ u["human_task"] = t["human_task"] /\ u["human_task_user"] = t["human_task_user"]
      /\ u["uri"] = t["uri"] /\ u["tenant_specific_field"] = t["tenant_specific_field"]
      /\ u["host_epoch"] = t["host_epoch"] /\ u["event_timestamp"] = t["event_timestamp"]
      /\ u["event_type"] = t["event_type"] /\ u["payload_reference"] = t["payload_reference"]
      /\ u["group"] = t["group"]
    BY ContentsAre DEF ChangedAt
<1>4. StampsAt(e, k)
    <2>1. /\ Same(e, d, "host_epoch") /\ Same(e, d, "host_native")
          /\ Same(e, d, "event_timestamp") /\ Same(e, d, "event_occurred_at")
          /\ StampsAt(d, k)
        BY <1>1 DEF ChangesAt, DatabaseAt
    <2> QED BY <2>1 DEF StampsAt, StampAt, StampEqual, Same
<1>5. TasksAt(e, k) /\ NamesAt(e, k) /\ EventsAt(t, e, k) /\ PayloadsAt(t, e, k) /\ GroupsAt(t, e, k)
    BY <1>1, <1>2 DEF OthersKept
<1>6. EventsAt(u, e, k) /\ PayloadsAt(u, e, k) /\ GroupsAt(u, e, k)
    BY <1>3, <1>5, TruthElsewhere
<1>7. Recorded(u, e)
    <2>1. {"human_task", "human_task_user", "uri", "tenant_specific_field",
           "host_epoch", "event_timestamp"}
          \subseteq DOMAIN Contents \ {"core_epoch"}
        BY ContentsAre
    <2>2. RecordedAt(u, e, "human_task", "work_item")
        BY <1>1, <1>2, <2>1, RecordedElsewhere DEF Recorded
    <2>3. RecordedAt(u, e, "human_task_user", "work_item_user")
        BY <1>1, <1>2, <2>1, RecordedElsewhere DEF Recorded
    <2>4. RecordedAt(u, e, "uri", "resource_pair")
        BY <1>1, <1>2, <2>1, RecordedElsewhere DEF Recorded
    <2>5. RecordedAt(u, e, "tenant_specific_field", "realm_identifier")
        BY <1>1, <1>2, <2>1, RecordedElsewhere DEF Recorded
    <2>6. RecordedAt(u, e, "host_epoch", "host_native")
        BY <1>1, <1>2, <2>1, RecordedElsewhere DEF Recorded
    <2>7. RecordedAt(u, e, "event_timestamp", "event_occurred_at")
        BY <1>1, <1>2, <2>1, RecordedElsewhere DEF Recorded
    <2>8. RecordedAt(u, e, "core_epoch", "core_native")
        BY DEF RecordedAt
    <2> QED BY <2>2, <2>3, <2>4, <2>5, <2>6, <2>7, <2>8 DEF Recorded
<1> QED BY <1>2, <1>4, <1>5, <1>6, <1>7 DEF DatabaseAt

LEMMA EventStampChanged ==
    ASSUME NEW t, NEW d, NEW k \in {1, 2, 9}, DatabaseAt(t, d, k), NEW e,
           ChangesAt(d, e, {"event_timestamp", "event_occurred_at"}),
           Has(d, "event_timestamp") /\ Has(e, "event_timestamp"),
           Has(e, "event_occurred_at") <=> Has(d, "event_occurred_at"),
           Has(e, "event_occurred_at") => At(e, "event_occurred_at") = At(e, "event_timestamp"),
           NEW u, ChangedAt(t, u, "event_timestamp"), u["event_timestamp"] = At(e, "event_timestamp")
    PROVE  DatabaseAt(u, e, k)
<1>1. PICK S : S = {"event_timestamp", "event_occurred_at"} /\ ChangesAt(d, e, S)
    OBVIOUS
<1>2. OthersKept(t, d, e, k, k, S) /\ IsDatabase(e) /\ Recorded(t, d)
    BY <1>1, OthersUnchanged
<1>3. /\ u["human_task"] = t["human_task"] /\ u["human_task_user"] = t["human_task_user"]
      /\ u["uri"] = t["uri"] /\ u["tenant_specific_field"] = t["tenant_specific_field"]
      /\ u["host_epoch"] = t["host_epoch"] /\ u["core_epoch"] = t["core_epoch"]
      /\ u["event_type"] = t["event_type"] /\ u["payload_reference"] = t["payload_reference"]
      /\ u["group"] = t["group"]
    BY ContentsAre DEF ChangedAt
<1>4. StampsAt(e, k)
    <2>1. /\ Same(e, d, "host_epoch") /\ Same(e, d, "host_native")
          /\ Same(e, d, "core_epoch") /\ Same(e, d, "core_native")
          /\ StampsAt(d, k)
        BY <1>1 DEF ChangesAt, DatabaseAt
    <2> QED BY <2>1 DEF StampsAt, StampAt, StampEqual, Same
<1>5. TasksAt(e, k) /\ NamesAt(e, k) /\ EventsAt(t, e, k) /\ PayloadsAt(t, e, k) /\ GroupsAt(t, e, k)
    BY <1>1, <1>2 DEF OthersKept
<1>6. EventsAt(u, e, k) /\ PayloadsAt(u, e, k) /\ GroupsAt(u, e, k)
    BY <1>3, <1>5, TruthElsewhere
<1>7. Recorded(u, e)
    <2>1. {"human_task", "human_task_user", "uri", "tenant_specific_field",
           "host_epoch", "core_epoch"}
          \subseteq DOMAIN Contents \ {"event_timestamp"}
        BY ContentsAre
    <2>2. RecordedAt(u, e, "human_task", "work_item")
        BY <1>1, <1>2, <2>1, RecordedElsewhere DEF Recorded
    <2>3. RecordedAt(u, e, "human_task_user", "work_item_user")
        BY <1>1, <1>2, <2>1, RecordedElsewhere DEF Recorded
    <2>4. RecordedAt(u, e, "uri", "resource_pair")
        BY <1>1, <1>2, <2>1, RecordedElsewhere DEF Recorded
    <2>5. RecordedAt(u, e, "tenant_specific_field", "realm_identifier")
        BY <1>1, <1>2, <2>1, RecordedElsewhere DEF Recorded
    <2>6. RecordedAt(u, e, "host_epoch", "host_native")
        BY <1>1, <1>2, <2>1, RecordedElsewhere DEF Recorded
    <2>7. RecordedAt(u, e, "core_epoch", "core_native")
        BY <1>1, <1>2, <2>1, RecordedElsewhere DEF Recorded
    <2>8. RecordedAt(u, e, "event_timestamp", "event_occurred_at")
        BY DEF RecordedAt
    <2> QED BY <2>2, <2>3, <2>4, <2>5, <2>6, <2>7, <2>8 DEF Recorded
<1> QED BY <1>2, <1>4, <1>5, <1>6, <1>7 DEF DatabaseAt

LEMMA EventsChanged ==
    ASSUME NEW t, NEW d, NEW k \in {1, 2, 9}, DatabaseAt(t, d, k), NEW e,
           ChangesAt(d, e, {"event_type", "event_category"}),
           At(e, "event_category") = IF k > 4 THEN Categories(e) ELSE {},
           NEW u, ChangedAt(t, u, "event_type"), u["event_type"] = At(e, "event_type")
    PROVE  DatabaseAt(u, e, k)
<1>1. PICK S : S = {"event_type", "event_category"} /\ ChangesAt(d, e, S)
    OBVIOUS
<1>2. OthersKept(t, d, e, k, k, S) /\ IsDatabase(e) /\ Recorded(t, d)
    BY <1>1, OthersUnchanged
<1>3. /\ u["human_task"] = t["human_task"] /\ u["human_task_user"] = t["human_task_user"]
      /\ u["uri"] = t["uri"] /\ u["tenant_specific_field"] = t["tenant_specific_field"]
      /\ u["host_epoch"] = t["host_epoch"] /\ u["core_epoch"] = t["core_epoch"]
      /\ u["event_timestamp"] = t["event_timestamp"]
      /\ u["payload_reference"] = t["payload_reference"] /\ u["group"] = t["group"]
    BY ContentsAre DEF ChangedAt
<1>4. EventsAt(u, e, k)
    BY DEF EventsAt
<1>5. StampsAt(e, k) /\ TasksAt(e, k) /\ NamesAt(e, k) /\ PayloadsAt(t, e, k) /\ GroupsAt(t, e, k)
    BY <1>1, <1>2 DEF OthersKept
<1>6. PayloadsAt(u, e, k) /\ GroupsAt(u, e, k)
    BY <1>3, <1>5, TruthElsewhere
<1>7. Recorded(u, e)
    <2>1. {"human_task", "human_task_user", "uri", "tenant_specific_field",
           "host_epoch", "core_epoch", "event_timestamp"}
          \subseteq DOMAIN Contents \ {"event_type"}
        BY ContentsAre
    <2>2. RecordedAt(u, e, "human_task", "work_item")
        BY <1>1, <1>2, <2>1, RecordedElsewhere DEF Recorded
    <2>3. RecordedAt(u, e, "human_task_user", "work_item_user")
        BY <1>1, <1>2, <2>1, RecordedElsewhere DEF Recorded
    <2>4. RecordedAt(u, e, "uri", "resource_pair")
        BY <1>1, <1>2, <2>1, RecordedElsewhere DEF Recorded
    <2>5. RecordedAt(u, e, "tenant_specific_field", "realm_identifier")
        BY <1>1, <1>2, <2>1, RecordedElsewhere DEF Recorded
    <2>6. RecordedAt(u, e, "host_epoch", "host_native")
        BY <1>1, <1>2, <2>1, RecordedElsewhere DEF Recorded
    <2>7. RecordedAt(u, e, "core_epoch", "core_native")
        BY <1>1, <1>2, <2>1, RecordedElsewhere DEF Recorded
    <2>8. RecordedAt(u, e, "event_timestamp", "event_occurred_at")
        BY <1>1, <1>2, <2>1, RecordedElsewhere DEF Recorded
    <2> QED BY <2>2, <2>3, <2>4, <2>5, <2>6, <2>7, <2>8 DEF Recorded
<1> QED BY <1>2, <1>4, <1>5, <1>6, <1>7 DEF DatabaseAt

LEMMA PayloadsChanged ==
    ASSUME NEW t, NEW d, NEW k \in {1, 2, 9}, DatabaseAt(t, d, k), NEW e,
           ChangesAt(d, e, {"payload_reference", "tenant_json_data"}),
           Has(d, "json_data") => ~Has(e, "tenant_json_data"),
           ~Has(d, "json_data") => /\ At(e, "tenant_json_data") = At(e, "payload_reference")
                                  /\ OneEach(At(e, "payload_reference")),
           NEW u, ChangedAt(t, u, "payload_reference"), u["payload_reference"] = At(e, "payload_reference")
    PROVE  DatabaseAt(u, e, k)
<1>1. PICK S : S = {"payload_reference", "tenant_json_data"} /\ ChangesAt(d, e, S)
    OBVIOUS
<1>2. OthersKept(t, d, e, k, k, S) /\ IsDatabase(e) /\ Recorded(t, d)
    BY <1>1, OthersUnchanged
<1>3. /\ u["human_task"] = t["human_task"] /\ u["human_task_user"] = t["human_task_user"]
      /\ u["uri"] = t["uri"] /\ u["tenant_specific_field"] = t["tenant_specific_field"]
      /\ u["host_epoch"] = t["host_epoch"] /\ u["core_epoch"] = t["core_epoch"]
      /\ u["event_timestamp"] = t["event_timestamp"] /\ u["event_type"] = t["event_type"]
      /\ u["group"] = t["group"]
    BY ContentsAre DEF ChangedAt
<1>4. PayloadsAt(u, e, k)
    <2>1. Same(e, d, "json_data") /\ PayloadsAt(t, d, k)
        BY <1>1 DEF ChangesAt, DatabaseAt
    <2> QED BY <2>1 DEF PayloadsAt, Same
<1>5. StampsAt(e, k) /\ TasksAt(e, k) /\ NamesAt(e, k) /\ EventsAt(t, e, k) /\ GroupsAt(t, e, k)
    BY <1>1, <1>2 DEF OthersKept
<1>6. EventsAt(u, e, k) /\ GroupsAt(u, e, k)
    BY <1>3, <1>5, TruthElsewhere
<1>7. Recorded(u, e)
    <2>1. {"human_task", "human_task_user", "uri", "tenant_specific_field",
           "host_epoch", "core_epoch", "event_timestamp"}
          \subseteq DOMAIN Contents \ {"payload_reference"}
        BY ContentsAre
    <2>2. RecordedAt(u, e, "human_task", "work_item")
        BY <1>1, <1>2, <2>1, RecordedElsewhere DEF Recorded
    <2>3. RecordedAt(u, e, "human_task_user", "work_item_user")
        BY <1>1, <1>2, <2>1, RecordedElsewhere DEF Recorded
    <2>4. RecordedAt(u, e, "uri", "resource_pair")
        BY <1>1, <1>2, <2>1, RecordedElsewhere DEF Recorded
    <2>5. RecordedAt(u, e, "tenant_specific_field", "realm_identifier")
        BY <1>1, <1>2, <2>1, RecordedElsewhere DEF Recorded
    <2>6. RecordedAt(u, e, "host_epoch", "host_native")
        BY <1>1, <1>2, <2>1, RecordedElsewhere DEF Recorded
    <2>7. RecordedAt(u, e, "core_epoch", "core_native")
        BY <1>1, <1>2, <2>1, RecordedElsewhere DEF Recorded
    <2>8. RecordedAt(u, e, "event_timestamp", "event_occurred_at")
        BY <1>1, <1>2, <2>1, RecordedElsewhere DEF Recorded
    <2> QED BY <2>2, <2>3, <2>4, <2>5, <2>6, <2>7, <2>8 DEF Recorded
<1> QED BY <1>2, <1>4, <1>5, <1>6, <1>7 DEF DatabaseAt

LEMMA GroupsChanged ==
    ASSUME NEW t, NEW d, NEW k \in {1, 2, 9}, DatabaseAt(t, d, k), NEW e,
           ChangesAt(d, e, {"group", "authorization_key"}),
           Has(e, "group"),
           k <= 6 => At(e, "authorization_key") = {},
           k > 6 => /\ RowsOf(At(e, "authorization_key")) = RowsOf(At(e, "group"))
                    /\ Distinct(At(e, "authorization_key")),
           NEW u, ChangedAt(t, u, "group"), u["group"] = At(e, "group")
    PROVE  DatabaseAt(u, e, k)
<1>1. PICK S : S = {"group", "authorization_key"} /\ ChangesAt(d, e, S)
    OBVIOUS
<1>2. OthersKept(t, d, e, k, k, S) /\ IsDatabase(e) /\ Recorded(t, d)
    BY <1>1, OthersUnchanged
<1>3. /\ u["human_task"] = t["human_task"] /\ u["human_task_user"] = t["human_task_user"]
      /\ u["uri"] = t["uri"] /\ u["tenant_specific_field"] = t["tenant_specific_field"]
      /\ u["host_epoch"] = t["host_epoch"] /\ u["core_epoch"] = t["core_epoch"]
      /\ u["event_timestamp"] = t["event_timestamp"] /\ u["event_type"] = t["event_type"]
      /\ u["payload_reference"] = t["payload_reference"]
    BY ContentsAre DEF ChangedAt
<1>4. GroupsAt(u, e, k)
    BY DEF GroupsAt
<1>5. StampsAt(e, k) /\ TasksAt(e, k) /\ NamesAt(e, k) /\ EventsAt(t, e, k) /\ PayloadsAt(t, e, k)
    BY <1>1, <1>2 DEF OthersKept
<1>6. EventsAt(u, e, k) /\ PayloadsAt(u, e, k)
    BY <1>3, <1>5, TruthElsewhere
<1>7. Recorded(u, e)
    <2>1. {"human_task", "human_task_user", "uri", "tenant_specific_field",
           "host_epoch", "core_epoch", "event_timestamp"}
          \subseteq DOMAIN Contents \ {"group"}
        BY ContentsAre
    <2>2. RecordedAt(u, e, "human_task", "work_item")
        BY <1>1, <1>2, <2>1, RecordedElsewhere DEF Recorded
    <2>3. RecordedAt(u, e, "human_task_user", "work_item_user")
        BY <1>1, <1>2, <2>1, RecordedElsewhere DEF Recorded
    <2>4. RecordedAt(u, e, "uri", "resource_pair")
        BY <1>1, <1>2, <2>1, RecordedElsewhere DEF Recorded
    <2>5. RecordedAt(u, e, "tenant_specific_field", "realm_identifier")
        BY <1>1, <1>2, <2>1, RecordedElsewhere DEF Recorded
    <2>6. RecordedAt(u, e, "host_epoch", "host_native")
        BY <1>1, <1>2, <2>1, RecordedElsewhere DEF Recorded
    <2>7. RecordedAt(u, e, "core_epoch", "core_native")
        BY <1>1, <1>2, <2>1, RecordedElsewhere DEF Recorded
    <2>8. RecordedAt(u, e, "event_timestamp", "event_occurred_at")
        BY <1>1, <1>2, <2>1, RecordedElsewhere DEF Recorded
    <2> QED BY <2>2, <2>3, <2>4, <2>5, <2>6, <2>7, <2>8 DEF Recorded
<1> QED BY <1>2, <1>4, <1>5, <1>6, <1>7 DEF DatabaseAt

\* Nothing is said of what the other places hold.
Unsaid == {"single_process_hash", "full_process_model_hash", "json_data", "alembic_version", "core_marker"}
LEMMA UnsaidChanged ==
    ASSUME NEW t, NEW d, NEW k \in {1, 2, 9}, DatabaseAt(t, d, k), NEW e,
           ChangesAt(d, e, Unsaid \cup {"process_xml_digest"}), Has(e, "json_data") <=> Has(d, "json_data"),
           NEW p \in Unsaid, NEW u, ChangedAt(t, u, p)
    PROVE  DatabaseAt(u, e, k)
<1>1. PICK S : S = Unsaid \cup {"process_xml_digest"} /\ ChangesAt(d, e, S)
    OBVIOUS
<1>2. OthersKept(t, d, e, k, k, S) /\ IsDatabase(e) /\ Recorded(t, d)
    BY <1>1, OthersUnchanged
<1>3. /\ u["human_task"] = t["human_task"] /\ u["human_task_user"] = t["human_task_user"]
      /\ u["uri"] = t["uri"] /\ u["tenant_specific_field"] = t["tenant_specific_field"]
      /\ u["host_epoch"] = t["host_epoch"] /\ u["core_epoch"] = t["core_epoch"]
      /\ u["event_timestamp"] = t["event_timestamp"] /\ u["event_type"] = t["event_type"]
      /\ u["payload_reference"] = t["payload_reference"] /\ u["group"] = t["group"]
    BY ContentsAre DEF ChangedAt, Unsaid
<1>4. PayloadsAt(u, e, k)
    <2>1. Same(e, d, "payload_reference") /\ Same(e, d, "tenant_json_data") /\ PayloadsAt(t, d, k)
        BY <1>1 DEF ChangesAt, DatabaseAt, Unsaid
    <2> QED BY <1>3, <2>1 DEF PayloadsAt, Same
<1>5. StampsAt(e, k) /\ TasksAt(e, k) /\ NamesAt(e, k) /\ EventsAt(t, e, k) /\ GroupsAt(t, e, k)
    BY <1>1, <1>2 DEF OthersKept, Unsaid
<1>6. EventsAt(u, e, k) /\ GroupsAt(u, e, k)
    BY <1>3, <1>5, TruthElsewhere
<1>7. Recorded(u, e)
    <2>1. S \cap {"human_task", "work_item", "human_task_user", "work_item_user", "uri", "resource_pair",
                  "tenant_specific_field", "realm_identifier", "host_epoch", "host_native", "core_epoch",
                  "core_native", "event_timestamp", "event_occurred_at"} = {}
        BY <1>1 DEF Unsaid
    <2> QED BY <1>2, <1>3, <2>1, TruthElsewhere DEF Recorded, OthersKept
<1> QED BY <1>2, <1>4, <1>5, <1>6, <1>7 DEF DatabaseAt

LEMMA DataChanged ==
    ASSUME UpgradeIInv, NEW d, ~ChainRuns, ~halfDone, database' = d, backup' = d,
           d.applied = database.applied, TruthOK(truth'),
           DatabaseAt(truth', d, NextStep(database.applied)),
           UNCHANGED <<transactional, step, halfDone>>
    PROVE  UpgradeIInv'
<1>1. step = 0 /\ transactional \in BOOLEAN /\ d.applied \in {Retired, 0, 1, 4, Latest}
    BY BetweenReleases
<1>2. Settled(truth', backup')
    BY <1>1 DEF Settled
<1> QED BY <1>1, <1>2 DEF UpgradeIInv, ChainRuns

LEMMA TruthStands ==
    ASSUME NEW t, NEW d, NEW k, DatabaseAt(t, d, k), NEW p \in OneValued \cup {"payload_reference"}, Has(d, p)
    PROVE  At(d, p) = t[p]
BY DEF DatabaseAt, Recorded, RecordedAt, EventsAt, PayloadsAt, GroupsAt, OneValued

\* The place p may hold r.
FitsAt(p, r) ==
    /\ p \in OneValued => OneEach(r)
    /\ p = "group" => IsFiniteSet(r)
    /\ p = "payload_reference" => r \in SUBSET (Rows \X {"tenant", "unknown"})

LEMMA TruthChanged ==
    ASSUME NEW t, TruthOK(t), NEW p \in DOMAIN Contents, NEW r, FitsAt(p, r),
           NEW u, u = [q \in DOMAIN Contents |-> u[q]], ChangedAt(t, u, p), u[p] = r
    PROVE  TruthOK(u)
<1>2. \A q \in DOMAIN Contents : q # p => u[q] = t[q]
    BY DEF ChangedAt
<1>4. OneValued \cup {"payload_reference"} \subseteq DOMAIN Contents
    BY ContentsAre DEF OneValued
<1>5. ASSUME NEW q \in OneValued PROVE OneEach(u[q])
    <2>1. CASE q = p
        BY <1>2, <2>1 DEF FitsAt
    <2>2. CASE q # p
        BY <1>2, <1>4, <2>2 DEF TruthOK
    <2> QED BY <2>1, <2>2
<1>6. IsFiniteSet(u["group"])
    <2>1. "group" \in DOMAIN Contents
        BY <1>4 DEF OneValued
    <2> QED BY <1>2, <2>1 DEF TruthOK, FitsAt
<1>7. u["payload_reference"] \in SUBSET (Rows \X {"tenant", "unknown"})
    BY <1>2, <1>4 DEF TruthOK, FitsAt
<1> QED BY <1>5, <1>6, <1>7 DEF TruthOK

LEMMA BeforeRepair ==
    ASSUME UpgradeIInv, BetweenUpgrades
    PROVE  /\ ~ChainRuns /\ ~halfDone /\ TruthOK(truth)
           /\ NextStep(database.applied) \in {1, 2, 9}
           /\ IsDatabase(database) /\ DatabaseAt(truth, database, NextStep(database.applied))
<1>1. ~ChainRuns /\ ~halfDone /\ database.applied < Latest
    BY DEF BetweenUpgrades
<1>2. /\ TruthOK(truth) /\ database.applied \in {Retired, 0, 1, 4, Latest}
      /\ DatabaseAt(truth, database, NextStep(database.applied))
    BY <1>1, BetweenReleases
<1> QED BY <1>1, <1>2 DEF NextStep, Retired, Latest, DatabaseAt

LEMMA CorrectKeeps ==
    ASSUME UpgradeIInv, NEW p \in DOMAIN Contents, NEW f \in At(database, p), NEW v \in Contents[p],
           CorrectValue(p, f, v)
    PROVE  UpgradeIInv'
<1>1. PICK k : k = NextStep(database.applied)
    OBVIOUS
<1>2. /\ ~ChainRuns /\ ~halfDone /\ TruthOK(truth) /\ k \in {1, 2, 9}
      /\ IsDatabase(database) /\ DatabaseAt(truth, database, k)
    BY <1>1, BeforeRepair DEF CorrectValue, Repair
<1>3. PICK S, r, e : S = At(database, p) /\ r = (S \ {f}) \cup {<<f[1], v>>} /\ e = Put(database, p, r)
    OBVIOUS
<1>4. /\ IsDatabase(e) /\ e.applied = database.applied
      /\ \A q : /\ Has(e, q) <=> q = p \/ Has(database, q)
                /\ At(e, q) = IF q = p THEN r ELSE At(database, q)
    BY ONLY <1>2, <1>3, PutIs
<1>5. Has(database, p)
    BY DEF At
<1>6. /\ \A q : Has(e, q) <=> Has(database, q)
      /\ \A q : q # p => Same(e, database, q)
      /\ At(e, p) = r
    BY <1>4, <1>5 DEF Same
<1>7. \A T : p \in T => ChangesAt(database, e, T)
    BY <1>4, <1>6 DEF ChangesAt
<1>8. PICK u : u = [truth EXCEPT ![p] = r]
    OBVIOUS
<1>9. /\ ~Has(database, SuccessorOf[p]) /\ database' = e /\ backup' = e /\ truth' = u
      /\ UNCHANGED <<transactional, step, halfDone>>
    <2>1. p # "none"
        BY ContentsAre
    <2> QED BY <1>3, <1>6, <1>8, <2>1 DEF CorrectValue, Repair
<1>10. TruthOK(u) /\ ChangedAt(truth, u, p) /\ u[p] = r
    <2>1. p \in OneValued \cup {"payload_reference"} => S = truth[p]
        BY <1>2, <1>3, <1>5, TruthStands
    <2>2. ASSUME p \in OneValued PROVE OneEach(r)
        <3>1. OneEach(S) /\ f \in S
            BY <1>2, <1>3, <2>1, <2>2 DEF TruthOK
        <3> QED BY ONLY <1>3, <3>1, ValueReplaced
    <2>3. ASSUME p = "group" PROVE IsFiniteSet(r)
        <3>1. IsFiniteSet(S) /\ f \in S
            BY <1>2, <1>3, <2>1, <2>3 DEF TruthOK, OneValued
        <3>2. IsFiniteSet(S \ {f})
            BY <3>1, FS_Subset
        <3> QED BY <1>3, <3>2, FS_AddElement
    <2>4. p = "payload_reference" => r \in SUBSET (Rows \X {"tenant", "unknown"})
        <3> SUFFICES ASSUME p = "payload_reference" PROVE r \in SUBSET (Rows \X {"tenant", "unknown"})
            OBVIOUS
        <3>1. S \in SUBSET (Rows \X {"tenant", "unknown"}) /\ v \in {"tenant", "unknown"}
            BY <1>2, <2>1, ContentsAre DEF TruthOK
        <3>2. f[1] \in Rows
            BY <1>3, <3>1
        <3> QED BY <1>3, <3>1, <3>2
    <2>5. FitsAt(p, r)
        BY <2>2, <2>3, <2>4 DEF FitsAt
    <2>6. u = [q \in DOMAIN Contents |-> u[q]] /\ ChangedAt(truth, u, p) /\ u[p] = r
        <3>1. u = [q \in DOMAIN Contents |-> IF q = p THEN r ELSE truth[q]]
            BY <1>2, <1>8 DEF TruthOK
        <3>2. DOMAIN u = DOMAIN Contents /\ u[p] = r /\ \A q \in DOMAIN Contents : q # p => u[q] = truth[q]
            BY <3>1
        <3> QED BY <3>1, <3>2 DEF ChangedAt
    <2> QED BY <1>2, <2>5, <2>6, TruthChanged
<1>11. DatabaseAt(u, e, k)
    <2>1. CASE p = "human_task"
        <3>8. ChangesAt(database, e, {"human_task", "work_item"}) /\ Has(e, "human_task") /\ ~Has(e, "work_item")
            BY <1>5, <1>6, <1>7, <1>9, <2>1, SuccessorsAre
        <3>9. u["human_task"] = At(e, "human_task") /\ ChangedAt(truth, u, "human_task")
            BY <1>6, <1>10, <2>1
        <3> QED BY ONLY <1>2, <3>8, <3>9, TasksChanged
    <2>2. CASE p = "human_task_user"
        <3>8. ChangesAt(database, e, {"human_task_user", "work_item_user"}) /\ Has(e, "human_task_user")
              /\ At(e, "work_item_user") = {}
            BY <1>5, <1>6, <1>7, <1>9, <2>2, SuccessorsAre DEF At
        <3>9. u["human_task_user"] = At(e, "human_task_user") /\ ChangedAt(truth, u, "human_task_user")
            BY <1>6, <1>10, <2>2
        <3> QED BY ONLY <1>2, <3>8, <3>9, AssignmentsChanged
    <2>3. CASE p = "uri"
        <3>8. ChangesAt(database, e, {"uri", "resource_pair"}) /\ Has(database, "uri") /\ Has(e, "uri")
              /\ At(e, "resource_pair") = {}
            BY <1>5, <1>6, <1>7, <1>9, <2>3, SuccessorsAre DEF At
        <3>9. u["uri"] = At(e, "uri") /\ ChangedAt(truth, u, "uri")
            BY <1>6, <1>10, <2>3
        <3> QED BY ONLY <1>2, <3>8, <3>9, TargetsChanged
    <2>4. CASE p = "tenant_specific_field"
        <3>8. ChangesAt(database, e, {"tenant_specific_field", "realm_identifier"})
              /\ Has(e, "tenant_specific_field") /\ ~Has(e, "realm_identifier")
            BY <1>5, <1>6, <1>7, <1>9, <2>4, SuccessorsAre
        <3>9. u["tenant_specific_field"] = At(e, "tenant_specific_field") /\ ChangedAt(truth, u, "tenant_specific_field")
            BY <1>6, <1>10, <2>4
        <3> QED BY ONLY <1>2, <3>8, <3>9, RealmChanged
    <2>5. CASE p = "host_epoch"
        <3>8. ChangesAt(database, e, {"host_epoch", "host_native"}) /\ Has(database, "host_epoch") /\ Has(e, "host_epoch")
              /\ (Has(e, "host_native") <=> Has(database, "host_native")) /\ ~Has(e, "host_native")
            BY <1>5, <1>6, <1>7, <1>9, <2>5, SuccessorsAre
        <3>9. u["host_epoch"] = At(e, "host_epoch") /\ ChangedAt(truth, u, "host_epoch")
            BY <1>6, <1>10, <2>5
        <3> QED BY ONLY <1>2, <3>8, <3>9, HostStampChanged
    <2>6. CASE p = "core_epoch"
        <3>8. ChangesAt(database, e, {"core_epoch", "core_native"}) /\ Has(database, "core_epoch") /\ Has(e, "core_epoch")
              /\ (Has(e, "core_native") <=> Has(database, "core_native")) /\ ~Has(e, "core_native")
            BY <1>5, <1>6, <1>7, <1>9, <2>6, SuccessorsAre
        <3>9. u["core_epoch"] = At(e, "core_epoch") /\ ChangedAt(truth, u, "core_epoch")
            BY <1>6, <1>10, <2>6
        <3> QED BY ONLY <1>2, <3>8, <3>9, CoreStampChanged
    <2>7. CASE p = "event_timestamp"
        <3>8. ChangesAt(database, e, {"event_timestamp", "event_occurred_at"}) /\ Has(database, "event_timestamp") /\ Has(e, "event_timestamp")
              /\ (Has(e, "event_occurred_at") <=> Has(database, "event_occurred_at")) /\ ~Has(e, "event_occurred_at")
            BY <1>5, <1>6, <1>7, <1>9, <2>7, SuccessorsAre
        <3>9. u["event_timestamp"] = At(e, "event_timestamp") /\ ChangedAt(truth, u, "event_timestamp")
            BY <1>6, <1>10, <2>7
        <3> QED BY ONLY <1>2, <3>8, <3>9, EventStampChanged
    <2>8. CASE p = "event_type"
        <3>1. ~(k > 4)
            <4>1. Categories(database) # {}
                BY <2>8 DEF Categories
            <4>2. At(database, "event_category") = {}
                BY <1>9, <2>8, SuccessorsAre DEF At
            <4> QED BY <1>2, <4>1, <4>2 DEF DatabaseAt, EventsAt
        <3>8. ChangesAt(database, e, {"event_type", "event_category"})
              /\ At(e, "event_category") = IF k > 4 THEN Categories(e) ELSE {}
            BY <3>1, <1>5, <1>6, <1>7, <1>9, <2>8, SuccessorsAre DEF At
        <3>9. u["event_type"] = At(e, "event_type") /\ ChangedAt(truth, u, "event_type")
            BY <1>6, <1>10, <2>8
        <3> QED BY ONLY <1>2, <3>8, <3>9, EventsChanged
    <2>9. CASE p = "payload_reference"
        <3>1. Has(database, "json_data")
            <4>1. At(database, "tenant_json_data") = {}
                BY <1>9, <2>9, SuccessorsAre DEF At
            <4>2. At(database, "payload_reference") # {}
                BY <2>9
            <4> QED BY <1>2, <4>1, <4>2 DEF DatabaseAt, PayloadsAt
        <3>8. ChangesAt(database, e, {"payload_reference", "tenant_json_data"})
              /\ Has(database, "json_data") /\ ~Has(e, "tenant_json_data")
            BY <3>1, <1>5, <1>6, <1>7, <1>9, <2>9, SuccessorsAre
        <3>9. u["payload_reference"] = At(e, "payload_reference") /\ ChangedAt(truth, u, "payload_reference")
            BY <1>6, <1>10, <2>9
        <3> QED BY ONLY <1>2, <3>8, <3>9, PayloadsChanged
    <2>10. CASE p = "group"
        <3>1. k <= 6
            <4>1. RowsOf(At(database, "authorization_key")) = {}
                BY <1>9, <2>10, SuccessorsAre DEF At, RowsOf
            <4>2. RowsOf(truth["group"]) # {}
                <5>1. f \in truth["group"]
                    BY <1>2, <1>5, <2>10, TruthStands DEF OneValued
                <5> QED BY <5>1 DEF RowsOf
            <4> QED BY <1>2, <4>1, <4>2 DEF DatabaseAt, GroupsAt
        <3>8. ChangesAt(database, e, {"group", "authorization_key"})
              /\ Has(e, "group") /\ k <= 6 /\ At(e, "authorization_key") = {}
            BY <3>1, <1>5, <1>6, <1>7, <1>9, <2>10, SuccessorsAre DEF At
        <3>9. u["group"] = At(e, "group") /\ ChangedAt(truth, u, "group")
            BY <1>6, <1>10, <2>10
        <3> QED BY ONLY <1>2, <3>8, <3>9, GroupsChanged
    <2>11. CASE p \in Unsaid
        <3>8. ChangesAt(database, e, Unsaid \cup {"process_xml_digest"}) /\ (Has(e, "json_data") <=> Has(database, "json_data"))
            BY <1>6, <1>7, <2>11
        <3> QED BY ONLY <1>2, <1>10, <2>11, <3>8, UnsaidChanged
    <2>12. p \in Unsaid \cup OneValued \cup {"human_task_user", "uri", "tenant_specific_field", "payload_reference"}
        BY ContentsAre DEF Unsaid, OneValued
    <2> QED BY <2>1, <2>2, <2>3, <2>4, <2>5, <2>6, <2>7, <2>8, <2>9, <2>10, <2>11, <2>12 DEF OneValued
<1> QED
    <2>1. TruthOK(truth') /\ DatabaseAt(truth', e, NextStep(database.applied))
        BY <1>1, <1>9, <1>10, <1>11
    <2> QED BY ONLY UpgradeIInv, <1>2, <1>4, <1>9, <2>1, DataChanged

LEMMA RemoveKeeps ==
    ASSUME UpgradeIInv, NEW p \in DOMAIN Contents, NEW f \in At(database, p), RemoveValue(p, f)
    PROVE  UpgradeIInv'
<1>1. PICK k : k = NextStep(database.applied)
    OBVIOUS
<1>2. /\ ~ChainRuns /\ ~halfDone /\ TruthOK(truth) /\ k \in {1, 2, 9}
      /\ IsDatabase(database) /\ DatabaseAt(truth, database, k)
    BY <1>1, BeforeRepair DEF RemoveValue, Repair
<1>3. PICK S, r, without, n, m, e :
        /\ S = At(database, p) /\ r = S \ {f} /\ without = Put(database, p, r) /\ n = SuccessorOf[p]
        /\ m = {g \in At(without, n) : g[1] # f[1]}
        /\ e = IF Has(without, n) THEN Put(without, n, m) ELSE without
    OBVIOUS
<1>4. /\ IsDatabase(without) /\ without.applied = database.applied
      /\ \A q : /\ Has(without, q) <=> q = p \/ Has(database, q)
                /\ At(without, q) = IF q = p THEN r ELSE At(database, q)
    BY ONLY <1>2, <1>3, PutIs
<1>5. Has(database, p)
    BY DEF At
<1>6. /\ IsDatabase(e) /\ e.applied = database.applied
      /\ \A q : Has(e, q) <=> Has(database, q)
      /\ \A q : q \notin {p, n} => Same(e, database, q)
      /\ p # n => At(e, p) = r /\ At(e, n) = {g \in At(database, n) : g[1] # f[1]}
    <2>1. CASE Has(without, n)
        <3>1. e = Put(without, n, m)
            BY <1>3, <2>1
        <3>2. /\ IsDatabase(e) /\ e.applied = without.applied
              /\ \A q : /\ Has(e, q) <=> q = n \/ Has(without, q)
                        /\ At(e, q) = IF q = n THEN m ELSE At(without, q)
            BY ONLY <1>4, <3>1, PutIs
        <3>3. p # n => m = {g \in At(database, n) : g[1] # f[1]}
            BY <1>3, <1>4
        <3> QED BY <1>4, <1>5, <2>1, <3>2, <3>3 DEF Same
    <2>2. CASE ~Has(without, n)
        <3>1. e = without /\ n # p /\ At(database, n) = {}
            BY <1>3, <1>4, <1>5, <2>2 DEF At
        <3> QED BY <1>4, <1>5, <3>1 DEF Same
    <2> QED BY <2>1, <2>2
<1>7. \A T : p \in T /\ n \in T => ChangesAt(database, e, T)
    BY <1>6 DEF ChangesAt
<1>8. PICK s, u : s = At(e, p) /\ u = [truth EXCEPT ![p] = s]
    OBVIOUS
<1>9. /\ database' = e /\ backup' = e /\ truth' = u
      /\ UNCHANGED <<transactional, step, halfDone>>
    <2>1. p # "none"
        BY ContentsAre
    <2> QED BY <1>3, <1>8, <2>1 DEF RemoveValue, Repair
<1>10. p \in OneValued \cup {"payload_reference", "human_task_user", "uri", "tenant_specific_field"} => p # n
    BY <1>3, SuccessorsAre DEF OneValued
<1>11. p \in OneValued => /\ OneEach(S) /\ OneEach(r) /\ r = {g \in S : g[1] # f[1]}
                          /\ RowsOf(r) = RowsOf(S) \ {f[1]}
    <2> SUFFICES ASSUME p \in OneValued
                 PROVE  /\ OneEach(S) /\ OneEach(r) /\ r = {g \in S : g[1] # f[1]}
                        /\ RowsOf(r) = RowsOf(S) \ {f[1]}
        OBVIOUS
    <2>1. S = truth[p]
        BY <1>2, <1>3, <1>5, TruthStands
    <2>2. OneEach(S) /\ f \in S
        BY <1>2, <1>3, <2>1 DEF TruthOK
    <2> QED BY ONLY <1>3, <2>2, FactRemoved
<1>12. TruthOK(u) /\ ChangedAt(truth, u, p) /\ u[p] = s
    <2>1. p = "group" \/ p = "payload_reference" => S = truth[p]
        BY <1>2, <1>3, <1>5, TruthStands DEF OneValued
    <2>2. p \in OneValued => OneEach(s)
        BY <1>6, <1>8, <1>10, <1>11
    <2>3. ASSUME p = "group" PROVE IsFiniteSet(s)
        <3>1. IsFiniteSet(S) /\ f \in S
            BY <1>2, <1>3, <2>1, <2>3 DEF TruthOK
        <3>2. IsFiniteSet(r)
            BY ONLY <1>3, <3>1, FactRemoved
        <3> QED BY <1>6, <1>8, <1>10, <2>3, <3>2 DEF OneValued
    <2>4. ASSUME p = "payload_reference" PROVE s \in SUBSET (Rows \X {"tenant", "unknown"})
        <3>1. S \in SUBSET (Rows \X {"tenant", "unknown"})
            BY <1>2, <2>1, <2>4 DEF TruthOK
        <3>2. s = S \ {f}
            BY <1>3, <1>6, <1>8, <1>10, <2>4
        <3> QED BY <3>1, <3>2
    <2>5. FitsAt(p, s)
        BY <2>2, <2>3, <2>4 DEF FitsAt
    <2>6. u = [q \in DOMAIN Contents |-> u[q]] /\ ChangedAt(truth, u, p) /\ u[p] = s
        <3>1. u = [q \in DOMAIN Contents |-> IF q = p THEN s ELSE truth[q]]
            BY <1>2, <1>8 DEF TruthOK
        <3>2. DOMAIN u = DOMAIN Contents /\ u[p] = s /\ \A q \in DOMAIN Contents : q # p => u[q] = truth[q]
            BY <3>1
        <3> QED BY <3>1, <3>2 DEF ChangedAt
    <2> QED BY <1>2, <2>5, <2>6, TruthChanged
<1>13. ASSUME p # n
       PROVE  /\ RowsOf(At(e, n)) = RowsOf(At(database, n)) \ {f[1]}
              /\ Distinct(At(database, n)) => Distinct(At(e, n))
              /\ OneEach(At(database, n)) => OneEach(At(e, n))
              /\ At(database, n) = {} => At(e, n) = {}
    <2>1. PICK N, x, M : /\ N = At(database, n) /\ x = f[1] /\ M = At(e, n)
                         /\ \A g : g \in M <=> g \in N /\ g[1] # x
        BY <1>6, <1>13
    <2>2. RowsOf(M) = RowsOf(N) \ {x}
        BY ONLY <2>1 DEF RowsOf
    <2>4. /\ Distinct(N) => Distinct(M)
          /\ OneEach(N) => OneEach(M)
        BY ONLY <2>1 DEF Distinct, OneEach
    <2>3. N = {} => M = {}
        BY <2>1
    <2> QED BY <2>1, <2>2, <2>3, <2>4
<1>14. DatabaseAt(u, e, k)
    <2>1. CASE p = "human_task"
        <3>1. n = "work_item" /\ p # n /\ ChangesAt(database, e, {"human_task", "work_item"})
            BY <1>3, <1>7, <2>1, SuccessorsAre
        <3>2. Has(database, "work_item") => /\ OneEach(At(database, "work_item"))
                                            /\ RowsOf(At(database, "work_item")) \subseteq RowsOf(S)
            BY <1>2, <1>3, <1>5, <2>1 DEF DatabaseAt, TasksAt
        <3>8. /\ Has(e, "human_task")
              /\ Has(e, "work_item") => /\ OneEach(At(e, "work_item"))
                                     /\ RowsOf(At(e, "work_item")) \subseteq RowsOf(At(e, "human_task"))
            BY <1>3, <1>5, <1>6, <1>11, <1>13, <2>1, <3>1, <3>2 DEF OneValued
        <3>9. u["human_task"] = At(e, "human_task") /\ ChangedAt(truth, u, "human_task")
            BY <1>8, <1>12, <2>1
        <3> QED BY ONLY <1>2, <3>1, <3>8, <3>9, TasksChanged
    <2>2. CASE p = "human_task_user"
        <3>1. n = "work_item_user" /\ p # n /\ ChangesAt(database, e, {"human_task_user", "work_item_user"})
            BY <1>3, <1>7, <2>2, SuccessorsAre
        <3>2. At(database, "work_item_user") = {}
            BY <1>2, <1>5, <2>2 DEF DatabaseAt, TasksAt
        <3>8. Has(e, "human_task_user") /\ At(e, "work_item_user") = {}
            BY <1>5, <1>6, <1>13, <2>2, <3>1, <3>2
        <3>9. u["human_task_user"] = At(e, "human_task_user") /\ ChangedAt(truth, u, "human_task_user")
            BY <1>8, <1>12, <2>2
        <3> QED BY ONLY <1>2, <3>1, <3>8, <3>9, AssignmentsChanged
    <2>3. CASE p = "uri"
        <3>1. n = "resource_pair" /\ p # n /\ ChangesAt(database, e, {"uri", "resource_pair"})
            BY <1>3, <1>7, <2>3, SuccessorsAre
        <3>2. At(database, "resource_pair") = {}
            BY <1>2, <1>5, <2>3 DEF DatabaseAt, NamesAt
        <3>8. Has(database, "uri") /\ Has(e, "uri") /\ At(e, "resource_pair") = {}
            BY <1>5, <1>6, <1>13, <2>3, <3>1, <3>2
        <3>9. u["uri"] = At(e, "uri") /\ ChangedAt(truth, u, "uri")
            BY <1>8, <1>12, <2>3
        <3> QED BY ONLY <1>2, <3>1, <3>8, <3>9, TargetsChanged
    <2>4. CASE p = "tenant_specific_field"
        <3>1. n = "realm_identifier" /\ p # n /\ ChangesAt(database, e, {"tenant_specific_field", "realm_identifier"})
            BY <1>3, <1>7, <2>4, SuccessorsAre
        <3>8. Has(e, "tenant_specific_field") /\ ~Has(e, "realm_identifier")
            BY <1>2, <1>5, <1>6, <2>4, <3>1 DEF DatabaseAt, NamesAt
        <3>9. u["tenant_specific_field"] = At(e, "tenant_specific_field") /\ ChangedAt(truth, u, "tenant_specific_field")
            BY <1>8, <1>12, <2>4
        <3> QED BY ONLY <1>2, <3>1, <3>8, <3>9, RealmChanged
    <2>5. CASE p = "host_epoch"
        <3>1. n = "host_native" /\ p # n /\ ChangesAt(database, e, {"host_epoch", "host_native"})
            BY <1>3, <1>7, <2>5, SuccessorsAre
        <3>2. Has(database, "host_native") => At(database, "host_native") = S
            BY <1>2, <1>3, <1>5, <2>5 DEF DatabaseAt, StampsAt, StampAt, StampEqual
        <3>8. /\ Has(database, "host_epoch") /\ Has(e, "host_epoch") /\ (Has(e, "host_native") <=> Has(database, "host_native"))
              /\ Has(e, "host_native") => At(e, "host_native") = At(e, "host_epoch")
            BY <1>3, <1>5, <1>6, <1>11, <2>5, <3>1, <3>2 DEF OneValued
        <3>9. u["host_epoch"] = At(e, "host_epoch") /\ ChangedAt(truth, u, "host_epoch")
            BY <1>8, <1>12, <2>5
        <3> QED BY ONLY <1>2, <3>1, <3>8, <3>9, HostStampChanged
    <2>6. CASE p = "core_epoch"
        <3>1. n = "core_native" /\ p # n /\ ChangesAt(database, e, {"core_epoch", "core_native"})
            BY <1>3, <1>7, <2>6, SuccessorsAre
        <3>2. Has(database, "core_native") => At(database, "core_native") = S
            BY <1>2, <1>3, <1>5, <2>6 DEF DatabaseAt, StampsAt, StampAt, StampEqual
        <3>8. /\ Has(database, "core_epoch") /\ Has(e, "core_epoch") /\ (Has(e, "core_native") <=> Has(database, "core_native"))
              /\ Has(e, "core_native") => At(e, "core_native") = At(e, "core_epoch")
            BY <1>3, <1>5, <1>6, <1>11, <2>6, <3>1, <3>2 DEF OneValued
        <3>9. u["core_epoch"] = At(e, "core_epoch") /\ ChangedAt(truth, u, "core_epoch")
            BY <1>8, <1>12, <2>6
        <3> QED BY ONLY <1>2, <3>1, <3>8, <3>9, CoreStampChanged
    <2>7. CASE p = "event_timestamp"
        <3>1. n = "event_occurred_at" /\ p # n /\ ChangesAt(database, e, {"event_timestamp", "event_occurred_at"})
            BY <1>3, <1>7, <2>7, SuccessorsAre
        <3>2. Has(database, "event_occurred_at") => At(database, "event_occurred_at") = S
            BY <1>2, <1>3, <1>5, <2>7 DEF DatabaseAt, StampsAt, StampAt, StampEqual
        <3>8. /\ Has(database, "event_timestamp") /\ Has(e, "event_timestamp") /\ (Has(e, "event_occurred_at") <=> Has(database, "event_occurred_at"))
              /\ Has(e, "event_occurred_at") => At(e, "event_occurred_at") = At(e, "event_timestamp")
            BY <1>3, <1>5, <1>6, <1>11, <2>7, <3>1, <3>2 DEF OneValued
        <3>9. u["event_timestamp"] = At(e, "event_timestamp") /\ ChangedAt(truth, u, "event_timestamp")
            BY <1>8, <1>12, <2>7
        <3> QED BY ONLY <1>2, <3>1, <3>8, <3>9, EventStampChanged
    <2>8. CASE p = "event_type"
        <3>1. n = "event_category" /\ p # n /\ ChangesAt(database, e, {"event_type", "event_category"})
            BY <1>3, <1>7, <2>8, SuccessorsAre
        <3>2. k <= 4 => At(database, "event_category") = {}
            BY <1>2 DEF DatabaseAt, EventsAt
        <3>3. k > 4 => At(e, "event_category") = Categories(e)
            <4>1. k > 4 => At(database, "event_category") = {<<g[1], Category(g[2])>> : g \in S}
                BY <1>2, <1>3, <2>8 DEF DatabaseAt, EventsAt, Categories
            <4>2. Categories(e) = {<<g[1], Category(g[2])>> : g \in r}
                BY <1>6, <2>8, <3>1 DEF Categories
            <4>3. r = {g \in S : g[1] # f[1]}
                BY <1>11, <2>8 DEF OneValued
            <4>4. At(e, "event_category") = {g \in At(database, "event_category") : g[1] # f[1]}
                BY <1>6, <3>1
            <4>5. \A g \in S : <<g[1], Category(g[2])>>[1] = g[1]
                OBVIOUS
            <4> QED BY <4>1, <4>2, <4>3, <4>4, <4>5
        <3>8. At(e, "event_category") = IF k > 4 THEN Categories(e) ELSE {}
            <4>1. k <= 4 => At(e, "event_category") = {}
                BY <1>13, <3>1, <3>2
            <4> QED BY <1>2, <3>3, <4>1
        <3>9. u["event_type"] = At(e, "event_type") /\ ChangedAt(truth, u, "event_type")
            BY <1>8, <1>12, <2>8
        <3> QED BY ONLY <1>2, <3>1, <3>8, <3>9, EventsChanged
    <2>9. CASE p = "payload_reference"
        <3>1. n = "tenant_json_data" /\ p # n /\ ChangesAt(database, e, {"payload_reference", "tenant_json_data"})
            BY <1>3, <1>7, <2>9, SuccessorsAre
        <3>2. Has(database, "json_data") => ~Has(e, "tenant_json_data")
            BY <1>2, <1>6 DEF DatabaseAt, PayloadsAt
        <3>3. ASSUME ~Has(database, "json_data")
              PROVE  /\ At(e, "tenant_json_data") = At(e, "payload_reference")
                     /\ OneEach(At(e, "payload_reference"))
            <4>1. At(database, "tenant_json_data") = S /\ OneEach(S)
                BY <1>2, <1>3, <2>9, <3>3 DEF DatabaseAt, PayloadsAt
            <4>2. OneEach(r) /\ r = {g \in S : g[1] # f[1]}
                BY <1>3, <4>1, FactRemoved
            <4> QED BY <1>6, <2>9, <3>1, <4>1, <4>2
        <3>8. /\ Has(database, "json_data") => ~Has(e, "tenant_json_data")
              /\ ~Has(database, "json_data") => /\ At(e, "tenant_json_data") = At(e, "payload_reference")
                                              /\ OneEach(At(e, "payload_reference"))
            BY <3>2, <3>3
        <3>9. u["payload_reference"] = At(e, "payload_reference") /\ ChangedAt(truth, u, "payload_reference")
            BY <1>8, <1>12, <2>9
        <3> QED BY ONLY <1>2, <3>1, <3>8, <3>9, PayloadsChanged
    <2>10. CASE p = "group"
        <3>1. n = "authorization_key" /\ p # n /\ ChangesAt(database, e, {"group", "authorization_key"})
            BY <1>3, <1>7, <2>10, SuccessorsAre
        <3>2. k <= 6 => At(database, "authorization_key") = {}
            BY <1>2 DEF DatabaseAt, GroupsAt
        <3>3. k > 6 => /\ RowsOf(At(database, "authorization_key")) = RowsOf(S)
                       /\ Distinct(At(database, "authorization_key"))
            BY <1>2, <1>3, <1>5, <2>10 DEF DatabaseAt, GroupsAt
        <3>8. /\ Has(e, "group")
              /\ k <= 6 => At(e, "authorization_key") = {}
              /\ k > 6 => /\ RowsOf(At(e, "authorization_key")) = RowsOf(At(e, "group"))
                         /\ Distinct(At(e, "authorization_key"))
            BY <1>5, <1>6, <1>11, <1>13, <2>10, <3>1, <3>2, <3>3 DEF OneValued
        <3>9. u["group"] = At(e, "group") /\ ChangedAt(truth, u, "group")
            BY <1>8, <1>12, <2>10
        <3> QED BY ONLY <1>2, <3>1, <3>8, <3>9, GroupsChanged
    <2>11. CASE p \in Unsaid
        <3>1. ChangesAt(database, e, Unsaid \cup {"process_xml_digest"})
            <4>1. CASE p = "json_data"
                <5>1. n = "tenant_json_data" /\ ~Has(database, "tenant_json_data")
                    BY <1>2, <1>3, <1>5, <4>1, SuccessorsAre DEF DatabaseAt, PayloadsAt
                <5>2. Same(e, database, n)
                    BY <1>6, <5>1 DEF Same, At
                <5> QED BY <1>6, <4>1, <5>2 DEF ChangesAt, Unsaid
            <4>2. CASE p # "json_data"
                <5>1. n \in Unsaid \cup {"process_xml_digest"}
                    BY <1>3, <2>11, <4>2, SuccessorsAre DEF Unsaid
                <5> QED BY <1>7, <2>11, <5>1
            <4> QED BY <4>1, <4>2
        <3>2. Has(e, "json_data") <=> Has(database, "json_data")
            BY <1>6
        <3> QED BY ONLY <1>2, <1>12, <2>11, <3>1, <3>2, UnsaidChanged
    <2>12. p \in Unsaid \cup OneValued \cup {"human_task_user", "uri", "tenant_specific_field", "payload_reference"}
        BY ContentsAre DEF Unsaid, OneValued
    <2> QED BY <2>1, <2>2, <2>3, <2>4, <2>5, <2>6, <2>7, <2>8, <2>9, <2>10, <2>11, <2>12 DEF OneValued
<1> QED
    <2>1. TruthOK(truth') /\ DatabaseAt(truth', e, NextStep(database.applied))
        BY <1>1, <1>9, <1>12, <1>14
    <2> QED BY ONLY UpgradeIInv, <1>2, <1>6, <1>9, <2>1, DataChanged

LEMMA WorkKeeps ==
    ASSUME UpgradeIInv, NEW r \in Rows, NEW v \in Contents["human_task"], WorkOnTask(r, v)
    PROVE  UpgradeIInv'
<1>1. PICK k : k = NextStep(database.applied)
    OBVIOUS
<1>2. /\ ~ChainRuns /\ ~halfDone /\ TruthOK(truth) /\ k \in {1, 2, 9}
      /\ IsDatabase(database) /\ DatabaseAt(truth, database, k) /\ Has(database, "human_task")
    BY <1>1, BeforeRepair DEF WorkOnTask
<1>3. PICK S, tasks, c, u, e :
        /\ S = At(database, "human_task") /\ tasks = {f \in S : f[1] # r} \cup {<<r, v>>}
        /\ c = Put(database, "human_task", tasks) /\ u = [truth EXCEPT !["human_task"] = tasks]
        /\ e = c \/ e = Put(c, "work_item", tasks)
        /\ database' = e /\ backup' = e /\ truth' = u
        /\ UNCHANGED <<transactional, step, halfDone>>
    BY DEF WorkOnTask
<1>4. /\ IsDatabase(c) /\ c.applied = database.applied
      /\ \A q : /\ Has(c, q) <=> q = "human_task" \/ Has(database, q)
                /\ At(c, q) = IF q = "human_task" THEN tasks ELSE At(database, q)
    BY ONLY <1>2, <1>3, PutIs
<1>5. /\ IsDatabase(e) /\ e.applied = database.applied
      /\ \A q : q \notin {"human_task", "work_item"} => Same(e, database, q)
      /\ Has(e, "human_task") /\ At(e, "human_task") = tasks
      /\ \/ At(e, "work_item") = tasks
         \/ Same(e, database, "work_item")
    <2>1. CASE e = c
        BY <1>2, <1>4, <2>1 DEF Same
    <2>2. CASE e = Put(c, "work_item", tasks)
        <3>1. /\ IsDatabase(e) /\ e.applied = c.applied
              /\ \A q : /\ Has(e, q) <=> q = "work_item" \/ Has(c, q)
                        /\ At(e, q) = IF q = "work_item" THEN tasks ELSE At(c, q)
            BY ONLY <1>4, <2>2, PutIs
        <3> QED BY <1>2, <1>4, <3>1 DEF Same
    <2> QED BY <1>3, <2>1, <2>2
<1>6. OneEach(S) /\ RowsOf(S) \subseteq RowsOf(tasks) /\ OneEach(tasks)
    <2>1. OneEach(S)
        <3>1. S = truth["human_task"]
            BY <1>2, <1>3, TruthStands DEF OneValued
        <3> QED BY <1>2, <3>1 DEF TruthOK, OneValued
    <2>2. <<r, v>>[1] = r
        OBVIOUS
    <2>3. OneEach(tasks)
        BY <1>3, <2>1, <2>2 DEF OneEach
    <2>4. \A f \in S : \E g \in tasks : g[1] = f[1]
        BY <1>3, <2>2
    <2> QED BY <2>1, <2>3, <2>4 DEF RowsOf
<1>7. Has(e, "work_item") => /\ OneEach(At(e, "work_item"))
                             /\ RowsOf(At(e, "work_item")) \subseteq RowsOf(At(e, "human_task"))
    <2>1. Has(database, "work_item") => /\ OneEach(At(database, "work_item"))
                                        /\ RowsOf(At(database, "work_item")) \subseteq RowsOf(S)
        BY <1>2, <1>3 DEF DatabaseAt, TasksAt
    <2>2. CASE At(e, "work_item") = tasks
        BY <1>5, <1>6, <2>2
    <2>3. CASE Same(e, database, "work_item")
        BY <1>5, <1>6, <2>1, <2>3 DEF Same
    <2> QED BY <1>5, <2>2, <2>3
<1>8. u = [q \in DOMAIN Contents |-> u[q]] /\ ChangedAt(truth, u, "human_task") /\ u["human_task"] = tasks
    <2>1. u = [q \in DOMAIN Contents |-> IF q = "human_task" THEN tasks ELSE truth[q]]
        BY <1>2, <1>3 DEF TruthOK
    <2>2. /\ DOMAIN u = DOMAIN Contents /\ u["human_task"] = tasks
          /\ \A q \in DOMAIN Contents : q # "human_task" => u[q] = truth[q]
        BY <2>1, ContentsAre
    <2> QED BY <2>1, <2>2 DEF ChangedAt
<1>9. TruthOK(u)
    <2>1. PICK p : p = "human_task" /\ p \in DOMAIN Contents
        BY ContentsAre
    <2>2. FitsAt(p, tasks)
        BY <1>6, <2>1 DEF FitsAt
    <2>3. ChangedAt(truth, u, p) /\ u[p] = tasks
        BY <1>8, <2>1
    <2> QED BY <1>2, <1>8, <2>1, <2>2, <2>3, TruthChanged
<1>10. DatabaseAt(u, e, k)
    <2>1. ChangesAt(database, e, {"human_task", "work_item"}) /\ u["human_task"] = At(e, "human_task")
        BY <1>5, <1>8 DEF ChangesAt
    <2> QED BY ONLY <1>2, <1>5, <1>7, <1>8, <2>1, TasksChanged
<1>11. TruthOK(truth') /\ DatabaseAt(truth', e, NextStep(database.applied))
    BY <1>1, <1>3, <1>9, <1>10
<1> QED BY ONLY UpgradeIInv, <1>2, <1>3, <1>5, <1>11, DataChanged

LEMMA ResyncKeeps ==
    ASSUME UpgradeIInv, ResyncWorkItems
    PROVE  UpgradeIInv'
<1>1. PICK k : k = NextStep(database.applied)
    OBVIOUS
<1>2. /\ ~ChainRuns /\ ~halfDone /\ TruthOK(truth) /\ k \in {1, 2, 9}
      /\ IsDatabase(database) /\ DatabaseAt(truth, database, k)
      /\ Has(database, "human_task") /\ Has(database, "work_item")
    BY <1>1, BeforeRepair DEF ResyncWorkItems, Repair
<1>3. PICK S, e : /\ S = At(database, "human_task") /\ e = Put(database, "work_item", S)
                  /\ database' = e /\ backup' = e /\ truth' = truth
                  /\ UNCHANGED <<transactional, step, halfDone>>
    BY DEF ResyncWorkItems, Repair
<1>4. /\ IsDatabase(e) /\ e.applied = database.applied
      /\ \A q : /\ Has(e, q) <=> q = "work_item" \/ Has(database, q)
                /\ At(e, q) = IF q = "work_item" THEN S ELSE At(database, q)
    BY ONLY <1>2, <1>3, PutIs
<1>5. S = truth["human_task"] /\ OneEach(S)
    <2>1. S = truth["human_task"]
        BY <1>2, <1>3, TruthStands DEF OneValued
    <2> QED BY <1>2, <2>1 DEF TruthOK, OneValued
<1>6. /\ ChangesAt(database, e, {"human_task", "work_item"}) /\ Has(e, "human_task")
      /\ At(e, "human_task") = S /\ At(e, "work_item") = S
    BY <1>2, <1>3, <1>4 DEF ChangesAt, Same
<1>7. /\ Has(e, "work_item") => /\ OneEach(At(e, "work_item"))
                                /\ RowsOf(At(e, "work_item")) \subseteq RowsOf(At(e, "human_task"))
      /\ truth["human_task"] = At(e, "human_task")
    BY <1>5, <1>6
<1>8. ChangedAt(truth, truth, "human_task")
    BY DEF ChangedAt
<1>9. DatabaseAt(truth, e, k)
    BY ONLY <1>2, <1>6, <1>7, <1>8, TasksChanged
<1>10. TruthOK(truth') /\ DatabaseAt(truth', e, NextStep(database.applied))
    BY <1>1, <1>2, <1>3, <1>9
<1> QED BY ONLY UpgradeIInv, <1>2, <1>3, <1>4, <1>10, DataChanged

(***************************************************************************)
(* The theorem                                                             *)
(***************************************************************************)

LEMMA InvariantSuffices ==
    ASSUME UpgradeIInv PROVE NothingLost
<1>1. Recorded(truth, database) /\ (Upgraded => DatabaseAt(truth, database, 19))
    <2>1. CASE ChainRuns
        BY <2>1, WhileChainRuns DEF DatabaseAt, Upgraded
    <2>2. CASE halfDone
        BY <2>2 DEF UpgradeIInv, Upgraded, Latest
    <2>3. CASE ~ChainRuns /\ ~halfDone
        BY <2>3, BetweenReleases DEF DatabaseAt, Upgraded, NextStep
    <2> QED BY <2>1, <2>2, <2>3
<1>2. ASSUME Upgraded
      PROVE  /\ ~Has(database, "human_task") /\ ~Has(database, "human_task_user") /\ ~Has(database, "uri")
             /\ ~Has(database, "tenant_specific_field") /\ ~Has(database, "host_epoch")
             /\ ~Has(database, "core_epoch") /\ ~Has(database, "event_timestamp")
    BY <1>1, <1>2 DEF DatabaseAt, TasksAt, NamesAt, StampsAt, StampAt
<1>3. ASSUME NEW old, NEW new, RecordedAt(truth, database, old, new), Upgraded => ~Has(database, old)
      PROVE  /\ Has(database, old) => At(database, old) = truth[old]
             /\ ~Has(database, old) \/ Upgraded => At(database, new) = truth[old]
    BY <1>3 DEF RecordedAt
<1>4. ASSUME NEW p \in {"human_task", "human_task_user", "uri", "tenant_specific_field",
                        "host_epoch", "core_epoch", "event_timestamp"}
      PROVE  /\ Has(database, p) => At(database, p) = truth[p]
             /\ ~Has(database, p) \/ Upgraded => At(database, SuccessorOf[p]) = truth[p]
    <2>1. RecordedAt(truth, database, p, SuccessorOf[p]) /\ (Upgraded => ~Has(database, p))
        BY <1>1, <1>2, SuccessorsAre DEF Recorded
    <2> QED BY <1>3, <2>1
<1>5. ASSUME Upgraded
      PROVE  /\ At(database, "event_category") = {<<f[1], Category(f[2])>> : f \in truth["event_type"]}
             /\ At(database, "tenant_json_data") = truth["payload_reference"]
             /\ RowsOf(At(database, "authorization_key")) = RowsOf(truth["group"])
             /\ Distinct(At(database, "authorization_key"))
    <2>1. EventsAt(truth, database, 19) /\ PayloadsAt(truth, database, 19) /\ GroupsAt(truth, database, 19)
        BY <1>1, <1>5 DEF DatabaseAt
    <2>2. At(database, "event_category") = {<<f[1], Category(f[2])>> : f \in truth["event_type"]}
        <3>1. At(database, "event_category") = Categories(database) /\ At(database, "event_type") = truth["event_type"]
            BY <2>1 DEF EventsAt
        <3> QED BY <3>1 DEF Categories
    <2>3. At(database, "tenant_json_data") = truth["payload_reference"]
        BY <2>1 DEF PayloadsAt
    <2> QED BY <2>1, <2>2, <2>3 DEF GroupsAt
<1> QED BY <1>4, <1>5 DEF NothingLost

LEMMA UpgradeStepKeeps ==
    ASSUME UpgradeIInv, [CoreUpgradeNext]_upgradeVars
    PROVE  UpgradeIInv'
<1>1. CASE UNCHANGED upgradeVars
    BY <1>1 DEF upgradeVars, UpgradeIInv, ChainRuns
<1>2. CASE CoreUpgradeNext
    BY <1>2, StartKeeps, FirstReleasesKeep, ContractKeeps, RecoveryKeeps, WorkKeeps, CorrectKeeps,
       RemoveKeeps, ResyncKeeps DEF CoreUpgradeNext
<1> QED BY <1>1, <1>2

LEMMA GatheredFits ==
    ASSUME NEW p \in DOMAIN Contents, NEW facts, facts \in Gathered(p) \/ facts = Plain(p)
    PROVE  FitsAt(p, facts)
<1> SUFFICES ASSUME p \in OneValued \cup {"payload_reference"}
             PROVE  /\ p \in OneValued => OneEach(facts)
                    /\ p = "group" => IsFiniteSet(facts)
                    /\ p = "payload_reference" => facts \in SUBSET (Rows \X {"tenant", "unknown"})
    BY DEF FitsAt, OneValued
<1>1. p \notin VersionTables \cup {"uri", "single_process_hash", "full_process_model_hash"}
    BY DEF OneValued, VersionTables
<1>2. CASE facts \in Gathered(p)
    <2>1. /\ facts \in SUBSET (Rows \X Contents[p])
          /\ p \in {"human_task_user", "payload_reference"} \/ OneEach(facts)
        BY <1>1, <1>2 DEF Gathered
    <2>2. p = "group" => IsFiniteSet(facts)
        <3> SUFFICES ASSUME p = "group" PROVE IsFiniteSet(facts)
            OBVIOUS
        <3>1. IsFiniteSet({"rbac"} \cup {"lane"})
            BY FS_Singleton, FS_AddElement
        <3>2. Contents[p] = {"rbac"} \cup {"lane"}
            BY ContentsAre
        <3>3. IsFiniteSet(Rows \X Contents[p])
            BY <3>1, <3>2, FS_Product
        <3> QED BY <2>1, <3>3, FS_Subset
    <2>3. p = "payload_reference" => facts \in SUBSET (Rows \X {"tenant", "unknown"})
        BY <2>1, ContentsAre
    <2> QED BY <2>1, <2>2, <2>3 DEF OneValued
<1>3. CASE facts = Plain(p)
    <2>1. PICK c : /\ c = CHOOSE v \in Contents[p] : v \notin {"rbac", "unknown", "task_completed", "other"}
                   /\ facts = Rows \X {c}
        BY <1>1, <1>3 DEF Plain
    <2>2. OneEach(facts)
        <3>1. \A f \in facts : f = <<f[1], c>>
            BY <2>1
        <3> QED BY <3>1 DEF OneEach
    <2>3. IsFiniteSet(facts)
        <3>1. IsFiniteSet({c})
            BY FS_Singleton
        <3> QED BY <2>1, <3>1, FS_Product
    <2>4. p = "payload_reference" => facts \in SUBSET (Rows \X {"tenant", "unknown"})
        <3> SUFFICES ASSUME p = "payload_reference" PROVE c \in {"tenant", "unknown"}
            BY <2>1
        <3>1. \E v \in Contents[p] : v \notin {"rbac", "unknown", "task_completed", "other"}
            BY ContentsAre
        <3> QED BY <2>1, <3>1, ContentsAre
    <2> QED BY <2>2, <2>3, <2>4
<1> QED BY <1>2, <1>3

\* The oldest schema has all the old places and none of the new ones.
LEMMA OldestFits ==
    ASSUME NEW d, IsDatabase(d), NEW k \in {1, 2}, NEW t, t = [p \in DOMAIN Contents |-> At(d, p)],
           DOMAIN Contents \ {"core_marker"} \subseteq DOMAIN d.data, DOMAIN d.data \subseteq DOMAIN Contents
    PROVE  DatabaseAt(t, d, k)
<1>1. /\ Has(d, "human_task") /\ Has(d, "human_task_user") /\ Has(d, "uri") /\ Has(d, "tenant_specific_field")
      /\ Has(d, "host_epoch") /\ Has(d, "core_epoch") /\ Has(d, "event_timestamp") /\ Has(d, "event_type")
      /\ Has(d, "payload_reference") /\ Has(d, "json_data") /\ Has(d, "group")
    BY ContentsAre DEF Has
<1>2. /\ ~Has(d, "work_item") /\ ~Has(d, "work_item_user") /\ ~Has(d, "resource_pair")
      /\ ~Has(d, "realm_identifier") /\ ~Has(d, "host_native") /\ ~Has(d, "core_native")
      /\ ~Has(d, "event_occurred_at") /\ ~Has(d, "event_category") /\ ~Has(d, "tenant_json_data")
      /\ ~Has(d, "authorization_key")
    BY ContentsAre DEF Has
<1>3. /\ At(d, "work_item_user") = {} /\ At(d, "resource_pair") = {} /\ At(d, "event_category") = {}
      /\ At(d, "authorization_key") = {}
    BY <1>2 DEF At
<1>4. \A p \in DOMAIN Contents : t[p] = At(d, p)
    OBVIOUS
<1>5. /\ t["human_task"] = At(d, "human_task") /\ t["human_task_user"] = At(d, "human_task_user")
      /\ t["uri"] = At(d, "uri") /\ t["tenant_specific_field"] = At(d, "tenant_specific_field")
      /\ t["host_epoch"] = At(d, "host_epoch") /\ t["core_epoch"] = At(d, "core_epoch")
      /\ t["event_timestamp"] = At(d, "event_timestamp") /\ t["event_type"] = At(d, "event_type")
      /\ t["payload_reference"] = At(d, "payload_reference") /\ t["group"] = At(d, "group")
    BY <1>4, ContentsAre
<1>6. Recorded(t, d)
    BY <1>1, <1>5 DEF Recorded, RecordedAt
<1>7. StampsAt(d, k)
    BY <1>2 DEF StampsAt, StampAt, StampEqual
<1>8. TasksAt(d, k)
    BY <1>2, <1>3 DEF TasksAt
<1>9. NamesAt(d, k)
    BY <1>2, <1>3 DEF NamesAt
<1>10. EventsAt(t, d, k)
    BY <1>3, <1>5 DEF EventsAt
<1>11. PayloadsAt(t, d, k)
    BY <1>1, <1>2, <1>5 DEF PayloadsAt
<1>12. GroupsAt(t, d, k)
    BY <1>1, <1>3, <1>5 DEF GroupsAt
<1> QED BY <1>6, <1>7, <1>8, <1>9, <1>10, <1>11, <1>12 DEF DatabaseAt

LEMMA EmptyFits ==
    ASSUME NEW d, IsDatabase(d), DOMAIN d.data = {}, NEW t, t = [p \in DOMAIN Contents |-> At(d, p)]
    PROVE  DatabaseAt(t, d, 1) /\ TruthOK(t)
<1>1. \A q : ~Has(d, q) /\ At(d, q) = {}
    BY DEF Has, At
<1>2. \A p \in DOMAIN Contents : t[p] = {}
    BY <1>1
<1>3. /\ t["human_task"] = {} /\ t["human_task_user"] = {} /\ t["uri"] = {}
      /\ t["tenant_specific_field"] = {} /\ t["host_epoch"] = {} /\ t["core_epoch"] = {}
      /\ t["event_timestamp"] = {} /\ t["event_type"] = {} /\ t["payload_reference"] = {}
      /\ t["group"] = {}
    BY <1>2, ContentsAre
<1>4. OneEach({}) /\ Distinct({}) /\ RowsOf({}) = {}
    BY DEF OneEach, Distinct, RowsOf
<1>5. Recorded(t, d)
    BY <1>1, <1>3 DEF Recorded, RecordedAt
<1>6. StampsAt(d, 1) /\ TasksAt(d, 1) /\ NamesAt(d, 1)
    BY <1>1 DEF StampsAt, StampAt, StampEqual, TasksAt, NamesAt
<1>7. EventsAt(t, d, 1) /\ PayloadsAt(t, d, 1) /\ GroupsAt(t, d, 1)
    BY <1>1, <1>3, <1>4 DEF EventsAt, PayloadsAt, GroupsAt
<1>8. TruthOK(t)
    <2>1. t = [p \in DOMAIN Contents |-> t[p]]
        OBVIOUS
    <2>2. IsFiniteSet(t["group"])
        BY <1>3, FS_EmptySet
    <2> QED BY <1>3, <1>4, <2>1, <2>2 DEF TruthOK, OneValued
<1> QED BY <1>5, <1>6, <1>7, <1>8 DEF DatabaseAt

LEMMA OldSchemaIs ==
    ASSUME NEW applied, NEW part, NEW odd, NEW d, d = OldSchema(applied, part, odd)
    PROVE  /\ IsDatabase(d) /\ d.applied = applied
           /\ DOMAIN Contents \ {"core_marker"} \subseteq DOMAIN d.data
           /\ DOMAIN d.data \subseteq DOMAIN Contents
           /\ \A p \in DOMAIN d.data : At(d, p) = IF p \in part THEN odd[p] ELSE Plain(p)
<1>1. PICK P : P = OldTables \cup OldColumns \cup (part \cap {"core_marker"})
    OBVIOUS
<1>2. PICK data : data = [p \in P |-> IF p \in part THEN odd[p] ELSE Plain(p)]
    OBVIOUS
<1>3. d = [applied |-> applied, data |-> data]
    BY <1>1, <1>2 DEF OldSchema
<1>4. d.applied = applied /\ d.data = data /\ DOMAIN data = P
    BY <1>2, <1>3
<1>5. data = [p \in DOMAIN data |-> data[p]]
    BY <1>2
<1>6. IsDatabase(d)
    BY <1>3, <1>4, <1>5 DEF IsDatabase
<1>7. DOMAIN Contents \ {"core_marker"} \subseteq P /\ P \subseteq DOMAIN Contents
    BY <1>1, ContentsAre DEF OldTables, OldColumns
<1> QED BY <1>2, <1>4, <1>6, <1>7 DEF At, Has

LEMMA UpgradeStarts ==
    ASSUME UpgradeInit PROVE UpgradeIInv
<1>1. /\ backup = database /\ transactional \in BOOLEAN /\ step = 0 /\ halfDone = FALSE
      /\ truth = [p \in DOMAIN Contents |-> At(database, p)]
    BY DEF UpgradeInit
<1>2. TruthOK(truth) /\ Settled(truth, database)
    <2>1. ASSUME NEW part \in Odd, NEW applied \in {1, Retired},
                 NEW odd, \A p \in part : odd[p] \in Gathered(p),
                 database = OldSchema(applied, part, odd)
          PROVE  TruthOK(truth) /\ Settled(truth, database)
        <3>1. /\ IsDatabase(database) /\ database.applied = applied
              /\ DOMAIN Contents \ {"core_marker"} \subseteq DOMAIN database.data
              /\ DOMAIN database.data \subseteq DOMAIN Contents
              /\ \A p \in DOMAIN database.data : At(database, p) = IF p \in part THEN odd[p] ELSE Plain(p)
            BY <2>1, OldSchemaIs
        <3>2. PICK k : k = NextStep(applied) /\ k \in {1, 2}
            BY <2>1 DEF NextStep, Retired, Latest
        <3>3. DatabaseAt(truth, database, k)
            BY <1>1, <3>1, <3>2, OldestFits
        <3>4. \A p \in OneValued \cup {"payload_reference"} :
                /\ p \in DOMAIN database.data /\ p \in DOMAIN Contents
                /\ truth[p] \in Gathered(p) \/ truth[p] = Plain(p)
            <4>1. TAKE p \in OneValued \cup {"payload_reference"}
            <4>2. p \in DOMAIN Contents /\ p # "core_marker"
                BY ContentsAre DEF OneValued
            <4>3. p \in DOMAIN database.data
                BY <3>1, <4>2
            <4>4. truth[p] = At(database, p)
                BY <1>1, <4>2
            <4> QED BY <2>1, <3>1, <4>2, <4>3, <4>4
        <3>5. ASSUME NEW p \in OneValued \cup {"payload_reference"} PROVE FitsAt(p, truth[p])
            BY <3>4, <3>5, GatheredFits
        <3>6. TruthOK(truth)
            <4>1. truth = [p \in DOMAIN Contents |-> truth[p]]
                BY <1>1
            <4>2. \A p \in OneValued : OneEach(truth[p])
                BY <3>5 DEF FitsAt
            <4>3. IsFiniteSet(truth["group"])
                BY <3>5 DEF FitsAt, OneValued
            <4>4. truth["payload_reference"] \in SUBSET (Rows \X {"tenant", "unknown"})
                BY <3>5 DEF FitsAt
            <4> QED BY <4>1, <4>2, <4>3, <4>4 DEF TruthOK
        <3> QED BY <2>1, <3>1, <3>2, <3>3, <3>6 DEF Settled
    <2>2. ASSUME database = [applied |-> 0, data |-> <<>>] PROVE TruthOK(truth) /\ Settled(truth, database)
        <3>1. PICK empty : empty = <<>>
            OBVIOUS
        <3>2. empty = [p \in DOMAIN empty |-> empty[p]] /\ DOMAIN empty = {}
            BY <3>1
        <3>3. database.applied = 0 /\ database.data = empty /\ database = [applied |-> 0, data |-> empty]
            BY <2>2, <3>1
        <3>4. IsDatabase(database)
            BY <3>2, <3>3 DEF IsDatabase
        <3>5. DatabaseAt(truth, database, 1) /\ TruthOK(truth)
            BY <1>1, <3>2, <3>3, <3>4, EmptyFits
        <3>6. NextStep(database.applied) = 1
            BY <3>3 DEF NextStep, Latest
        <3> QED BY <3>3, <3>5, <3>6 DEF Settled
    <2> QED BY <2>1, <2>2 DEF UpgradeInit
<1>3. /\ TruthOK(truth) /\ Settled(truth, backup) /\ database = backup
      /\ step = 0 /\ transactional \in BOOLEAN /\ halfDone \in BOOLEAN /\ ~halfDone
    BY <1>1, <1>2
<1> QED BY ONLY <1>3 DEF UpgradeIInv, ChainRuns

(***************************************************************************)
(* Every recorded fact is at its old place or at the new one, in the       *)
(* database and, once a restore is done, in what the backup brought back:  *)
(* c4d5e6f7a8b9 copies, checks and then drops, the epoch migrations drop   *)
(* only what their native columns agree with, d6e7f8a9b0c1 moves the       *)
(* marker, and a migration that refuses data has changed nothing that the  *)
(* rollback or the backup does not bring back.                             *)
(***************************************************************************)
THEOREM UpgradeLosesNothing == CoreUpgradeSpec => []NothingLost
<1>1. UpgradeInit => UpgradeIInv
    BY UpgradeStarts
<1>2. UpgradeIInv /\ [CoreUpgradeNext]_upgradeVars => UpgradeIInv'
    BY UpgradeStepKeeps
<1>3. UpgradeIInv => NothingLost
    BY InvariantSuffices
<1> QED BY <1>1, <1>2, <1>3, PTL DEF CoreUpgradeSpec
=============================================================================
