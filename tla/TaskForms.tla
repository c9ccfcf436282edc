----------------------------- MODULE TaskForms -----------------------------
(***************************************************************************)
(* The form of a user task and the data of its process instance: what the  *)
(* form opens with, what a submission writes, which buttons a gateway      *)
(* behind the task gives it and where they lead, and what the diagram page *)
(* says of a finished step (human_task, workflow, task_review_controller). *)
(*                                                                         *)
(* One line of tasks in one instance.  The engine keeps the data of the    *)
(* line and evaluates conditions; core stores a submission and applies it  *)
(* key by key: both are external, as the comments of the code have them.   *)
(***************************************************************************)
EXTENDS Naturals, FiniteSets, Sequences, Overlays

CONSTANTS
    MaxFormTasks,   \* bound: user tasks of the line
    MaxScripts,     \* bound: script tasks in it
    ValueWidth      \* fields of a variable that fit the column of a value

ASSUME TaskFormsAssumption == MaxFormTasks \in 1..3 /\ MaxScripts \in Nat /\ ValueWidth \in Nat

VARIABLES
    formTask,       \* the task whose form is open: number, variable, own
    formData,       \* the process variables
    chain,          \* the engine's tasks so far, as they are serialized
    gateway,        \* behind the last task
    \* history: what was in scope at each task of the chain; answers and seeds that stand
    scope, given,
    \* history: a variable was replaced or cut; the button that was sent and where it led
    replaced, decided

formVars == <<formTask, formData, chain, gateway, scope, given, replaced, decided>>

NoData == <<>>
Variable == "x"
_ENGINE_DATA_KEYS == {"data_objects"}
\* What each form asks, in order
FieldOf(n) == <<"f", "g", "h">>[n]
FieldNames == {"f", "g", "h", "seed"}

Without(d, keys) == [k \in DOMAIN d \ keys |-> d[k]]
With(d, k, v) == Single(k, v) ++ d
AsScope(d) == Without(d, _ENGINE_DATA_KEYS)

\* own: core gave the open task's own row the data in scope; usually it is empty
FormTasks == [number : 1..(MaxFormTasks + 1), variable : BOOLEAN, own : BOOLEAN]

(***************************************************************************)
(* The gateway                                                             *)
(***************************************************************************)

\* entries: condition and branch, in order; the default branch may be listed, without one
Literals == {"a", "b"}
FormDriven == "form"
NoGateway == [kind |-> "none", entries |-> <<>>, default |-> 0, name |-> "id"]
ConditionsOf(c1st, c2nd) == <<[cond |-> c1st, branch |-> 1], [cond |-> c2nd, branch |-> 2]>>
DefaultEntry == [cond |-> "null", branch |-> 3]
Gateways ==
    LET Conditions == Literals \cup {FormDriven} IN
    UNION {{[kind |-> kind, entries |-> entries, default |-> default, name |-> name] :
                default \in IF \E i \in DOMAIN entries : entries[i] = DefaultEntry
                            THEN {3} ELSE {0, 3}} :
           kind \in {"exclusive", "inclusive"}, name \in {"id", "a"},
           entries \in UNION {{<<[cond |-> first, branch |-> 1]>>,
                               ConditionsOf(first, second),
                               <<DefaultEntry>> \o ConditionsOf(first, second),
                               Append(ConditionsOf(first, second), DefaultEntry)} :
                              first \in Conditions, second \in Conditions}}

EntriesOf(g) == {g.entries[i] : i \in DOMAIN g.entries}
BranchesOf(g) == {e.branch : e \in EntriesOf(g)} \cup ({g.default} \ {0})
DependsOnForm(g) == \E e \in EntriesOf(g) : e.cond = FormDriven

\* The engine: a name that is not there raises.
Raises(e, d) ==
    \/ e.cond = FormDriven /\ FieldOf(1) \notin DOMAIN d
    \/ e.cond \in Literals /\ "outcome" \notin DOMAIN d
Matches(e, d) ==
    \/ e.cond = FormDriven /\ d[FieldOf(1)] = "yes"
    \/ e.cond \in Literals /\ d["outcome"] = e.cond

\* The branches an exclusive or inclusive gateway takes; none when it raises
Taken(g, d) ==
    LET Holds == {i \in DOMAIN g.entries : ~Raises(g.entries[i], d) /\ Matches(g.entries[i], d)}
        Seen == {i \in DOMAIN g.entries :
                    g.kind = "exclusive" => \A j \in Holds : j >= i}
    IN  IF \E i \in Seen : Raises(g.entries[i], d) THEN {}
        ELSE IF Holds = {} THEN {g.default} \ {0}
        ELSE {g.entries[i].branch : i \in Holds \cap Seen}

\* _default_flow_value: the name of the flow, or its id
DefaultValue(g) == g.name

\* The buttons; a branch on form data has none, and then the default has none either.
outcomes_for_task(g) ==
    IF Cardinality(BranchesOf(g)) <= 1 THEN {}
    ELSE {[value |-> e.cond, branch |-> e.branch] :
              e \in {x \in EntriesOf(g) : x.cond \in Literals}}
         \cup {[value |-> DefaultValue(g), branch |-> b] :
                  b \in {b \in {g.default} : b # 0 /\ ~DependsOnForm(g)}}

(***************************************************************************)
(* The data of a task                                                      *)
(***************************************************************************)

\* _task_data: what core keeps on the open task's own row
_task_data == IF formTask.own THEN AsScope(formData) ELSE NoData
\* _process_data
_process_data == AsScope(formData)
\* _prior_submission_values: what the form, and the instructions, are rendered over
_prior_submission_values == IF DOMAIN _task_data # {} THEN _task_data ELSE _process_data

\* A value too wide for its column is cut, and a cut dict is read back as a text.
CutText == Single("cut", "text")
IsDict(v) == "cut" \notin DOMAIN v
_stringify_metadata_value(v) ==
    IF Cardinality(DOMAIN v) > ValueWidth THEN CutText ELSE v

\* What is already under the variable
Existing ==
    IF Variable \in DOMAIN _task_data /\ IsDict(_task_data[Variable])
    THEN _task_data[Variable] ELSE NoData
\* (mutant of _nest_payload_under_task_variable: the variable is what was submitted)
NestAlone(payload) ==
    IF ~formTask.variable THEN payload
    ELSE With(Without(payload, DOMAIN payload \ {"outcome"}), Variable,
             _stringify_metadata_value(Without(payload, {"outcome"})))
\* (mutant of _nest_payload_under_task_variable: with the outcome in it)
NestAll(payload) ==
    IF formTask.variable THEN Single(Variable, _stringify_metadata_value(payload ++ Existing))
    ELSE payload
_nest_payload_under_task_variable(payload) ==
    IF ~formTask.variable THEN payload
    ELSE With(Without(payload, DOMAIN payload \ {"outcome"}), Variable,
             _stringify_metadata_value(Without(payload, {"outcome"}) ++ Existing))

\* The engine serializes a task as what it changed on its parent's data.
Serialized(before, after) ==
    [updates |-> [k \in {k \in DOMAIN after :
                            k \notin DOMAIN before \/ before[k] # after[k]} |-> after[k]],
     deletions |-> DOMAIN before \ DOMAIN after]
Applied(entry, data) == Without(entry.updates ++ data, entry.deletions)
\* The deltas from the root to the task
_task_data_from_workflow_state(i) ==
    LET Data[j \in 1..i] == IF j = 1 THEN chain[1].updates ELSE Applied(chain[j], Data[j - 1])
    IN  Data[i]

(***************************************************************************)
(* Actions                                                                 *)
(***************************************************************************)

Advance(data) ==
    /\ chain' = Append(chain, Serialized(AsScope(formData), AsScope(data)))
    /\ scope' = Append(scope, AsScope(data))
    /\ formData' = data

Standing(d) ==
    {<<FALSE, k>> : k \in DOMAIN d \cap FieldNames}
        \cup {<<TRUE, k>> : k \in IF Variable \in DOMAIN d THEN DOMAIN d[Variable] ELSE {}}

\* A script may drop a variable or put something under it.
RunScript ==
    /\ formTask.number <= MaxFormTasks
    /\ Len(chain) < formTask.number + MaxScripts
    /\ \/ \E k \in DOMAIN AsScope(formData) :
            /\ Advance(Without(formData, {k}))
            /\ given' = {a \in given : a # <<FALSE, k>> /\ (k = Variable => ~a[1])}
       \/ /\ Variable \notin DOMAIN formData
          /\ Advance(With(formData, Variable, Single("seed", "yes")))
          /\ given' = given \cup {<<TRUE, "seed">>}
    /\ \E own \in BOOLEAN : formTask' = [formTask EXCEPT !.own = own]
    /\ UNCHANGED <<gateway, replaced, decided>>

\* missing_required_fields: of the form, by its schema
missing_required_fields(payload) ==
    {k \in {FieldOf(formTask.number)} : k \notin DOMAIN payload \/ payload[k] = "null"}

\* What is sent: the field, a button or nothing, and a key that is the engine's
Payloads ==
    LET k == FieldOf(formTask.number)
        Field == {NoData} \cup {Single(k, v) : v \in {"yes", "no", "null"}}
        Button == {NoData} \cup {Single("outcome", b.value) : b \in outcomes_for_task(gateway)}
    IN  {f ++ b : f \in Field, b \in Button \cup {Single("data_objects", "sent")}}

\* submit_task_review drops nulls and asks for the required fields; the other routes do not.
AsSent(route, raw) ==
    IF route = "review" THEN [k \in {k \in DOMAIN raw : raw[k] # "null"} |-> raw[k]] ELSE raw
SubmitForm(route, raw) ==
    LET payload == Without(AsSent(route, raw), _ENGINE_DATA_KEYS)
        written == IF AsSent(route, raw) = NoData /\ route = "review" THEN NoData
                   ELSE _nest_payload_under_task_variable(payload)
        data == written ++ formData
        fields == {<<formTask.variable, k>> : k \in DOMAIN payload \ {"outcome"}} IN
    /\ formTask.number <= MaxFormTasks
    /\ route = "review" => missing_required_fields(AsSent(route, raw)) = {}
    /\ Advance(data)
    /\ given' = given \cup fields
    /\ replaced' = (replaced \/ /\ Variable \in DOMAIN written
                                /\ \/ ~IsDict(written[Variable])
                                   \/ Variable \in DOMAIN formData /\ Existing = NoData)
    /\ decided' = IF gateway.kind = "none" \/ "outcome" \notin DOMAIN payload THEN decided
                  ELSE [value |-> payload["outcome"], branches |-> Taken(gateway, data)]
    /\ \E variable, own \in BOOLEAN :
        formTask' = [number |-> formTask.number + 1, variable |-> variable, own |-> own]
    /\ UNCHANGED gateway

NotDecided == [value |-> "none", branches |-> {}]

\* bound: a gateway is looked at behind a line of one task, with or without an earlier outcome
TaskFormsInit ==
    /\ gateway \in Gateways \cup {NoGateway}
    /\ formTask \in [number : {IF gateway = NoGateway THEN 1 ELSE MaxFormTasks},
                     variable : BOOLEAN, own : BOOLEAN]
    /\ formData \in {Single("data_objects", "store")}
        \cup (IF gateway = NoGateway THEN {} ELSE
              {Single("outcome", "a") ++ Single(FieldOf(1), v) ++ Single("data_objects", "store") :
                  v \in {"yes", "no"}})
    /\ chain = <<Serialized(NoData, AsScope(formData))>>
    /\ scope = <<AsScope(formData)>>
    /\ given = Standing(formData)
    /\ replaced = FALSE
    /\ decided = NotDecided

TaskFormsNext ==
    \/ RunScript
    \/ \E route \in {"review", "complete", "external"}, raw \in Payloads : SubmitForm(route, raw)

TaskFormsSpec == TaskFormsInit /\ [][TaskFormsNext]_formVars

TaskFormsTypeOK ==
    /\ formTask \in FormTasks
    /\ gateway \in Gateways \cup {NoGateway}
    /\ DOMAIN formData \subseteq FieldNames \cup {Variable, "outcome"} \cup _ENGINE_DATA_KEYS
    /\ Len(chain) = Len(scope)
    /\ given \subseteq BOOLEAN \X FieldNames
    /\ replaced \in BOOLEAN
    /\ decided.branches \subseteq 1..3

(***************************************************************************)
(* Properties                                                              *)
(***************************************************************************)

\* "merge onto whatever scripts/earlier steps already put under the variable instead of
\* replacing it wholesale": what was given or seeded is still there, and the next form
\* opens with it, unless a variable outgrew its column or the open task's own row, which
\* usually is empty, was asked for what is under it.  No submission replaces the engine's
\* store or shows it; and the diagram page says of each finished step what was in its scope.
AnswersAreKept ==
    /\ ~replaced => given \subseteq Standing(_prior_submission_values)
    /\ formData["data_objects"] = "store" /\ "data_objects" \notin DOMAIN _prior_submission_values
    /\ \A i \in DOMAIN chain : _task_data_from_workflow_state(i) = scope[i]

\* A button leads where it says, whatever earlier tasks decided and wherever the form's
\* answers go: to its branch alone, unless two buttons send one value or a branch depends
\* on the form.  And where no branch does, every branch has its button.
ButtonsDecide ==
    LET buttons == outcomes_for_task(gateway)
        distinct == Cardinality({b.value : b \in buttons}) = Cardinality(buttons) IN
    /\ distinct /\ ~DependsOnForm(gateway) =>
        \A b \in buttons : decided.value = b.value => decided.branches = {b.branch}
    /\ \A b \in buttons : distinct /\ decided.value = b.value =>
        decided.branches \subseteq
            {b.branch} \cup {e.branch : e \in {x \in EntriesOf(gateway) : x.cond = FormDriven}}
    /\ gateway.kind # "none" /\ ~DependsOnForm(gateway) /\ Cardinality(BranchesOf(gateway)) > 1 =>
        {b.branch : b \in buttons} = BranchesOf(gateway)
=============================================================================
