------------------------------ MODULE Worklist ------------------------------
(***************************************************************************)
(* Who is offered which task and which process instance, and what the next *)
(* request does with the offer (workflow/__init__.py and the controllers   *)
(* of process instances, of Task Review and of Home; auth/__init__.py for  *)
(* the lane groups).  The pages compute their rows by queries of their own *)
(* and the routes behind the rows decide by others, over role grants, lane *)
(* groups that are synchronized when somebody signs in, and instances that *)
(* managers suspend, resume, terminate and delete.                         *)
(*                                                                         *)
(* Every query is made for one tenant, so the model has one; a person may  *)
(* be active in another organization meanwhile.  Each instance has one     *)
(* user task, in the lane of its starter or in a group lane, and an        *)
(* automatic step behind it.                                               *)
(***************************************************************************)
EXTENDS Naturals, FiniteSets

CONSTANTS
    People, NoPerson,
    MaxRuns,            \* bound: process instances
    InboxCap            \* rows a list of pending tasks is cut to (50)

ASSUME WorklistAssumption ==
    NoPerson \notin People /\ MaxRuns \in Nat \ {0} /\ InboxCap \in Nat \ {0}

VARIABLES
    roleHere,           \* the role of a person in the tenant
    here,               \* people whose active organization is the tenant
    joined,             \* user_group_assignment: members of the lane's group
    run,                \* the process instances with their work item
    unreconciled        \* history: the last reconciliation of the person failed

worklistVars == <<roleHere, here, joined, run, unreconciled>>

WorkRoles == {"tenant-admin", "editor", "viewer", "reviewer", "submitter"}
ActiveRun == {"user_input_required", "suspended"}
EndedRun == {"complete", "error", "terminated"}
Runs == 1..MaxRuns

NoRun == [status |-> "none", starter |-> NoPerson, lane |-> "initiator", candidates |-> {},
          claimed |-> NoPerson, completedBy |-> NoPerson, step |-> "FUTURE", events |-> {}]

WorklistTypeOK ==
    /\ roleHere \in [People -> WorkRoles]
    /\ here \subseteq People /\ joined \subseteq People /\ unreconciled \subseteq People
    /\ run \in [Runs -> [
            status : {"none", "deleted"} \cup ActiveRun \cup EndedRun,
            starter : People \cup {NoPerson}, lane : {"initiator", "group"},
            candidates : SUBSET People, claimed : People \cup {NoPerson},
            completedBy : People \cup {NoPerson},
            step : {"FUTURE", "COMPLETED", "ERROR", "TERMINATED"},
            events : SUBSET {"task_failed"}]]

WorklistInit ==
    /\ roleHere \in [People -> WorkRoles]
    /\ here = People /\ joined = {} /\ unreconciled = {}
    /\ run = [r \in Runs |-> NoRun]

(***************************************************************************)
(* The grants of the permission file                                       *)
(***************************************************************************)

MayStart(u) == roleHere[u] \in {"tenant-admin", "editor", "submitter"}
\* PUT /tasks/{id}/claim and POST /tasks/{id}/complete, in the engine too
MayWork(u) == roleHere[u] # "viewer"
MayReview(u) == roleHere[u] # "viewer"
MaySubmit(u) == roleHere[u] # "viewer"
HasInbox(u) == roleHere[u] \in {"tenant-admin", "reviewer", "submitter"}
MayManage(u) == roleHere[u] \in {"tenant-admin", "editor"}
ReadsTenantWide(u) == roleHere[u] = "tenant-admin"
\* /process-instances/for-me, which the tenant-wide grant covers
ReadsInstances(u) == roleHere[u] # "reviewer"

(***************************************************************************)
(* Queries                                                                 *)
(***************************************************************************)

HasRow(r) == run[r].status \notin {"none", "deleted"}
\* The work item is not completed: the engine closes it with its instance.
OpenRun(r) == run[r].status \in ActiveRun
Suspended(r) == run[r].status = "suspended"
_started_by(u, r) == run[r].starter = u
\* work_item_user "outlives completion".
_assigned_to(u, r) == u \in run[r].candidates
instance_relation(u, r) == _started_by(u, r) \/ _assigned_to(u, r)
instance_scope_clause(u, r, scope) ==
    CASE scope = "started" -> _started_by(u, r)
      [] scope = "assigned" -> _assigned_to(u, r)
      [] OTHER -> instance_relation(u, r)
\* instance_initiator_scope, _scope_instances
ScopedInstances(u, scope) ==
    {r \in Runs : /\ HasRow(r)
                  /\ (scope # "all" \/ ~ReadsTenantWide(u)) => instance_scope_clause(u, r, scope)}

list_process_instances(u, scope) == IF ReadsInstances(u) THEN ScopedInstances(u, scope) ELSE {}
InstancesWith(u, statuses) == {r \in ScopedInstances(u, "all") : run[r].status \in statuses}
count_active_process_instances(u) == Cardinality(InstancesWith(u, ActiveRun))
count_error_process_instances(u) == Cardinality(InstancesWith(u, {"error"}))
count_process_instances_completed(u) == Cardinality(InstancesWith(u, {"complete"}))
\* The n rows of rs with the highest ids
Newest(rs, n) == {r \in rs : Cardinality({q \in rs : q > r}) < n}
list_recent_process_instances(u) ==
    IF ReadsInstances(u) THEN Newest(ScopedInstances(u, "all"), InboxCap) ELSE {}

\* Open tasks of a person: the list behind GET /tasks, the rows of the inbox and of Home,
\* and the number on Home's card
list_pending_tasks(u) == {r \in Runs : OpenRun(r) /\ ~Suspended(r) /\ _assigned_to(u, r)}
list_pending_tasks_for_user(u) == Newest(list_pending_tasks(u), InboxCap)
list_task_review(u) == IF HasInbox(u) THEN list_pending_tasks_for_user(u) ELSE {}
\* (mutant of CountedTask: the count does not look at the instance)
CountedOpen(u, r) == OpenRun(r) /\ _assigned_to(u, r)
CountedTask(u, r) == OpenRun(r) /\ ~Suspended(r) /\ _assigned_to(u, r)
count_pending_tasks(u) == Cardinality({r \in Runs : CountedTask(u, r)})

\* The tabs of one instance
list_completable_tasks_for_designer(u, r) == OpenRun(r) /\ ~Suspended(r) /\ _assigned_to(u, r)
\* Open tasks by who they wait for
_waiting_for(r) ==
    IF run[r].claimed \in run[r].candidates THEN "user"
    ELSE IF run[r].lane = "group" THEN "group"
    ELSE IF run[r].candidates # {} THEN "initiator" ELSE "unassigned"
list_pending_tasks_for_designer(r) == OpenRun(r) /\ ~Suspended(r)
list_completed_tasks_for_designer(r) == HasRow(r) /\ ~OpenRun(r)
\* "Go opens Task Review": a candidate who cannot submit there is not offered it.
\* (mutant of CanSubmit: the button looks at the assignment only)
AnyCandidate(u) == TRUE
CanSubmit(u) == MaySubmit(u)
can_complete(u, r) == list_pending_tasks_for_designer(r) /\ _assigned_to(u, r) /\ CanSubmit(u)
\* The link from Task Review to the page of the instance
can_open_instance(u, r) ==
    HasRow(r) /\ ReadsInstances(u) /\ (ReadsTenantWide(u) \/ instance_relation(u, r))

\* What the Events tab shows of the automatic step: the recorded events, and one
\* synthesized from the task row unless an event of that type is there
_TASK_EVENT_BY_STATE == [s \in {"COMPLETED", "ERROR"} |->
                            IF s = "ERROR" THEN "task_failed" ELSE "task_completed"]
Synthesized(r) ==
    {s \in DOMAIN _TASK_EVENT_BY_STATE :
        run[r].step = s /\ _TASK_EVENT_BY_STATE[s] \notin run[r].events}
list_instance_events_for_designer(r) ==
    {<<"event", e>> : e \in run[r].events}
        \cup {<<"task", _TASK_EVENT_BY_STATE[s]>> : s \in Synthesized(r)}
\* The marker of the step on the diagram
DiagramState(r) == IF "task_failed" \in run[r].events THEN "ERROR" ELSE run[r].step

(***************************************************************************)
(* What the routes decide                                                  *)
(***************************************************************************)

\* _instance_or_404
_instance_or_404(u, r, manage) ==
    /\ HasRow(r)
    /\ ReadsTenantWide(u) \/ _started_by(u, r) \/ (_assigned_to(u, r) /\ ~manage)
get_process_instance(u, r) == ReadsInstances(u) /\ _instance_or_404(u, r, FALSE)
\* require_task_candidate
get_task_review(u, r) == MayReview(u) /\ HasRow(r) /\ _assigned_to(u, r)
\* claim: a suspended instance is refused by the host, a task that is closed or somebody
\* else's by the engine (external).
Claimable(u, r) ==
    /\ _assigned_to(u, r) /\ OpenRun(r) /\ ~Suspended(r)
    /\ run[r].claimed \in {u, NoPerson}
submit_task_review(u, r) == MaySubmit(u) /\ Claimable(u, r)
MayChange(u, r) == MayManage(u) /\ _instance_or_404(u, r, TRUE)

(***************************************************************************)
(* Actions                                                                 *)
(***************************************************************************)

SetRun(r, f) == run' = [run EXCEPT ![r] = f]

\* start: "core resolves lane owners once, when the task materializes, and skips members it
\* can't place in the tenant then".
StartRun(u) ==
    /\ u \in here /\ MayStart(u)
    /\ \E r \in Runs, lane \in {"initiator", "group"} :
        /\ run[r].status = "none" /\ \A q \in 1..(r - 1) : run[q].status # "none"
        /\ SetRun(r, [NoRun EXCEPT !.status = "user_input_required", !.starter = u, !.lane = lane,
                        !.candidates = IF lane = "group" THEN joined \cap here ELSE {u}])
    /\ UNCHANGED <<roleHere, here, joined, unreconciled>>

\* claim over PUT /tasks/{id}/claim
ClaimTask(u, r) ==
    /\ u \in here /\ MayWork(u) /\ Claimable(u, r)
    /\ SetRun(r, [run[r] EXCEPT !.claimed = u])
    /\ UNCHANGED <<roleHere, here, joined, unreconciled>>

\* complete: the step behind the task succeeds, or it fails, which the host records by the
\* status of the instance and a task_failed event; the engine leaves the row of the step in
\* error or "may mark the throwing service task TERMINATED while unwinding" (no page tells
\* that from the row a failed script leaves behind).
Finished(u, r) ==
    {[run[r] EXCEPT !.status = "complete", !.claimed = u, !.completedBy = u,
                    !.step = "COMPLETED"]}
    \cup {[run[r] EXCEPT !.status = "error", !.claimed = u, !.completedBy = u,
                    !.step = s, !.events = {"task_failed"}] :
            s \in {"ERROR", "TERMINATED"}}

\* POST /tasks/{id}/complete
CompleteInApp(u, r) ==
    /\ u \in here /\ MayWork(u) /\ Claimable(u, r)
    /\ \E f \in Finished(u, r) : SetRun(r, f)
    /\ UNCHANGED <<roleHere, here, joined, unreconciled>>

\* submit_task_review, submit_external_form: claims and completes; a required field that is
\* missing takes the claim back.
SubmitTask(u, r) ==
    /\ u \in here /\ submit_task_review(u, r)
    /\ \E f \in Finished(u, r) : SetRun(r, f)
    /\ UNCHANGED <<roleHere, here, joined, unreconciled>>

\* _lifecycle_write
ChangeStatus(u, r, from, to) ==
    /\ u \in here /\ MayChange(u, r) /\ run[r].status \in from
    /\ SetRun(r, [run[r] EXCEPT !.status = to])
    /\ UNCHANGED <<roleHere, here, joined, unreconciled>>
SuspendRun(u, r) == ChangeStatus(u, r, {"user_input_required"}, "suspended")
ResumeRun(u, r) == ChangeStatus(u, r, {"suspended"}, "user_input_required")
TerminateRun(u, r) == ChangeStatus(u, r, ActiveRun, "terminated")

\* delete_process_instance: the rows of the instance go with it.
DeleteRun(u, r) ==
    /\ u \in here /\ MayChange(u, r) /\ run[r].status \in EndedRun
    /\ SetRun(r, [NoRun EXCEPT !.status = "deleted"])
    /\ UNCHANGED <<roleHere, here, joined, unreconciled>>

\* (mutant of Reconciles: only when membership changed)
ReconcilesChanged(changed) == changed
\* "Reconcile on every sync, not only when membership changed"
Reconciles(changed) == TRUE

\* sync_lane_groups adds the groups of the token, if it lists the lane's; none is taken away.
sync_lane_groups(u) == {joined, joined \cup {u}}

\* A request of the person in the tenant: the lane groups of the token are added, and the
\* open tasks of the lane are reconciled, at best effort in a savepoint of its own.
SignInHere(u) ==
    /\ here' = here \cup {u}
    /\ joined' \in sync_lane_groups(u)
    /\ \/ /\ unreconciled' = unreconciled \ {u}
          /\ run' = [r \in Runs |->
                IF /\ Reconciles(joined' # joined) /\ u \in joined'
                   /\ OpenRun(r) /\ run[r].lane = "group"
                THEN [run[r] EXCEPT !.candidates = @ \cup {u}] ELSE run[r]]
       \/ unreconciled' = unreconciled \cup {u} /\ UNCHANGED run
    /\ UNCHANGED roleHere

\* The person selects another organization.
GoElsewhere(u) ==
    /\ u \in here /\ here' = here \ {u}
    /\ UNCHANGED <<roleHere, joined, run, unreconciled>>

WorklistNext ==
    \E u \in People :
        \/ StartRun(u) \/ SignInHere(u) \/ GoElsewhere(u)
        \/ \E r \in Runs :
            \/ ClaimTask(u, r) \/ CompleteInApp(u, r) \/ SubmitTask(u, r)
            \/ SuspendRun(u, r) \/ ResumeRun(u, r) \/ TerminateRun(u, r) \/ DeleteRun(u, r)

WorklistSpec == WorklistInit /\ [][WorklistNext]_worklistVars

(***************************************************************************)
(* Properties                                                              *)
(***************************************************************************)

\* What a page offers, the next request grants: an instance that is listed or linked opens,
\* and a task in the inbox or with a button can be read and, unless somebody else has
\* claimed it, submitted.  "A candidate who cannot submit there would land on Home
\* instead" (M8F-647).  Who completed a task can still read it (M8F-653).
OfferedIsAllowed ==
    \A r \in {q \in Runs : HasRow(q)}, u \in People :
        /\ r \in list_process_instances(u, "all") \cup list_recent_process_instances(u)
                \/ (get_task_review(u, r) /\ can_open_instance(u, r))
           => get_process_instance(u, r)
        /\ r \in list_task_review(u) \/ can_complete(u, r)
           => /\ get_task_review(u, r)
              /\ run[r].claimed \in {u, NoPerson} => submit_task_review(u, r)
        /\ run[r].completedBy = u => get_task_review(u, r)

\* The pages tell one story of an instance: Home's numbers are those of the lists, the
\* tabs share the tasks out between them, and a step that failed is shown once as failed
\* in the events and as failed on the diagram.
ViewsAgree ==
    (\E r \in Runs : HasRow(r)) =>
    /\ \A u \in People :
        /\ count_pending_tasks(u) = Cardinality(list_pending_tasks(u))
        /\ Cardinality(list_pending_tasks_for_user(u)) =
                IF count_pending_tasks(u) > InboxCap THEN InboxCap ELSE count_pending_tasks(u)
        /\ ReadsInstances(u) =>
                count_active_process_instances(u) + count_error_process_instances(u)
                    + count_process_instances_completed(u)
                    + Cardinality(InstancesWith(u, {"terminated"}))
                = Cardinality(list_process_instances(u, "all"))
    /\ \A r \in Runs :
        /\ HasRow(r) /\ ~Suspended(r) =>
                list_pending_tasks_for_designer(r) # list_completed_tasks_for_designer(r)
        /\ (_waiting_for(r) = "user") = (run[r].claimed # NoPerson)
        /\ run[r].status = "error" =>
                /\ Cardinality({e \in list_instance_events_for_designer(r) :
                                    e[2] = "task_failed"}) = 1
                /\ DiagramState(r) = "ERROR"

\* "A change-gated reconcile would orphan the task for good" (M8F-580): who is in the lane's
\* group and works in the tenant is a candidate of every open task of the lane, whatever
\* organization they were in when it was created, unless their reconciliation failed.
LaneMembersAreCandidates ==
    \A u \in (joined \cap here) \ unreconciled, r \in Runs :
        OpenRun(r) /\ run[r].lane = "group" => _assigned_to(u, r)
=============================================================================
