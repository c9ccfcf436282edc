--------------------------- MODULE WorklistProofs ---------------------------
(***************************************************************************)
(* What is offered, counted and granted of tasks and process instances,    *)
(* for any number of people and instances: the properties of Worklist      *)
(* follow from one invariant of the instances and, where numbers are       *)
(* compared, from the cardinalities of finite sets.  And what the roles of *)
(* tenants may do there: the properties of PermissionSeed follow from the  *)
(* shape of what the permission file grants, in every version, and from    *)
(* one invariant of the assignments, for any number of tenants, releases   *)
(* and concurrent imports.  And which definition a call activity of an     *)
(* instance finds: the property of CallActivities, for any number of       *)
(* models, diagrams and concurrent imports.  And where the buttons of a    *)
(* task lead and what becomes of an answer: the properties of TaskForms,   *)
(* for any number of tasks, scripts and gateways.                          *)
(***************************************************************************)
EXTENDS Worklist, PermissionSeed, CallActivities, TaskForms, FiniteSetTheorems, SequenceTheorems,
        WellFoundedInduction, TLAPS

USE WorklistAssumption

(***************************************************************************)
(* The invariant                                                           *)
(***************************************************************************)

RunFrames == [
    status : {"none", "deleted"} \cup ActiveRun \cup EndedRun,
    starter : People \cup {NoPerson}, lane : {"initiator", "group"},
    candidates : SUBSET People, claimed : People \cup {NoPerson},
    completedBy : People \cup {NoPerson},
    step : {"FUTURE", "COMPLETED", "ERROR", "TERMINATED"},
    events : SUBSET {"task_failed"}]

\* Who claimed a task is a candidate; who completed it is one with a role that works on
\* tasks, and the run has ended; a run in error has the event that says so.
RunOK(f) ==
    /\ f.claimed # NoPerson => f.claimed \in f.candidates
    /\ f.completedBy # NoPerson =>
        /\ f.status \in EndedRun
        /\ f.completedBy \in f.candidates
        /\ MayReview(f.completedBy)
    /\ f.status = "error" => "task_failed" \in f.events

RunsOK == \A r \in Runs : RunOK(run[r])

WorklistIInv == WorklistTypeOK /\ RunsOK /\ LaneMembersAreCandidates

\* The lane's members among the candidates, as far as the run's task is one of the lane
LaneOK(f) ==
    f.status \in ActiveRun /\ f.lane = "group" => (joined \cap here) \ unreconciled \subseteq f.candidates

LEMMA NoRunIsFrame == NoRun \in RunFrames
    BY DEF NoRun, RunFrames

LEMMA RunWritten ==
    ASSUME WorklistIInv, NEW r \in Runs, NEW f \in RunFrames, SetRun(r, f), RunOK(f), LaneOK(f),
           UNCHANGED <<roleHere, here, joined, unreconciled>>
    PROVE  WorklistIInv'
<1>1. /\ run' \in [Runs -> RunFrames] /\ run'[r] = f
      /\ \A q \in Runs \ {r} : run'[q] = run[q]
    BY DEF WorklistIInv, WorklistTypeOK, SetRun, RunFrames
<1>2. WorklistTypeOK'
    BY <1>1 DEF WorklistIInv, WorklistTypeOK, RunFrames
<1>3. RunsOK'
    BY <1>1 DEF WorklistIInv, RunsOK, RunOK, MayReview
<1>4. LaneMembersAreCandidates'
    BY <1>1 DEF WorklistIInv, LaneMembersAreCandidates, LaneOK, OpenRun, _assigned_to
<1> QED BY <1>2, <1>3, <1>4 DEF WorklistIInv

\* What is so of every run
LEMMA EachRun ==
    ASSUME WorklistIInv, NEW r \in Runs
    PROVE  run[r] \in RunFrames /\ RunOK(run[r]) /\ LaneOK(run[r])
<1>1. run[r] \in RunFrames /\ RunOK(run[r])
    BY DEF WorklistIInv, WorklistTypeOK, RunsOK, RunFrames
<1>2. LaneOK(run[r])
    BY DEF WorklistIInv, LaneMembersAreCandidates, LaneOK, OpenRun, _assigned_to
<1> QED BY <1>1, <1>2

LEMMA WorklistStart == WorklistInit => WorklistIInv
<1> SUFFICES ASSUME WorklistInit PROVE WorklistIInv
    OBVIOUS
<1>1. \A r \in Runs : run[r] = NoRun
    BY DEF WorklistInit
<1>2. WorklistTypeOK
    BY NoRunIsFrame DEF WorklistInit, WorklistTypeOK, RunFrames
<1>3. RunsOK
    BY <1>1 DEF RunsOK, RunOK, NoRun
<1>4. LaneMembersAreCandidates
    BY DEF WorklistInit, LaneMembersAreCandidates
<1> QED BY <1>2, <1>3, <1>4 DEF WorklistIInv

\* A task that a candidate works on is over, with the marks of whoever did it.
LEMMA FinishKeeps ==
    ASSUME WorklistIInv, NEW u \in People, NEW r \in Runs, Claimable(u, r), MayReview(u),
           \E f \in Finished(u, r) : SetRun(r, f),
           UNCHANGED <<roleHere, here, joined, unreconciled>>
    PROVE  WorklistIInv'
<1>1. run[r] \in RunFrames /\ u \in run[r].candidates
    BY EachRun DEF Claimable, _assigned_to
<1>2. PICK f \in Finished(u, r) : SetRun(r, f)
    OBVIOUS
<1>3. f \in RunFrames /\ RunOK(f) /\ LaneOK(f)
    <2>1. CASE f = [run[r] EXCEPT !.status = "complete", !.claimed = u, !.completedBy = u,
                                  !.step = "COMPLETED"]
        <3>1. /\ f \in RunFrames /\ f.status = "complete" /\ f.claimed = u /\ f.completedBy = u
              /\ f.candidates = run[r].candidates
            BY <1>1, <2>1 DEF RunFrames, EndedRun
        <3> QED BY <1>1, <3>1 DEF RunOK, LaneOK, EndedRun, ActiveRun
    <2>2. ASSUME NEW s \in {"ERROR", "TERMINATED"},
                 f = [run[r] EXCEPT !.status = "error", !.claimed = u, !.completedBy = u,
                                    !.step = s, !.events = {"task_failed"}]
          PROVE  f \in RunFrames /\ RunOK(f) /\ LaneOK(f)
        <3>1. /\ f \in RunFrames /\ f.status = "error" /\ f.claimed = u /\ f.completedBy = u
              /\ f.candidates = run[r].candidates /\ f.events = {"task_failed"}
            BY <1>1, <2>2 DEF RunFrames, EndedRun
        <3> QED BY <1>1, <3>1 DEF RunOK, LaneOK, EndedRun, ActiveRun
    <2> QED BY <1>2, <2>1, <2>2 DEF Finished
<1> QED BY <1>2, <1>3, RunWritten

LEMMA StatusKeeps ==
    ASSUME WorklistIInv, NEW u \in People, NEW r \in Runs, NEW from, NEW to,
           ChangeStatus(u, r, from, to), from \subseteq ActiveRun,
           to \in {"suspended", "user_input_required", "terminated"}
    PROVE  WorklistIInv'
<1> DEFINE f == [run[r] EXCEPT !.status = to]
<1>1. run[r] \in RunFrames /\ RunOK(run[r]) /\ LaneOK(run[r]) /\ run[r].status \in ActiveRun
    BY EachRun DEF ChangeStatus
<1>2. /\ f \in RunFrames /\ f.status = to /\ f.claimed = run[r].claimed /\ f.lane = run[r].lane
      /\ f.candidates = run[r].candidates /\ f.completedBy = run[r].completedBy
    BY <1>1 DEF RunFrames, ActiveRun, EndedRun
<1>3. SetRun(r, f) /\ UNCHANGED <<roleHere, here, joined, unreconciled>>
    BY DEF ChangeStatus
<1> HIDE DEF f
<1>4. RunOK(f)
    BY <1>1, <1>2 DEF RunOK, ActiveRun, EndedRun
<1>5. LaneOK(f)
    BY <1>1, <1>2 DEF LaneOK
<1> QED BY <1>2, <1>3, <1>4, <1>5, RunWritten

LEMMA WorklistStep == WorklistIInv /\ [WorklistNext]_worklistVars => WorklistIInv'
<1> SUFFICES ASSUME WorklistIInv, [WorklistNext]_worklistVars PROVE WorklistIInv'
    OBVIOUS
<1>0. CASE UNCHANGED worklistVars
    BY <1>0 DEF worklistVars, WorklistIInv, WorklistTypeOK, RunsOK, RunOK, MayReview,
                LaneMembersAreCandidates, OpenRun, _assigned_to
<1>1. ASSUME NEW u \in People, StartRun(u) PROVE WorklistIInv'
    <2> PICK r \in Runs, lane \in {"initiator", "group"} :
            SetRun(r, [NoRun EXCEPT !.status = "user_input_required", !.starter = u, !.lane = lane,
                          !.candidates = IF lane = "group" THEN joined \cap here ELSE {u}])
        BY <1>1 DEF StartRun
    <2> DEFINE f == [NoRun EXCEPT !.status = "user_input_required", !.starter = u, !.lane = lane,
                          !.candidates = IF lane = "group" THEN joined \cap here ELSE {u}]
    <2>1. joined \subseteq People
        BY DEF WorklistIInv, WorklistTypeOK
    <2>2. /\ f \in RunFrames /\ f.status = "user_input_required" /\ f.lane = lane
          /\ f.claimed = NoPerson /\ f.completedBy = NoPerson
          /\ f.candidates = IF lane = "group" THEN joined \cap here ELSE {u}
        BY <2>1, NoRunIsFrame DEF RunFrames, NoRun, ActiveRun
    <2> HIDE DEF f
    <2>3. SetRun(r, f)
        BY DEF f
    <2>4. RunOK(f) /\ LaneOK(f)
        BY <2>2 DEF RunOK, LaneOK
    <2>5. UNCHANGED <<roleHere, here, joined, unreconciled>>
        BY <1>1 DEF StartRun
    <2> QED BY <2>2, <2>3, <2>4, <2>5, RunWritten
<1>2. ASSUME NEW u \in People, SignInHere(u) PROVE WorklistIInv'
    BY <1>2 DEF SignInHere, sync_lane_groups, Reconciles, WorklistIInv, WorklistTypeOK, RunsOK, RunOK,
                MayReview, LaneMembersAreCandidates, OpenRun, _assigned_to
<1>3. ASSUME NEW u \in People, GoElsewhere(u) PROVE WorklistIInv'
    BY <1>3 DEF GoElsewhere, WorklistIInv, WorklistTypeOK, RunsOK, RunOK, MayReview,
                LaneMembersAreCandidates, OpenRun, _assigned_to
<1>4. ASSUME NEW u \in People, NEW r \in Runs, ClaimTask(u, r) PROVE WorklistIInv'
    <2> DEFINE f == [run[r] EXCEPT !.claimed = u]
    <2>1. run[r] \in RunFrames /\ RunOK(run[r]) /\ LaneOK(run[r]) /\ u \in run[r].candidates
        BY <1>4, EachRun DEF ClaimTask, Claimable, _assigned_to
    <2>2. /\ f \in RunFrames /\ f.status = run[r].status /\ f.claimed = u /\ f.lane = run[r].lane
          /\ f.candidates = run[r].candidates /\ f.completedBy = run[r].completedBy
          /\ f.events = run[r].events
        BY <2>1 DEF RunFrames
    <2>3. SetRun(r, f) /\ UNCHANGED <<roleHere, here, joined, unreconciled>>
        BY <1>4 DEF ClaimTask
    <2> HIDE DEF f
    <2>4. RunOK(f)
        BY <2>1, <2>2 DEF RunOK
    <2>5. LaneOK(f)
        BY <2>1, <2>2 DEF LaneOK
    <2> QED BY <2>2, <2>3, <2>4, <2>5, RunWritten
<1>5. ASSUME NEW u \in People, NEW r \in Runs, CompleteInApp(u, r) PROVE WorklistIInv'
    BY <1>5, FinishKeeps DEF CompleteInApp, MayWork, MayReview
<1>6. ASSUME NEW u \in People, NEW r \in Runs, SubmitTask(u, r) PROVE WorklistIInv'
    BY <1>6, FinishKeeps DEF SubmitTask, submit_task_review, MaySubmit, MayReview
<1>7. ASSUME NEW u \in People, NEW r \in Runs, SuspendRun(u, r) PROVE WorklistIInv'
    BY <1>7, StatusKeeps DEF SuspendRun, ActiveRun
<1>8. ASSUME NEW u \in People, NEW r \in Runs, ResumeRun(u, r) PROVE WorklistIInv'
    BY <1>8, StatusKeeps DEF ResumeRun, ActiveRun
<1>9. ASSUME NEW u \in People, NEW r \in Runs, TerminateRun(u, r) PROVE WorklistIInv'
    BY <1>9, StatusKeeps DEF TerminateRun, ActiveRun
<1>10. ASSUME NEW u \in People, NEW r \in Runs, DeleteRun(u, r) PROVE WorklistIInv'
    <2> DEFINE f == [NoRun EXCEPT !.status = "deleted"]
    <2>1. /\ f \in RunFrames /\ f.status = "deleted"
          /\ f.claimed = NoPerson /\ f.completedBy = NoPerson
        BY NoRunIsFrame DEF RunFrames, NoRun
    <2>2. SetRun(r, f) /\ UNCHANGED <<roleHere, here, joined, unreconciled>>
        BY <1>10 DEF DeleteRun
    <2> HIDE DEF f
    <2>3. RunOK(f) /\ LaneOK(f)
        BY <2>1 DEF RunOK, LaneOK, ActiveRun
    <2> QED BY <2>1, <2>2, <2>3, RunWritten
<1> QED
    BY <1>0, <1>1, <1>2, <1>3, <1>4, <1>5, <1>6, <1>7, <1>8, <1>9, <1>10 DEF WorklistNext

(***************************************************************************)
(* Lane members                                                            *)
(***************************************************************************)

\* Every member of a lane's group who works in the tenant is a candidate of its open tasks,
\* unless their last reconciliation failed (sync_lane_groups, reconcile).
THEOREM LaneMembersReached == WorklistSpec => []LaneMembersAreCandidates
<1>1. WorklistIInv => LaneMembersAreCandidates
    BY DEF WorklistIInv
<1> QED BY WorklistStart, WorklistStep, <1>1, PTL DEF WorklistSpec

(***************************************************************************)
(* What is offered                                                         *)
(***************************************************************************)

LEMMA OffersGranted == WorklistIInv => OfferedIsAllowed
<1> SUFFICES ASSUME WorklistIInv, NEW r \in Runs, HasRow(r), NEW u \in People
             PROVE  /\ r \in list_process_instances(u, "all") \cup list_recent_process_instances(u)
                            \/ (get_task_review(u, r) /\ can_open_instance(u, r))
                       => get_process_instance(u, r)
                    /\ r \in list_task_review(u) \/ can_complete(u, r)
                       => /\ get_task_review(u, r)
                          /\ run[r].claimed \in {u, NoPerson} => submit_task_review(u, r)
                    /\ run[r].completedBy = u => get_task_review(u, r)
    BY DEF OfferedIsAllowed
<1>1. r \in list_process_instances(u, "all") \cup list_recent_process_instances(u)
            \/ (get_task_review(u, r) /\ can_open_instance(u, r))
        => get_process_instance(u, r)
    BY DEF list_process_instances, list_recent_process_instances, Newest, ScopedInstances,
           instance_scope_clause, instance_relation, can_open_instance, get_process_instance,
           _instance_or_404
<1>2. r \in list_task_review(u) => list_pending_tasks_for_designer(r) /\ _assigned_to(u, r) /\ MayReview(u)
    BY DEF list_task_review, list_pending_tasks_for_user, Newest, list_pending_tasks, HasInbox, MayReview,
           list_pending_tasks_for_designer
<1>3. can_complete(u, r) => list_pending_tasks_for_designer(r) /\ _assigned_to(u, r) /\ MayReview(u)
    BY DEF can_complete, CanSubmit, MaySubmit, MayReview
<1>4. list_pending_tasks_for_designer(r) /\ _assigned_to(u, r) /\ MayReview(u)
        => /\ get_task_review(u, r)
           /\ run[r].claimed \in {u, NoPerson} => submit_task_review(u, r)
    BY DEF get_task_review, submit_task_review, Claimable, MayReview, MaySubmit,
           list_pending_tasks_for_designer, OpenRun, ActiveRun, HasRow
<1>5. run[r].completedBy = u => get_task_review(u, r)
    BY EachRun DEF RunOK, get_task_review, _assigned_to
<1> QED BY <1>1, <1>2, <1>3, <1>4, <1>5

\* What the pages list or link, the routes behind them grant (list_*, can_complete,
\* require_task_candidate, _instance_or_404).
THEOREM OffersAreGranted == WorklistSpec => []OfferedIsAllowed
<1> QED BY WorklistStart, WorklistStep, OffersGranted, PTL DEF WorklistSpec

(***************************************************************************)
(* Counting                                                                *)
(***************************************************************************)

\* The n rows with the highest ids are n rows, or all of them: the rank of a row, the
\* number of rows above it, numbers the rows from 0 without gaps.
LEMMA NewestCount ==
    ASSUME NEW rs \in SUBSET Nat, IsFiniteSet(rs), NEW n \in Nat
    PROVE  Cardinality(Newest(rs, n)) = IF Cardinality(rs) > n THEN n ELSE Cardinality(rs)
<1> DEFINE above(r) == {q \in rs : q > r}
           size == Cardinality(rs)
           rank == [r \in rs |-> Cardinality(above(r))]
<1>0. size \in Nat
    BY FS_CardinalityType
<1>1. ASSUME NEW r \in rs PROVE IsFiniteSet(above(r)) /\ rank[r] \in 0..(size - 1)
    <2>1. IsFiniteSet(rs \ {r}) /\ Cardinality(rs \ {r}) = size - 1
        BY FS_RemoveElement
    <2>2. above(r) \in SUBSET (rs \ {r})
        OBVIOUS
    <2>3. IsFiniteSet(above(r)) /\ Cardinality(above(r)) <= size - 1
        BY <2>1, <2>2, FS_Subset
    <2>4. Cardinality(above(r)) \in Nat
        BY <2>3, FS_CardinalityType
    <2> QED BY <1>0, <2>3, <2>4
<1>2. ASSUME NEW r \in rs, NEW s \in rs, r < s PROVE rank[s] < rank[r]
    <2>1. IsFiniteSet(above(s)) /\ IsFiniteSet(above(r))
        BY <1>1
    <2>2. Cardinality(above(s) \cup {s}) = rank[s] + 1
        <3>0. s \in Nat
            OBVIOUS
        <3>1. s \notin above(s)
            BY <3>0
        <3> HIDE DEF above
        <3>2. Cardinality(above(s) \cup {s}) = Cardinality(above(s)) + 1
            BY <2>1, <3>1, FS_AddElement
        <3> QED BY <3>2
    <2>3. above(s) \cup {s} \in SUBSET above(r)
        <3>1. s \in Nat /\ r \in Nat /\ r < s /\ \A q \in rs : q \in Nat
            BY <1>2
        <3>2. \A q \in rs : q > s => q > r
            <4> TAKE q \in rs
            <4>1. q \in Nat
                BY <3>1
            <4> QED BY <3>1, <4>1
        <3>3. s > r
            BY <3>1
        <3> QED BY <3>2, <3>3
    <2>4. rank[s] + 1 <= rank[r]
        BY <2>1, <2>2, <2>3, FS_Subset
    <2>5. rank[s] \in Nat /\ rank[r] \in Nat
        BY <2>1, FS_CardinalityType
    <2> QED BY <2>4, <2>5
<1>3. rank \in Injection(rs, 0..(size - 1))
    <2>1. rank \in [rs -> 0..(size - 1)]
        BY <1>1
    <2>2. ASSUME NEW r \in rs, NEW s \in rs, r # s PROVE rank[r] # rank[s]
        <3>1. r < s \/ s < r
            BY <2>2
        <3>2. rank[r] \in Int /\ rank[s] \in Int
            BY <2>1, <1>0
        <3> QED BY <1>2, <3>1, <3>2
    <2> HIDE DEF rank
    <2> QED BY <2>1, <2>2 DEF Injection, IsInjective
<1>4. IsFiniteSet(0..(size - 1)) /\ Cardinality(0..(size - 1)) = size
    <2> HIDE DEF size
    <2>1. 0 \in Int /\ size - 1 \in Int
        BY <1>0
    <2> QED BY <1>0, <2>1, FS_Interval
<1>5. rank \in Surjection(rs, 0..(size - 1))
    <2> HIDE DEF rank, size
    <2> QED BY <1>3, <1>4, FS_Injection DEF size
<1> DEFINE m == IF size > n THEN n ELSE size
           newest == {r \in rs : rank[r] < n}
           place == [r \in newest |-> rank[r]]
<1>6. Newest(rs, n) = newest
    BY DEF Newest
<1>7. m \in Nat /\ IsFiniteSet(0..(m - 1)) /\ Cardinality(0..(m - 1)) = m
    <2>1. m \in Nat
        BY <1>0
    <2> HIDE DEF m
    <2>2. 0 \in Int /\ m - 1 \in Int
        BY <2>1
    <2> QED BY <2>1, <2>2, FS_Interval
<1>8. place \in [newest -> 0..(m - 1)]
    <2>1. ASSUME NEW r \in newest PROVE rank[r] \in 0..(m - 1)
        BY <1>0, <1>1
    <2> HIDE DEF rank
    <2> QED BY <2>1
<1>9. \A r, s \in newest : place[r] = place[s] => r = s
    <2> HIDE DEF rank
    <2> QED BY <1>3 DEF Injection, IsInjective
<1>10. \A k \in 0..(m - 1) : \E r \in newest : place[r] = k
    <2> TAKE k \in 0..(m - 1)
    <2>1. k \in 0..(size - 1) /\ k < n
        BY <1>0
    <2> HIDE DEF rank
    <2>2. PICK r \in rs : rank[r] = k
        BY <1>5, <2>1 DEF Surjection
    <2> QED BY <2>1, <2>2
<1> HIDE DEF place, newest, m, rank
<1>11. place \in Injection(newest, 0..(m - 1)) /\ place \in Surjection(newest, 0..(m - 1))
    BY <1>8, <1>9, <1>10 DEF Injection, IsInjective, Surjection
<1>12. Cardinality(newest) = m
    BY <1>7, <1>11, FS_Injection
<1> QED BY <1>6, <1>12 DEF m

LEMMA DisjointUnion ==
    ASSUME NEW S, NEW T, IsFiniteSet(S), IsFiniteSet(T), S \cap T = {}
    PROVE  /\ IsFiniteSet(S \cup T)
           /\ Cardinality(S \cup T) = Cardinality(S) + Cardinality(T)
<1>1. /\ IsFiniteSet(S \cup T)
      /\ Cardinality(S \cup T) = Cardinality(S) + Cardinality(T) - Cardinality(S \cap T)
    BY FS_Union
<1>2. Cardinality(S \cap T) = 0 /\ Cardinality(S) \in Nat /\ Cardinality(T) \in Nat
    BY FS_EmptySet, FS_CardinalityType
<1> QED BY <1>1, <1>2

LEMMA RunsFinite == IsFiniteSet(Runs) /\ Runs \subseteq Nat
<1>1. IsFiniteSet(1..MaxRuns)
    BY FS_Interval
<1> QED BY <1>1 DEF Runs

\* A page's four sets of instances are disjoint and are all of them.
LEMMA StatusesAddUp ==
    ASSUME WorklistIInv, NEW u \in People
    PROVE  count_active_process_instances(u) + count_error_process_instances(u)
                + count_process_instances_completed(u)
                + Cardinality(InstancesWith(u, {"terminated"}))
           = Cardinality(ScopedInstances(u, "all"))
<1> DEFINE all == ScopedInstances(u, "all")
           A == InstancesWith(u, ActiveRun)
           B == InstancesWith(u, {"error"})
           C == InstancesWith(u, {"complete"})
           D == InstancesWith(u, {"terminated"})
<1>1. all \in SUBSET Runs /\ A \in SUBSET Runs /\ B \in SUBSET Runs /\ C \in SUBSET Runs /\ D \in SUBSET Runs
    BY DEF ScopedInstances, InstancesWith
<1>2. \A r \in all : run[r].status \in ActiveRun \cup EndedRun
    BY EachRun DEF ScopedInstances, HasRow, RunFrames
<1>3. all = ((A \cup B) \cup C) \cup D
    BY <1>2 DEF InstancesWith, EndedRun
<1>4. A \cap B = {} /\ (A \cup B) \cap C = {} /\ ((A \cup B) \cup C) \cap D = {}
    BY DEF InstancesWith, ActiveRun
<1> HIDE DEF all, A, B, C, D
<1>5. IsFiniteSet(A) /\ IsFiniteSet(B) /\ IsFiniteSet(C) /\ IsFiniteSet(D)
    BY <1>1, RunsFinite, FS_Subset
<1>6. /\ Cardinality(A) \in Nat /\ Cardinality(B) \in Nat
      /\ Cardinality(C) \in Nat /\ Cardinality(D) \in Nat
    BY <1>5, FS_CardinalityType
<1>7. IsFiniteSet(A \cup B) /\ Cardinality(A \cup B) = Cardinality(A) + Cardinality(B)
    BY <1>4, <1>5, <1>6, DisjointUnion
<1>8. /\ IsFiniteSet((A \cup B) \cup C)
      /\ Cardinality((A \cup B) \cup C) = Cardinality(A) + Cardinality(B) + Cardinality(C)
    BY <1>4, <1>5, <1>7, DisjointUnion
<1>9. Cardinality(all) = Cardinality(A) + Cardinality(B) + Cardinality(C) + Cardinality(D)
    BY <1>3, <1>4, <1>5, <1>8, DisjointUnion
<1> QED BY <1>6, <1>9 DEF all, A, B, C, D, count_active_process_instances, count_error_process_instances,
                    count_process_instances_completed

\* A failed step has its one event, recorded and not synthesized again.
LEMMA FailureShownOnce ==
    ASSUME WorklistIInv, NEW r \in Runs, run[r].status = "error"
    PROVE  /\ Cardinality({e \in list_instance_events_for_designer(r) : e[2] = "task_failed"}) = 1
           /\ DiagramState(r) = "ERROR"
<1>1. "task_failed" \in run[r].events
    BY EachRun DEF RunOK
<1>2. {e \in list_instance_events_for_designer(r) : e[2] = "task_failed"} = {<<"event", "task_failed">>}
    <2>1. \A s \in Synthesized(r) : _TASK_EVENT_BY_STATE[s] # "task_failed"
        BY <1>1 DEF Synthesized
    <2> QED BY <1>1, <2>1 DEF list_instance_events_for_designer
<1> QED BY <1>1, <1>2, FS_Singleton DEF DiagramState

LEMMA ViewsTellOneStory == WorklistIInv => ViewsAgree
<1> SUFFICES ASSUME WorklistIInv PROVE ViewsAgree
    OBVIOUS
<1>1. ASSUME NEW u \in People
      PROVE  /\ count_pending_tasks(u) = Cardinality(list_pending_tasks(u))
             /\ Cardinality(list_pending_tasks_for_user(u)) =
                    IF count_pending_tasks(u) > InboxCap THEN InboxCap ELSE count_pending_tasks(u)
             /\ ReadsInstances(u) =>
                    count_active_process_instances(u) + count_error_process_instances(u)
                        + count_process_instances_completed(u)
                        + Cardinality(InstancesWith(u, {"terminated"}))
                    = Cardinality(list_process_instances(u, "all"))
    <2>1. count_pending_tasks(u) = Cardinality(list_pending_tasks(u))
        BY DEF count_pending_tasks, list_pending_tasks, CountedTask
    <2>2. list_pending_tasks(u) \in SUBSET Nat /\ IsFiniteSet(list_pending_tasks(u))
        <3>1. list_pending_tasks(u) \in SUBSET Runs
            BY DEF list_pending_tasks
        <3> QED BY <3>1, RunsFinite, FS_Subset
    <2>3. Cardinality(list_pending_tasks_for_user(u)) =
            IF count_pending_tasks(u) > InboxCap THEN InboxCap ELSE count_pending_tasks(u)
        BY <2>1, <2>2, NewestCount DEF list_pending_tasks_for_user
    <2> QED BY <2>1, <2>3, StatusesAddUp DEF list_process_instances
<1>2. ASSUME NEW r \in Runs
      PROVE  /\ HasRow(r) /\ ~Suspended(r) =>
                    list_pending_tasks_for_designer(r) # list_completed_tasks_for_designer(r)
             /\ (_waiting_for(r) = "user") = (run[r].claimed # NoPerson)
    <2>1. HasRow(r) /\ ~Suspended(r) =>
                    list_pending_tasks_for_designer(r) # list_completed_tasks_for_designer(r)
        BY DEF list_pending_tasks_for_designer, list_completed_tasks_for_designer
    <2>2. run[r].claimed # NoPerson <=> run[r].claimed \in run[r].candidates
        BY EachRun DEF RunOK, RunFrames
    <2> QED BY <2>1, <2>2 DEF _waiting_for
<1> QED BY <1>1, <1>2, FailureShownOnce DEF ViewsAgree

\* The numbers of Home are those of the lists, the tabs share the tasks out, and a failed
\* step is shown once (count_*, list_*_for_designer, _waiting_for), for any number of
\* process instances and any cap of the inbox.
THEOREM ViewsTellTheSame == WorklistSpec => []ViewsAgree
<1> QED BY WorklistStart, WorklistStep, ViewsTellOneStory, PTL DEF WorklistSpec

-----------------------------------------------------------------------------
HIDE WorklistAssumption

(***************************************************************************)
(* What the permission file grants, in any version                         *)
(***************************************************************************)
LEMMA GrantFields ==
    ASSUME NEW r, NEW p, NEW t, NEW c
    PROVE  /\ Grant(r, p, t, c).role = r /\ Grant(r, p, t, c).permission = p
           /\ Grant(r, p, t, c).target = t /\ Grant(r, p, t, c).command = c
BY DEF Grant

LEMMA OfEntry ==
    ASSUME NEW roles, NEW permissions, NEW t, NEW c, NEW g \in Entry(roles, permissions, t, c)
    PROVE  /\ g.role \in roles /\ g.permission \in permissions /\ g.target = t /\ g.command = c
           /\ g = Grant(g.role, g.permission, g.target, g.command)
BY DEF Entry, Grant

LEMMA InEntry ==
    ASSUME NEW roles, NEW permissions, NEW t, NEW c, NEW r \in roles, NEW p \in permissions
    PROVE  Grant(r, p, t, c) \in Entry(roles, permissions, t, c)
BY DEF Entry

LEMMA YamlEntries ==
    ASSUME NEW v \in 0..7, NEW g \in Yaml[v]
    PROVE  \/ g \in Entry(WideReaders(v), {"read"}, "instances", "process_instance.list")
           \/ g \in Entry(WideReaders(v), {"read"}, "instance", "process_instance.read")
           \/ g \in Plain(OwnReaders(v), "read", "forMe")
           \/ g \in Entry(Builders, {IF v = 0 THEN "create" ELSE "execute"}, "instance", "process.suspend")
           \/ g \in Plain(Builders \cup {"submitter"}, "create", "instances")
           \/ g \in Plain(Builders, "all", "models")
           \/ g \in Entry(Builders \cup {"submitter"}, {"start"}, "models", "process.start")
           \/ g \in Entry({"viewer", "reviewer", "submitter"}, {"read"}, "models", "process_model.read")
           \/ g \in Plain(Workers \cup {"editor"}, "all", "task")
           \/ g \in Plain(Workers \cup {"editor"}, "execute", "task")
           \/ g \in Entry(SignedInRoles, {"read"}, "tasks", "task.list")
           \/ g \in Plain(Workers, "read", "inbox")
           \/ g \in Plain(Workers \cup (IF v >= 7 THEN {"editor"} ELSE {}), "read", "review")
           \/ g \in Plain(Workers \cup (IF v >= 7 THEN {"editor"} ELSE {}), "create", "submit")
           \/ g \in Plain(IF v = 0 THEN {"editor"} ELSE IF v = 1 THEN {} ELSE Workers, "read", "homeCount")
           \/ g \in Plain(IF v >= 6 THEN SignedInRoles \cup {"user"} ELSE {"user"}, "read", "onboarding")
BY DEF Yaml

LEMMA YamlHas ==
    ASSUME NEW v \in 1..7
    PROVE  /\ Entry(Builders, {"execute"}, "instance", "process.suspend") \subseteq Yaml[v]
           /\ Plain(Builders \cup {"submitter"}, "create", "instances") \subseteq Yaml[v]
           /\ Plain(Builders, "all", "models") \subseteq Yaml[v]
           /\ Entry(Builders \cup {"submitter"}, {"start"}, "models", "process.start") \subseteq Yaml[v]
           /\ Plain(Workers \cup {"editor"}, "all", "task") \subseteq Yaml[v]
           /\ Plain(Workers \cup {"editor"}, "execute", "task") \subseteq Yaml[v]
           /\ v >= 6 => Plain(SignedInRoles \cup {"user"}, "read", "onboarding") \subseteq Yaml[v]
<1> v \in 0..7 /\ v # 0
    OBVIOUS
<1>1. Entry(Builders, {"execute"}, "instance", "process.suspend") \subseteq Yaml[v]
    BY DEF Yaml
<1>2. Plain(Builders \cup {"submitter"}, "create", "instances") \subseteq Yaml[v]
    BY DEF Yaml
<1>3. Plain(Builders, "all", "models") \subseteq Yaml[v]
    BY DEF Yaml
<1>4. Entry(Builders \cup {"submitter"}, {"start"}, "models", "process.start") \subseteq Yaml[v]
    BY DEF Yaml
<1>5. Plain(Workers \cup {"editor"}, "all", "task") \subseteq Yaml[v]
    BY DEF Yaml
<1>6. Plain(Workers \cup {"editor"}, "execute", "task") \subseteq Yaml[v]
    BY DEF Yaml
<1>7. v >= 6 => Plain(SignedInRoles \cup {"user"}, "read", "onboarding") \subseteq Yaml[v]
    BY DEF Yaml
<1> QED BY <1>1, <1>2, <1>3, <1>4, <1>5, <1>6, <1>7

(***************************************************************************)
(* Targets.  A route and what is below it match by the first segment; the  *)
(* others need more segments than the route has.                           *)
(***************************************************************************)
LEMMA TargetNames ==
    DOMAIN Targets = {"instances", "instance", "forMe", "models", "task", "tasks", "inbox",
                      "review", "submit", "homeCount", "onboarding"}
BY DEF Targets

From(first, star) == [head |-> <<first>>, star |-> star, tail |-> <<>>]

LEMMA ShortTargets ==
    /\ Targets.instances = From("process-instances", 0)
    /\ Targets.instance = From("process-instances", 1)
    /\ Targets.models = From("process-models", 1)
    /\ Targets.task = From("tasks", 1)
    /\ Targets.tasks = From("tasks", 0)
    /\ Targets.onboarding = From("onboarding", 0)
BY DEF Targets, Open, Below, From

LEMMA HeadOf == ASSUME NEW s PROVE SubSeq(s, 1, 1) = <<s[1]>>
<1> DEFINE h == SubSeq(s, 1, 1)
           S == {s[1]}
<1>1. h \in Seq(S) /\ Len(h) = 1 /\ h[1] = s[1]
    BY SubSeqProperties
<1>2. <<s[1]>> \in Seq(S) /\ Len(<<s[1]>>) = 1 /\ <<s[1]>>[1] = s[1]
    OBVIOUS
<1> HIDE DEF h, S
<1>3. Len(h) = Len(<<s[1]>>) /\ \A i \in 1..Len(h) : h[i] = <<s[1]>>[i]
    BY <1>1
<1>4. h = <<s[1]>>
    BY <1>1, <1>2, <1>3, SeqEqual
<1> QED BY <1>4 DEF h

LEMMA MatchesFrom ==
    ASSUME NEW s, Len(s) \in 1..3
    PROVE  /\ _path_matches(s, From(s[1], 0))
           /\ Len(s) \in 2..3 => _path_matches(s, From(s[1], 1))
           /\ Len(s) = 1 => ~_path_matches(s, From(s[1], 1))
<1>1. SubSeq(s, 1, 1) = <<s[1]>>
    BY HeadOf
<1>2. SubSeq(s, Len(s) + 1, Len(s)) = <<>>
    BY SubSeqEmpty
<1>3. SubSeq(s, Len(s) - Len(<<>>) + 1, Len(s)) = <<>> /\ SubSeq(s, 1, Len(<<s[1]>>)) = <<s[1]>>
    BY <1>1, <1>2
<1>4. _path_matches(s, From(s[1], 0)) <=> Len(s) >= Len(<<s[1]>>) + 0 + Len(<<>>)
    BY <1>3 DEF _path_matches, From
<1>5. _path_matches(s, From(s[1], 1)) <=> Len(s) >= Len(<<s[1]>>) + 1 + Len(<<>>)
    BY <1>3 DEF _path_matches, From
<1>6. Len(<<s[1]>>) = 1 /\ Len(<<>>) = 0
    OBVIOUS
<1>7. _path_matches(s, From(s[1], 0))
    BY <1>4, <1>6
<1>8. _path_matches(s, From(s[1], 1)) <=> Len(s) >= 2
    BY <1>5, <1>6
<1>9. (Len(s) \in 2..3 => Len(s) >= 2) /\ (Len(s) = 1 => ~(Len(s) >= 2))
    <2>1. \A n \in Nat : (n \in 2..3 => n >= 2) /\ (n = 1 => ~(n >= 2))
        OBVIOUS
    <2>2. Len(s) \in Nat
        OBVIOUS
    <2> QED BY <2>1, <2>2
<1> QED BY <1>7, <1>8, <1>9

LEMMA HeadDiffers ==
    ASSUME NEW s, NEW first, s[1] # first, NEW star
    PROVE  ~_path_matches(s, From(first, star))
<1>1. SubSeq(s, 1, 1) # <<first>>
    BY HeadOf
<1>2. Len(<<first>>) = 1
    OBVIOUS
<1> QED BY <1>1, <1>2 DEF _path_matches, From

LEMMA OfInstances ==
    TargetsOf[Instances] = {"instances"}
<1>1. TargetsOf[Instances] = {t \in DOMAIN Targets : _path_matches(Instances, Targets[t])}
    BY DEF TargetsOf, Routes
<1>2. Len(Instances) \in 1..3 /\ Len(Instances) = 1 /\ Instances[1] = "process-instances"
    BY DEF Instances
<1>3. _path_matches(Instances, Targets.instances)
    BY <1>2, MatchesFrom, ShortTargets
<1>4. /\ ~_path_matches(Instances, Targets.models)
      /\ ~_path_matches(Instances, Targets.task)
      /\ ~_path_matches(Instances, Targets.tasks)
      /\ ~_path_matches(Instances, Targets.onboarding)
    BY <1>2, HeadDiffers, ShortTargets
<1>5. ~_path_matches(Instances, Targets.instance)
    BY <1>2, MatchesFrom, ShortTargets
<1>6. /\ ~_path_matches(Instances, Targets.forMe)
      /\ ~_path_matches(Instances, Targets.inbox)
    BY DEF _path_matches, Targets, Instances, Open, Below
<1>7. /\ ~_path_matches(Instances, Targets.review)
      /\ ~_path_matches(Instances, Targets.submit)
    BY DEF _path_matches, Targets, Instances, Open, Below
<1>8. ~_path_matches(Instances, Targets.homeCount)
    BY DEF _path_matches, Targets, Instances, Open, Below
<1> QED BY <1>1, <1>3, <1>4, <1>5, <1>6, <1>7, <1>8, TargetNames

LEMMA OfOneInstance ==
    /\ TargetsOf[OneInstance] \subseteq {"instances", "instance"}
    /\ "instance" \in TargetsOf[OneInstance]
<1>1. TargetsOf[OneInstance] = {t \in DOMAIN Targets : _path_matches(OneInstance, Targets[t])}
    BY DEF TargetsOf, Routes
<1>2. Len(OneInstance) \in 1..3 /\ Len(OneInstance) \in 2..3 /\ OneInstance[1] = "process-instances"
    BY DEF OneInstance
<1>3. _path_matches(OneInstance, Targets.instance)
    BY <1>2, MatchesFrom, ShortTargets
<1>4. /\ ~_path_matches(OneInstance, Targets.models)
      /\ ~_path_matches(OneInstance, Targets.task)
      /\ ~_path_matches(OneInstance, Targets.tasks)
      /\ ~_path_matches(OneInstance, Targets.onboarding)
    BY <1>2, HeadDiffers, ShortTargets
<1>5. /\ ~_path_matches(OneInstance, Targets.forMe)
      /\ ~_path_matches(OneInstance, Targets.inbox)
    BY DEF _path_matches, Targets, OneInstance, Open, Below
<1>6. /\ ~_path_matches(OneInstance, Targets.review)
      /\ ~_path_matches(OneInstance, Targets.submit)
    BY DEF _path_matches, Targets, OneInstance, Open, Below
<1>7. ~_path_matches(OneInstance, Targets.homeCount)
    BY DEF _path_matches, Targets, OneInstance, Open, Below
<1> QED BY <1>1, <1>3, <1>4, <1>5, <1>6, <1>7, TargetNames

LEMMA OfOneModel ==
    TargetsOf[OneModel] = {"models"}
<1>1. TargetsOf[OneModel] = {t \in DOMAIN Targets : _path_matches(OneModel, Targets[t])}
    BY DEF TargetsOf, Routes
<1>2. Len(OneModel) \in 1..3 /\ Len(OneModel) \in 2..3 /\ OneModel[1] = "process-models"
    BY DEF OneModel
<1>3. _path_matches(OneModel, Targets.models)
    BY <1>2, MatchesFrom, ShortTargets
<1>4. /\ ~_path_matches(OneModel, Targets.instances)
      /\ ~_path_matches(OneModel, Targets.instance)
      /\ ~_path_matches(OneModel, Targets.task)
      /\ ~_path_matches(OneModel, Targets.tasks)
      /\ ~_path_matches(OneModel, Targets.onboarding)
    BY <1>2, HeadDiffers, ShortTargets
<1>5. /\ ~_path_matches(OneModel, Targets.forMe)
      /\ ~_path_matches(OneModel, Targets.inbox)
    BY DEF _path_matches, Targets, OneModel, Open, Below
<1>6. /\ ~_path_matches(OneModel, Targets.review)
      /\ ~_path_matches(OneModel, Targets.submit)
    BY DEF _path_matches, Targets, OneModel, Open, Below
<1>7. ~_path_matches(OneModel, Targets.homeCount)
    BY DEF _path_matches, Targets, OneModel, Open, Below
<1> QED BY <1>1, <1>3, <1>4, <1>5, <1>6, <1>7, TargetNames

LEMMA OfOneTask ==
    TargetsOf[OneTask] \subseteq {"task", "tasks"} /\ "task" \in TargetsOf[OneTask]
<1>1. TargetsOf[OneTask] = {t \in DOMAIN Targets : _path_matches(OneTask, Targets[t])}
    BY DEF TargetsOf, Routes
<1>2. Len(OneTask) \in 1..3 /\ Len(OneTask) \in 2..3 /\ OneTask[1] = "tasks"
    BY DEF OneTask
<1>3. _path_matches(OneTask, Targets.task)
    BY <1>2, MatchesFrom, ShortTargets
<1>4. /\ ~_path_matches(OneTask, Targets.instances)
      /\ ~_path_matches(OneTask, Targets.instance)
      /\ ~_path_matches(OneTask, Targets.models)
      /\ ~_path_matches(OneTask, Targets.onboarding)
    BY <1>2, HeadDiffers, ShortTargets
<1>5. /\ ~_path_matches(OneTask, Targets.forMe)
      /\ ~_path_matches(OneTask, Targets.inbox)
    BY DEF _path_matches, Targets, OneTask, Open, Below
<1>6. /\ ~_path_matches(OneTask, Targets.review)
      /\ ~_path_matches(OneTask, Targets.submit)
    BY DEF _path_matches, Targets, OneTask, Open, Below
<1>7. ~_path_matches(OneTask, Targets.homeCount)
    BY DEF _path_matches, Targets, OneTask, Open, Below
<1> QED BY <1>1, <1>3, <1>4, <1>5, <1>6, <1>7, TargetNames

LEMMA OfCompleteTask ==
    TargetsOf[CompleteTask] \subseteq {"task", "tasks"} /\ "task" \in TargetsOf[CompleteTask]
<1>1. TargetsOf[CompleteTask] = {t \in DOMAIN Targets : _path_matches(CompleteTask, Targets[t])}
    BY DEF TargetsOf, Routes
<1>2. Len(CompleteTask) \in 1..3 /\ Len(CompleteTask) \in 2..3 /\ CompleteTask[1] = "tasks"
    BY DEF CompleteTask
<1>3. _path_matches(CompleteTask, Targets.task)
    BY <1>2, MatchesFrom, ShortTargets
<1>4. /\ ~_path_matches(CompleteTask, Targets.instances)
      /\ ~_path_matches(CompleteTask, Targets.instance)
      /\ ~_path_matches(CompleteTask, Targets.models)
      /\ ~_path_matches(CompleteTask, Targets.onboarding)
    BY <1>2, HeadDiffers, ShortTargets
<1>5. /\ ~_path_matches(CompleteTask, Targets.forMe)
      /\ ~_path_matches(CompleteTask, Targets.inbox)
    BY DEF _path_matches, Targets, CompleteTask, Open, Below
<1>6. /\ ~_path_matches(CompleteTask, Targets.review)
      /\ ~_path_matches(CompleteTask, Targets.submit)
    BY DEF _path_matches, Targets, CompleteTask, Open, Below
<1>7. ~_path_matches(CompleteTask, Targets.homeCount)
    BY DEF _path_matches, Targets, CompleteTask, Open, Below
<1> QED BY <1>1, <1>3, <1>4, <1>5, <1>6, <1>7, TargetNames

LEMMA OfSubmitReview ==
    TargetsOf[SubmitReview] \subseteq {"inbox", "review", "submit"}
<1>1. TargetsOf[SubmitReview] = {t \in DOMAIN Targets : _path_matches(SubmitReview, Targets[t])}
    BY DEF TargetsOf, Routes
<1>2. SubmitReview[1] = "m8flow"
    BY DEF SubmitReview
<1>3. /\ ~_path_matches(SubmitReview, Targets.instances)
      /\ ~_path_matches(SubmitReview, Targets.instance)
      /\ ~_path_matches(SubmitReview, Targets.models)
      /\ ~_path_matches(SubmitReview, Targets.task)
      /\ ~_path_matches(SubmitReview, Targets.tasks)
      /\ ~_path_matches(SubmitReview, Targets.onboarding)
    BY <1>2, HeadDiffers, ShortTargets
<1>4. /\ ~_path_matches(SubmitReview, Targets.forMe)
      /\ ~_path_matches(SubmitReview, Targets.homeCount)
    <2>1. PICK h : h = SubSeq(SubmitReview, 1, 2)
        OBVIOUS
    <2>2. h # <<"process-instances", "for-me">> /\ h # <<"m8flow", "home-task-count">>
        <3>1. /\ SubSeq(SubmitReview, 1, 2)[1] = "m8flow"
              /\ SubSeq(SubmitReview, 1, 2)[2] = "task-review-access"
            BY DEF SubmitReview
        <3>2. h[1] = "m8flow" /\ h[2] = "task-review-access"
            BY <2>1, <3>1
        <3>3. /\ <<"process-instances", "for-me">>[1] = "process-instances"
              /\ <<"m8flow", "home-task-count">>[2] = "home-task-count"
            OBVIOUS
        <3>4. "m8flow" # "process-instances" /\ "task-review-access" # "home-task-count"
            OBVIOUS
        <3> QED BY <3>2, <3>3, <3>4, Zenon
    <2>3. /\ Targets.forMe.head = <<"process-instances", "for-me">>
          /\ Targets.homeCount.head = <<"m8flow", "home-task-count">>
        BY DEF Targets, Open
    <2>4. Len(Targets.forMe.head) = 2 /\ Len(Targets.homeCount.head) = 2
        BY <2>3
    <2> QED BY <2>1, <2>2, <2>3, <2>4 DEF _path_matches
<1> QED BY <1>1, <1>3, <1>4, TargetNames

LEMMA OfOnboarding ==
    TargetsOf[Onboarding] = {"onboarding"}
<1>1. TargetsOf[Onboarding] = {t \in DOMAIN Targets : _path_matches(Onboarding, Targets[t])}
    BY DEF TargetsOf, Routes
<1>2. Len(Onboarding) \in 1..3 /\ Len(Onboarding) = 1 /\ Onboarding[1] = "onboarding"
    BY DEF Onboarding
<1>3. _path_matches(Onboarding, Targets.onboarding)
    BY <1>2, MatchesFrom, ShortTargets
<1>4. /\ ~_path_matches(Onboarding, Targets.instances)
      /\ ~_path_matches(Onboarding, Targets.instance)
      /\ ~_path_matches(Onboarding, Targets.models)
      /\ ~_path_matches(Onboarding, Targets.task)
      /\ ~_path_matches(Onboarding, Targets.tasks)
    BY <1>2, HeadDiffers, ShortTargets
<1>5. /\ ~_path_matches(Onboarding, Targets.forMe)
      /\ ~_path_matches(Onboarding, Targets.inbox)
    BY DEF _path_matches, Targets, Onboarding, Open, Below
<1>6. /\ ~_path_matches(Onboarding, Targets.review)
      /\ ~_path_matches(Onboarding, Targets.submit)
    BY DEF _path_matches, Targets, Onboarding, Open, Below
<1>7. ~_path_matches(Onboarding, Targets.homeCount)
    BY DEF _path_matches, Targets, Onboarding, Open, Below
<1> QED BY <1>1, <1>3, <1>4, <1>5, <1>6, <1>7, TargetNames

(***************************************************************************)
(* Who is granted what by any version of the file                          *)
(***************************************************************************)
LEMMA GrantShapes ==
    ASSUME NEW v \in 0..7, NEW g \in Yaml[v]
    PROVE  /\ g = Grant(g.role, g.permission, g.target, g.command)
           /\ g.role \in RoleGroups /\ g.target \in DOMAIN Targets
           /\ g.target = "instances" /\ g.permission \in {"read", "all"} => g.role \in WideReaders(v)
           /\ g.target \in Wide /\ g.permission \in {"read", "all"} => g.role \in WideReaders(v)
           /\ g.target \in Wide /\ g.permission \in {"execute", "all"} => g.role \in Builders
           /\ g.target = "instances" /\ g.permission \in {"create", "all"} => g.role \in Builders \cup {"submitter"}
           /\ g.target = "models" /\ g.permission \in {"start", "all"} => g.role \in Builders \cup {"submitter"}
           /\ g.target \in {"task", "tasks"} /\ g.permission \in {"create", "execute", "all"}
                => g.role \in Workers \cup {"editor"}
           /\ g.target \in {"inbox", "review", "submit"} => g.role \in Workers \cup {"editor"}
           /\ g.permission = "create" /\ g.command = "process.suspend"
                => g.role \in Builders /\ g.target = "instance"
<1> USE TargetNames DEF Plain, WideReaders, OwnReaders, Builders, Workers, RoleGroups, SignedInRoles, Wide
<1>1. CASE g \in Entry(WideReaders(v), {"read"}, "instances", "process_instance.list")
    BY <1>1, OfEntry
<1>2. CASE g \in Entry(WideReaders(v), {"read"}, "instance", "process_instance.read")
    BY <1>2, OfEntry
<1>3. CASE g \in Plain(OwnReaders(v), "read", "forMe")
    BY <1>3, OfEntry
<1>4. CASE g \in Entry(Builders, {IF v = 0 THEN "create" ELSE "execute"}, "instance", "process.suspend")
    BY <1>4, OfEntry
<1>5. CASE g \in Plain(Builders \cup {"submitter"}, "create", "instances")
    BY <1>5, OfEntry
<1>6. CASE g \in Plain(Builders, "all", "models")
    BY <1>6, OfEntry
<1>7. CASE g \in Entry(Builders \cup {"submitter"}, {"start"}, "models", "process.start")
    BY <1>7, OfEntry
<1>8. CASE g \in Entry({"viewer", "reviewer", "submitter"}, {"read"}, "models", "process_model.read")
    BY <1>8, OfEntry
<1>9. CASE g \in Plain(Workers \cup {"editor"}, "all", "task")
    BY <1>9, OfEntry
<1>10. CASE g \in Plain(Workers \cup {"editor"}, "execute", "task")
    BY <1>10, OfEntry
<1>11. CASE g \in Entry(SignedInRoles, {"read"}, "tasks", "task.list")
    BY <1>11, OfEntry
<1>12. CASE g \in Plain(Workers, "read", "inbox")
    BY <1>12, OfEntry
<1>13. CASE g \in Plain(Workers \cup (IF v >= 7 THEN {"editor"} ELSE {}), "read", "review")
    BY <1>13, OfEntry
<1>14. CASE g \in Plain(Workers \cup (IF v >= 7 THEN {"editor"} ELSE {}), "create", "submit")
    BY <1>14, OfEntry
<1>15. CASE g \in Plain(IF v = 0 THEN {"editor"} ELSE IF v = 1 THEN {} ELSE Workers, "read", "homeCount")
    BY <1>15, OfEntry
<1>16. CASE g \in Plain(IF v >= 6 THEN SignedInRoles \cup {"user"} ELSE {"user"}, "read", "onboarding")
    BY <1>16, OfEntry
<1> QED BY <1>1, <1>2, <1>3, <1>4, <1>5, <1>6, <1>7, <1>8, <1>9, <1>10, <1>11, <1>12, <1>13, <1>14,
           <1>15, <1>16, YamlEntries

LEMMA RoutesDiffer ==
    /\ \A path \in {Instances, Suspend, OneModel, OneTask, CompleteTask, OneInstance, Onboarding} :
            path # HomeCount /\ path # SubmitReview
    /\ SubmitReview # HomeCount
    /\ \A path \in {Instances, CompleteTask, SubmitReview, Onboarding} : path # Suspend /\ path # OneModel
    /\ OneInstance # OneModel
    /\ \A path \in {Instances, OneInstance} : path \notin {OneTask, CompleteTask, Onboarding}
    /\ OneInstance # Instances
<1>1. /\ Len(Instances) = 1 /\ Len(OneInstance) = 2 /\ Len(Suspend) = 3 /\ Len(OneModel) = 2
      /\ Len(OneTask) = 2 /\ Len(CompleteTask) = 3 /\ Len(SubmitReview) = 4 /\ Len(HomeCount) = 2
      /\ Len(Onboarding) = 1
    BY DEF Instances, OneInstance, Suspend, OneModel, OneTask, CompleteTask, SubmitReview,
           HomeCount, Onboarding
<1>2. /\ Instances[1] = "process-instances" /\ OneInstance[1] = "process-instances"
      /\ Suspend[1] = "process-instances" /\ OneModel[1] = "process-models"
      /\ OneTask[1] = "tasks" /\ CompleteTask[1] = "tasks" /\ SubmitReview[1] = "m8flow"
      /\ HomeCount[1] = "m8flow" /\ Onboarding[1] = "onboarding"
    BY DEF Instances, OneInstance, Suspend, OneModel, OneTask, CompleteTask, SubmitReview,
           HomeCount, Onboarding
<1> QED BY <1>1, <1>2

(***************************************************************************)
(* A member with a role in the tenant of the request alone, and rows that  *)
(* all permit                                                              *)
(***************************************************************************)
HeldOnly(t, role) == [u \in RightsTenants |-> IF u = t THEN role ELSE "none"]
Applies(row, role, permission, path, commands) ==
    /\ row.grant.role = role /\ row.grant.permission \in {permission, "all"}
    /\ row.grant.target \in TargetsOf[path]
    /\ commands = {} \/ row.grant.command \in commands

LEMMA GroupsOfOne ==
    ASSUME NEW t \in RightsTenants, NEW role \in SignedInRoles
    PROVE  _active_tenant_groups(HeldOnly(t, role), t) = {t} /\ HeldOnly(t, role)[t] = role
<1>1. role # "none" /\ t # NoRights
    BY RightsAssumption DEF SignedInRoles, RoleGroups
<1> QED BY <1>1 DEF _active_tenant_groups, HeldOnly

LEMMA PermittedAs ==
    ASSUME NEW rows, NEW t \in RightsTenants, NEW role \in SignedInRoles,
           \A row \in rows[t] : row.permit,
           NEW permission, NEW path, NEW commands
    PROVE  _resource_permitted(rows, HeldOnly(t, role), t, permission, path, commands)
           <=> \E row \in rows[t] : Applies(row, role, permission, path, commands)
<1> DEFINE as == HeldOnly(t, role)
           applying == {row \in UNION {{r \in rows[u] : r.grant.role = as[u]} :
                                    u \in _active_tenant_groups(as, t)} :
            /\ row.grant.permission \in {permission, "all"}
            /\ row.grant.target \in TargetsOf[path]
            /\ commands = {} \/ row.grant.command \in commands}
<1>1. _active_tenant_groups(as, t) = {t} /\ as[t] = role
    BY GroupsOfOne
<1>2. \A row : row \in applying <=> row \in rows[t] /\ Applies(row, role, permission, path, commands)
    BY <1>1 DEF Applies
<1>3. _resource_permitted(rows, as, t, permission, path, commands)
      <=> applying # {} /\ \A row \in applying : row.permit
    BY DEF _resource_permitted
<1> HIDE DEF applying, as
<1> QED BY <1>2, <1>3 DEF as

LEMMA FallbackAs ==
    ASSUME NEW t \in RightsTenants, NEW role \in SignedInRoles, NEW permission, NEW path
    PROVE  _group_identifier_fallback(HeldOnly(t, role), t, permission, path)
           <=> \/ role = "tenant-admin"
               \/ role = "editor" /\ ~(permission = "read" /\ path = Instances)
               \/ role \in {"reviewer", "editor", "user"} /\ path \in {OneTask, CompleteTask, Onboarding}
BY GroupsOfOne DEF _group_identifier_fallback

LEMMA SeedDecides ==
    ASSUME NEW rows, NEW t \in RightsTenants, NEW role \in SignedInRoles,
           \A row \in rows[t] : row.permit /\ row.grant \in AllGrants,
           Permits(Yaml[7]) \subseteq rows[t]
    PROVE  LET as == HeldOnly(t, role)
               routed(permission, route) == allow_uri(rows, as, FALSE, t, permission, route)
               runs(command) == authorize(rows, as, FALSE, t, command)
           IN  /\ routed("create", Suspend) = runs("process.suspend")
               /\ routed("create", Instances) = runs("process.start")
               /\ routed("create", CompleteTask) = runs("task.complete")
               /\ routed("create", SubmitReview) => runs("task.complete")
               /\ routed("read", Onboarding)
<1> DEFINE as == HeldOnly(t, role)
           Can(permission, path, commands) ==
                _resource_permitted(rows, as, t, permission, path, commands)
           Falls(permission, path) == _group_identifier_fallback(as, t, permission, path)
<1> USE RoutesDiffer DEF Builders, Workers, SignedInRoles, RoleGroups
<1>1. ASSUME NEW permission, NEW path, NEW commands
      PROVE  Can(permission, path, commands)
             <=> \E row \in rows[t] : Applies(row, role, permission, path, commands)
    BY PermittedAs
<1>2. ASSUME NEW row \in rows[t]
      PROVE  \E v \in 0..7 : row.grant \in Yaml[v]
    BY DEF AllGrants
<1>3. ASSUME NEW g \in Yaml[7] PROVE Row(g, TRUE) \in rows[t] /\ Row(g, TRUE).grant = g
    BY DEF Permits, Row
<1> HIDE DEF Can, Falls
\* What each of the look-ups finds
<1>4. /\ Can("execute", OneInstance, {}) => role \in Builders
      /\ Can("execute", OneInstance, {"process.suspend"}) => role \in Builders
    BY <1>1, <1>2, GrantShapes, OfOneInstance DEF Applies, Wide
<1>5. ASSUME role \in Builders PROVE Can("execute", OneInstance, {"process.suspend"})
    <2> DEFINE g == Grant(role, "execute", "instance", "process.suspend")
    <2>1. g \in Yaml[7] /\ g.role = role /\ g.permission = "execute"
          /\ g.target = "instance" /\ g.command = "process.suspend"
        <3>1. g \in Entry(Builders, {"execute"}, "instance", "process.suspend")
            BY <1>5, InEntry
        <3> QED BY <3>1, YamlHas, GrantFields
    <2> HIDE DEF g
    <2>2. Applies(Row(g, TRUE), role, "execute", OneInstance, {"process.suspend"})
        BY <1>3, <2>1, OfOneInstance DEF Applies
    <2> QED BY <1>1, <1>3, <2>1, <2>2
<1>6. /\ Can("create", Instances, {}) => role \in Builders \cup {"submitter"}
      /\ Can("start", OneModel, {}) => role \in Builders \cup {"submitter"}
    BY <1>1, <1>2, GrantShapes, OfInstances, OfOneModel DEF Applies
<1>7. ASSUME role \in Builders \cup {"submitter"} PROVE Can("create", Instances, {})
    <2> DEFINE g == Grant(role, "create", "instances", "create")
    <2>1. g \in Yaml[7] /\ g.role = role /\ g.permission = "create"
          /\ g.target = "instances" /\ g.command = "create"
        <3>1. g \in Plain(Builders \cup {"submitter"}, "create", "instances")
            BY <1>7, InEntry DEF Plain
        <3> QED BY <3>1, YamlHas, GrantFields
    <2> HIDE DEF g
    <2>2. Applies(Row(g, TRUE), role, "create", Instances, {})
        BY <1>3, <2>1, OfInstances DEF Applies
    <2> QED BY <1>1, <1>3, <2>1, <2>2
<1>8. ASSUME role \in Builders \cup {"submitter"} PROVE Can("start", OneModel, {})
    <2> DEFINE g == Grant(role, "start", "models", "process.start")
    <2>1. g \in Yaml[7] /\ g.role = role /\ g.permission = "start"
          /\ g.target = "models" /\ g.command = "process.start"
        <3>1. g \in Entry(Builders \cup {"submitter"}, {"start"}, "models", "process.start")
            BY <1>8, InEntry
        <3> QED BY <3>1, YamlHas, GrantFields
    <2> HIDE DEF g
    <2>2. Applies(Row(g, TRUE), role, "start", OneModel, {})
        BY <1>3, <2>1, OfOneModel DEF Applies
    <2> QED BY <1>1, <1>3, <2>1, <2>2
<1>9. /\ Can("create", CompleteTask, {}) => role \in Workers \cup {"editor"}
      /\ Can("execute", OneTask, {}) => role \in Workers \cup {"editor"}
    BY <1>1, <1>2, GrantShapes, OfCompleteTask, OfOneTask DEF Applies
<1>10. ASSUME role \in Workers \cup {"editor"} PROVE Can("create", CompleteTask, {})
    <2> DEFINE g == Grant(role, "all", "task", "all")
    <2>1. g \in Yaml[7] /\ g.role = role /\ g.permission = "all"
          /\ g.target = "task" /\ g.command = "all"
        <3>1. g \in Plain(Workers \cup {"editor"}, "all", "task")
            BY <1>10, InEntry DEF Plain
        <3> QED BY <3>1, YamlHas, GrantFields
    <2> HIDE DEF g
    <2>2. Applies(Row(g, TRUE), role, "create", CompleteTask, {})
        BY <1>3, <2>1, OfCompleteTask DEF Applies
    <2> QED BY <1>1, <1>3, <2>1, <2>2
<1>11. ASSUME role \in Workers \cup {"editor"} PROVE Can("execute", OneTask, {})
    <2> DEFINE g == Grant(role, "execute", "task", "execute")
    <2>1. g \in Yaml[7] /\ g.role = role /\ g.permission = "execute"
          /\ g.target = "task" /\ g.command = "execute"
        <3>1. g \in Plain(Workers \cup {"editor"}, "execute", "task")
            BY <1>11, InEntry DEF Plain
        <3> QED BY <3>1, YamlHas, GrantFields
    <2> HIDE DEF g
    <2>2. Applies(Row(g, TRUE), role, "execute", OneTask, {})
        BY <1>3, <2>1, OfOneTask DEF Applies
    <2> QED BY <1>1, <1>3, <2>1, <2>2
<1>12. Can("create", SubmitReview, {}) => role \in Workers \cup {"editor"}
    BY <1>1, <1>2, GrantShapes, OfSubmitReview DEF Applies
<1>13. Can("read", Onboarding, {})
    <2> DEFINE g == Grant(role, "read", "onboarding", "read")
    <2>1. g \in Yaml[7] /\ g.role = role /\ g.permission = "read"
          /\ g.target = "onboarding" /\ g.command = "read"
        <3>1. g \in Plain(SignedInRoles \cup {"user"}, "read", "onboarding")
            BY InEntry DEF Plain
        <3> QED BY <3>1, YamlHas, GrantFields
    <2> HIDE DEF g
    <2>2. Applies(Row(g, TRUE), role, "read", Onboarding, {})
        BY <1>3, <2>1, OfOnboarding DEF Applies
    <2> QED BY <1>1, <1>3, <2>1, <2>2
\* What the routes and the engine make of them
<1>14. ASSUME NEW method, NEW route, route # HomeCount, NEW permission, NEW path,
              LifecycleAction(method, route) = [permission |-> permission, path |-> path]
       PROVE  allow_uri(rows, as, FALSE, t, method, route)
                  <=> /\ ~ReaderWrites(as, t, permission, path)
                      /\ \/ Can(permission, path, {})
                         \/ path # SubmitReview /\ Falls(permission, path)
    BY <1>14 DEF allow_uri, _NO_GROUP_FALLBACK, Can, Falls
<1>15. /\ authorize(rows, as, FALSE, t, "process.start") <=> Can("start", OneModel, {})
       /\ authorize(rows, as, FALSE, t, "task.complete") <=> Can("execute", OneTask, {})
       /\ authorize(rows, as, FALSE, t, "process.suspend")
            <=> Can("execute", OneInstance, {"process.suspend"})
    BY DEF authorize, Can
<1> DEFINE Routed(permission, route) == allow_uri(rows, as, FALSE, t, permission, route)
           Run(command) == authorize(rows, as, FALSE, t, command)
<1>16. allow_uri(rows, as, FALSE, t, "create", Suspend) <=> role \in Builders
    <2>1. LifecycleAction("create", Suspend) = [permission |-> "execute", path |-> OneInstance]
        BY DEF LifecycleAction
    <2>2. Falls("execute", OneInstance) <=> role \in Builders
        BY FallbackAs DEF Falls
    <2>3. ~ReaderWrites(as, t, "execute", OneInstance)
        BY DEF ReaderWrites
    <2> QED BY <1>4, <1>14, <2>1, <2>2, <2>3
<1>17. allow_uri(rows, as, FALSE, t, "create", Instances) <=> role \in Builders \cup {"submitter"}
    <2>1. LifecycleAction("create", Instances) = [permission |-> "create", path |-> Instances]
        BY DEF LifecycleAction, AsPosted
    <2>2. Falls("create", Instances) <=> role \in Builders
        BY FallbackAs DEF Falls
    <2>3. ~ReaderWrites(as, t, "create", Instances)
        BY DEF ReaderWrites
    <2> QED BY <1>6, <1>7, <1>14, <2>1, <2>2, <2>3
<1>18. allow_uri(rows, as, FALSE, t, "create", CompleteTask) <=> role \in Workers \cup {"editor"}
    <2>1. LifecycleAction("create", CompleteTask) = [permission |-> "create", path |-> CompleteTask]
        BY DEF LifecycleAction, AsPosted
    <2>2. Falls("create", CompleteTask) => role \in Workers \cup {"editor"}
        BY FallbackAs DEF Falls
    <2>3. ~ReaderWrites(as, t, "create", CompleteTask)
        BY DEF ReaderWrites
    <2> QED BY <1>9, <1>10, <1>14, <2>1, <2>2, <2>3
<1>19. allow_uri(rows, as, FALSE, t, "create", SubmitReview) => role \in Workers \cup {"editor"}
    <2>1. LifecycleAction("create", SubmitReview) = [permission |-> "create", path |-> SubmitReview]
        BY DEF LifecycleAction, AsPosted
    <2> QED BY <1>12, <1>14, <2>1
<1>20. allow_uri(rows, as, FALSE, t, "read", Onboarding)
    <2>1. LifecycleAction("read", Onboarding) = [permission |-> "read", path |-> Onboarding]
        BY DEF LifecycleAction, AsPosted
    <2>2. ~ReaderWrites(as, t, "read", Onboarding)
        BY DEF ReaderWrites
    <2> QED BY <1>13, <1>14, <2>1, <2>2
<1>21. authorize(rows, as, FALSE, t, "process.suspend") <=> role \in Builders
    BY <1>4, <1>5, <1>15
<1>22. authorize(rows, as, FALSE, t, "process.start") <=> role \in Builders \cup {"submitter"}
    BY <1>6, <1>8, <1>15
<1>23. authorize(rows, as, FALSE, t, "task.complete") <=> role \in Workers \cup {"editor"}
    BY <1>9, <1>11, <1>15
<1>24. /\ \A permission, route : Routed(permission, route) \in BOOLEAN
       /\ \A command : Run(command) \in BOOLEAN
    <2>1. ASSUME NEW permission, NEW route PROVE Routed(permission, route) \in BOOLEAN
        <3>1. CASE route = HomeCount
            BY <3>1 DEF allow_uri, _resource_permitted
        <3>2. CASE route # HomeCount
            BY <3>2 DEF allow_uri
        <3> QED BY <3>1, <3>2
    <2>2. ASSUME NEW command PROVE Run(command) \in BOOLEAN
        BY DEF authorize
    <2> QED BY <2>1, <2>2
<1> HIDE DEF Routed, Run
<1>25. /\ Routed("create", Suspend) = Run("process.suspend")
       /\ Routed("create", Instances) = Run("process.start")
       /\ Routed("create", CompleteTask) = Run("task.complete")
       /\ Routed("create", SubmitReview) => Run("task.complete")
       /\ Routed("read", Onboarding)
    BY <1>16, <1>17, <1>18, <1>19, <1>20, <1>21, <1>22, <1>23, <1>24 DEF Routed, Run
<1> QED BY <1>25 DEF Routed, Run

LEMMA SeedIsReady ==
    ASSUME NEW rows, Permits(Yaml[7]) \subseteq rows PROVE MissingLifecycle(rows) = {}
<1>1. ASSUME NEW r \in Builders
      PROVE  Row(Grant(r, "execute", "instance", "process.suspend"), TRUE) \in rows
    <2>1. PICK g : g = Grant(r, "execute", "instance", "process.suspend")
        OBVIOUS
    <2>2. g \in Yaml[7]
        BY <2>1, YamlHas, InEntry
    <2>3. Row(g, TRUE) \in Permits(Yaml[7])
        BY <2>2 DEF Permits
    <2> QED BY <2>1, <2>3
<1> QED BY <1>1 DEF MissingLifecycle

(***************************************************************************)
(* A request of a user who is no super-admin is bound to a tenant, and it  *)
(* reads the instances of everybody by a row that permits it to the role   *)
(* held there, or as tenant-admin.                                         *)
(***************************************************************************)
LEMMA ReadsByRow ==
    ASSUME ~super, NEW t \in BoundTenants,
           ReadsEverybody(assignments, held, super, t), held[t] # "tenant-admin"
    PROVE  /\ t \in RightsTenants
           /\ \E row \in assignments[t] :
                /\ row.permit /\ row.grant.role = held[t]
                /\ row.grant.permission \in {"read", "all"} /\ row.grant.target = "instances"
<1>1. t # NoRights
    BY DEF BoundTenants
<1>2. /\ LifecycleAction("read", Instances) = [permission |-> "read", path |-> Instances]
      /\ Instances # HomeCount /\ Instances \notin {OneTask, CompleteTask, Onboarding}
    BY RoutesDiffer DEF LifecycleAction, AsPosted
<1>3. \A u \in _active_tenant_groups(held, t) : u = t /\ u \in RightsTenants
    BY <1>1 DEF _active_tenant_groups
<1>4. ~_group_identifier_fallback(held, t, "read", Instances)
    BY <1>2, <1>3 DEF _group_identifier_fallback
<1>5. _resource_permitted(assignments, held, t, "read", Instances, {})
    BY <1>2, <1>4 DEF ReadsEverybody, allow_uri
<1>6. PICK u \in _active_tenant_groups(held, t) : \E row \in assignments[u] :
            /\ row.grant.role = held[u] /\ row.grant.permission \in {"read", "all"}
            /\ row.grant.target \in TargetsOf[Instances] /\ row.permit
    BY <1>5 DEF _resource_permitted
<1> QED BY <1>3, <1>6, OfInstances

(***************************************************************************)
(* The invariant                                                           *)
(***************************************************************************)
SeedRows == [grant : AllGrants, permit : BOOLEAN]
SeedFrames == [pc : {"idle", "importing"}, release : Releases \cup {0},
               tenant : SeededTenants \cup {NoRights}, seen : SUBSET SeedRows]
Importing(c, t) == RightsAt(c, "importing") /\ rightsCall[c].tenant = t

SeedTyped ==
    /\ assignments \in [RightsTenants -> SUBSET SeedRows]
    /\ marker \in [RightsTenants -> 0..7] /\ schema \in 0..6 /\ serving \subseteq Releases
    /\ rightsCall \in [RightsCalls -> SeedFrames]
    /\ edit = [tenant |-> edit.tenant, grant |-> edit.grant, at |-> edit.at,
                excused |-> edit.excused]
    /\ edit.excused \in BOOLEAN

\* Releases serve, import and leave their marker only with the migrations they need.
SeedOrdered ==
    /\ \A v \in serving : schema >= Needs(v)
    /\ \A c \in RightsCalls : RightsAt(c, "importing") =>
            rightsCall[c].release \in serving /\ rightsCall[c].tenant \in SeededTenants
    /\ \A t \in RightsTenants : marker[t] > 0 => schema >= 3

\* Roles that lost the instances of everybody, by the migrations that are applied
Narrowed == (IF schema >= 5 THEN {"submitter"} ELSE {})
            \cup (IF schema = 6 THEN {"editor", "viewer"} ELSE {})
SeedIsNarrow ==
    \A t \in RightsTenants \ overSeeded : \A row \in assignments[t] :
        /\ row.permit /\ row.grant.target = "instances" /\ row.grant.permission \in {"read", "all"}
        => row.grant.role \notin Narrowed

\* The marker stays at or above that of the operator's change, and only a request that
\* arrived since then, with a newer file, is importing.
EditStands ==
    ~edit.excused =>
        /\ edit.tenant \in RightsTenants /\ edit.at \in 1..7
        /\ marker[edit.tenant] >= edit.at
        /\ \A c \in RightsCalls : Importing(c, edit.tenant) => rightsCall[c].release > edit.at
        /\ marker[edit.tenant] = edit.at => Row(edit.grant, TRUE) \notin assignments[edit.tenant]

\* In a tenant that the operator left alone nothing is denied, what the current file grants
\* stays once it is there, and so what an importing request saw of it is there still.
SeedStays ==
    \A t \in RightsTenants \ {edit.tenant} :
        /\ \A row \in assignments[t] : row.permit
        /\ marker[t] = 7 => Permits(Yaml[7]) \subseteq assignments[t]
        /\ \A c \in RightsCalls : Importing(c, t) =>
                \A row \in rightsCall[c].seen :
                    row.permit /\ row.grant \in Yaml[7] => row \in assignments[t]

RightsIInv == SeedTyped /\ SeedOrdered /\ SeedIsNarrow /\ EditStands /\ SeedStays

(***************************************************************************)
(* What the migrations make of rows                                        *)
(***************************************************************************)
LEMMA RowFields ==
    ASSUME NEW g \in AllGrants, NEW p \in BOOLEAN
    PROVE  Row(g, p) \in SeedRows /\ Row(g, p).grant = g /\ Row(g, p).permit = p
BY DEF Row, SeedRows

LEMMA YamlIsGranted == ASSUME NEW v \in 0..7, NEW g \in Yaml[v] PROVE g \in AllGrants
BY DEF AllGrants

LEMMA ExecutesIsGranted ==
    ASSUME NEW g \in AllGrants, g.permission = "create", g.command = "process.suspend"
    PROVE  [g EXCEPT !.permission = "execute"] \in AllGrants
<1>1. PICK v \in 0..7 : g \in Yaml[v]
    BY DEF AllGrants
<1>2. /\ g = Grant(g.role, g.permission, g.target, g.command)
      /\ g.role \in Builders /\ g.target = "instance"
    BY <1>1, GrantShapes
<1>3. [g EXCEPT !.permission = "execute"] = Grant(g.role, "execute", "instance", "process.suspend")
    BY <1>2 DEF Grant
<1>4. PICK e : e = Grant(g.role, "execute", "instance", "process.suspend")
    OBVIOUS
<1>5. e \in Yaml[1]
    BY <1>2, <1>4, InEntry, YamlHas
<1> QED BY <1>3, <1>4, <1>5, YamlIsGranted

LEMMA ReadersOfNow ==
    ASSUME NEW g \in Yaml[7], g.target \in Wide, g.permission \in {"read", "all"}
    PROVE  g.role = "tenant-admin"
BY GrantShapes DEF WideReaders

LEMMA RevokedLeaves ==
    ASSUME NEW rows, NEW roles, NEW targets, NEW permissions
    PROVE  /\ Revoked(rows, roles, targets, permissions) \subseteq rows
           /\ \A row \in rows : \/ row.grant.role \notin roles \/ row.grant.target \notin targets
                               \/ row.grant.permission \notin permissions
                => row \in Revoked(rows, roles, targets, permissions)
           /\ \A row \in Revoked(rows, roles, targets, permissions) :
                ~(row.permit /\ row.grant.role \in roles /\ row.grant.target \in targets
                  /\ row.grant.permission \in permissions)
BY DEF Revoked

LEMMA PermitsAreRows ==
    ASSUME NEW grants \in SUBSET AllGrants
    PROVE  /\ Permits(grants) \subseteq SeedRows
           /\ \A row \in Permits(grants) : row.permit /\ row.grant \in grants
           /\ \A row \in SeedRows : row.permit /\ row.grant \in grants => row \in Permits(grants)
<1>1. ASSUME NEW row \in Permits(grants)
      PROVE  row \in SeedRows /\ row.permit /\ row.grant \in grants
    BY RowFields DEF Permits
<1>2. ASSUME NEW row \in SeedRows, row.permit, row.grant \in grants
      PROVE  row \in Permits(grants)
    <2>1. row = Row(row.grant, TRUE)
        BY <1>2 DEF Row, SeedRows
    <2> QED BY <1>2, <2>1 DEF Permits
<1> QED BY <1>1, <1>2

LEMMA MigratedRows ==
    ASSUME NEW n \in 1..6, NEW rows \in SUBSET SeedRows, NEW version \in 0..7
    PROVE  /\ Migrated(n, rows, version) \subseteq SeedRows
           /\ (\A row \in rows : row.permit) => \A row \in Migrated(n, rows, version) : row.permit
<1>1. CASE n = 1
    <2>1. ASSUME NEW row \in rows, row.grant.permission = "create", row.grant.command = "process.suspend"
          PROVE  /\ Row([row.grant EXCEPT !.permission = "execute"], row.permit) \in SeedRows
                 /\ Row([row.grant EXCEPT !.permission = "execute"], row.permit).permit = row.permit
        BY <2>1, ExecutesIsGranted, RowFields DEF SeedRows
    <2>2. Migrated(n, rows, version) = BackfillLifecycle(rows)
        BY <1>1 DEF Migrated
    <2>3. ASSUME NEW row \in BackfillLifecycle(rows), row \notin rows
          PROVE  \E r \in rows : /\ r.grant.permission = "create" /\ r.grant.command = "process.suspend"
                                 /\ row = Row([r.grant EXCEPT !.permission = "execute"], r.permit)
        BY <2>3 DEF BackfillLifecycle
    <2>4. ASSUME NEW row \in BackfillLifecycle(rows)
          PROVE  row \in SeedRows /\ ((\A r \in rows : r.permit) => row.permit)
        BY <2>1, <2>3
    <2> QED BY <2>2, <2>4
<1>2. CASE n = 2
    BY <1>2, RevokedLeaves DEF Migrated, RevokeHomeCount
<1>3. CASE n = 3
    BY <1>3 DEF Migrated
<1>4. CASE n = 4
    <2>1. \A grants \in SUBSET Yaml[3] : grants \in SUBSET AllGrants
        BY YamlIsGranted
    <2>2. PICK grants \in SUBSET Yaml[3] :
                Migrated(n, rows, version) \in {rows, rows \cup Permits(grants)}
        <3> DEFINE added == {g \in Yaml[3] : /\ g.role \in Workers
                                             /\ g.target \in {"inbox", "review", "submit", "homeCount"}}
        <3>1. added \ GrantsOf(rows) \in SUBSET Yaml[3]
            OBVIOUS
        <3>2. Migrated(n, rows, version) \in {rows, rows \cup Permits(added \ GrantsOf(rows))}
            BY <1>4 DEF Migrated, BackfillReview
        <3> QED BY <3>1, <3>2
    <2> QED BY <2>1, <2>2, PermitsAreRows
<1>5. CASE n = 5
    BY <1>5, RevokedLeaves DEF Migrated, RevokeSubmitterReads
<1>6. CASE n = 6
    BY <1>6, RevokedLeaves DEF Migrated, RevokeEditorViewerReads
<1> QED BY <1>1, <1>2, <1>3, <1>4, <1>5, <1>6

\* Of the migrations that come with markers
LEMMA MigratedLater ==
    ASSUME NEW n \in 4..6, NEW rows \in SUBSET SeedRows, NEW version \in 0..7
    PROVE  /\ (n = 4 /\ version < 3) \/ Migrated(n, rows, version) \subseteq rows
           /\ \A row \in rows : row.grant \in Yaml[7] => row \in Migrated(n, rows, version)
           /\ \A row \in Migrated(n, rows, version) :
                row.permit /\ row.grant.target = "instances" /\ row.grant.permission \in {"read", "all"}
                => /\ n = 5 => row.grant.role # "submitter"
                   /\ n = 6 => row.grant.role \notin {"editor", "viewer"}
<1>1. ASSUME NEW row \in rows, row.grant \in Yaml[7]
      PROVE  \/ row.grant.target \notin Wide \/ row.grant.permission \notin {"read", "all"}
             \/ row.grant.role \notin {"submitter", "editor", "viewer"}
    BY <1>1, ReadersOfNow
<1>2. CASE n = 4
    BY <1>2 DEF Migrated, BackfillReview
<1>3. CASE n = 5
    <2>1. Migrated(n, rows, version) = Revoked(rows, {"submitter"}, Wide, {"read", "all"})
        BY <1>3 DEF Migrated, RevokeSubmitterReads
    <2> QED BY <1>1, <1>3, <2>1, RevokedLeaves DEF Wide
<1>4. CASE n = 6
    <2>1. Migrated(n, rows, version) = Revoked(rows, {"editor", "viewer"}, Wide, {"read", "all"})
        BY <1>4 DEF Migrated, RevokeEditorViewerReads
    <2> QED BY <1>1, <1>4, <2>1, RevokedLeaves DEF Wide
<1> QED BY <1>2, <1>3, <1>4

LEMMA RestoredRows ==
    ASSUME NEW rows \in SUBSET SeedRows, NEW roles
    PROVE  /\ Restored(rows, roles) \subseteq SeedRows /\ rows \subseteq Restored(rows, roles)
           /\ \A row \in Restored(rows, roles) \ rows : row.permit /\ row.grant.role \in roles
<1>1. PICK grants \in SUBSET {g \in Yaml[1] : g.role \in roles} :
            Restored(rows, roles) = rows \cup Permits(grants)
    BY DEF Restored
<1>2. grants \in SUBSET AllGrants
    BY YamlIsGranted
<1> QED BY <1>1, <1>2, PermitsAreRows

(***************************************************************************)
(* The invariant holds at first, and every step keeps it                   *)
(***************************************************************************)
LEMMA RightsStart == RightsInit => RightsIInv
<1> SUFFICES ASSUME RightsInit PROVE RightsIInv
    OBVIOUS
<1>1. /\ assignments \in [RightsTenants -> {{}, Permits(Yaml[0])}]
      /\ marker = [t \in RightsTenants |-> 0] /\ schema = 0 /\ serving = {}
      /\ rightsCall = [c \in RightsCalls |-> NoRightsCall] /\ edit = NoEdit /\ overSeeded = {}
    BY DEF RightsInit
<1>2. Permits(Yaml[0]) \subseteq SeedRows /\ \A row \in Permits(Yaml[0]) : row.permit
    BY YamlIsGranted, PermitsAreRows
<1>3. \A t \in RightsTenants : /\ assignments[t] \in SUBSET SeedRows
                              /\ \A row \in assignments[t] : row.permit
    BY <1>1, <1>2
<1>4. NoRightsCall \in SeedFrames /\ NoRightsCall.pc = "idle"
    BY DEF NoRightsCall, SeedFrames
<1>5. \A c \in RightsCalls : ~RightsAt(c, "importing")
    BY <1>1, <1>4 DEF RightsAt
<1>6. SeedTyped
    <2>1. assignments \in [RightsTenants -> SUBSET SeedRows]
        BY <1>1, <1>3
    <2>2. rightsCall \in [RightsCalls -> SeedFrames]
        BY <1>1, <1>4
    <2>3. marker \in [RightsTenants -> 0..7] /\ schema \in 0..6 /\ serving \subseteq Releases
        BY <1>1
    <2>4. /\ edit = [tenant |-> edit.tenant, grant |-> edit.grant, at |-> edit.at,
                      excused |-> edit.excused]
          /\ edit.excused \in BOOLEAN
        BY <1>1 DEF NoEdit
    <2> QED BY <2>1, <2>2, <2>3, <2>4 DEF SeedTyped
<1>7. SeedOrdered
    BY <1>1, <1>5 DEF SeedOrdered
<1>8. SeedIsNarrow
    BY <1>1 DEF SeedIsNarrow, Narrowed
<1>9. EditStands
    BY <1>1 DEF EditStands, NoEdit
<1>10. SeedStays
    <2>1. \A t \in RightsTenants : marker[t] # 7
        <3>1. ASSUME NEW t \in RightsTenants PROVE marker[t] = 0
            BY <1>1
        <3>2. 0 # 7
            OBVIOUS
        <3> QED BY <3>1, <3>2
    <2>2. \A t \in RightsTenants, c \in RightsCalls : ~Importing(c, t)
        BY <1>5 DEF Importing
    <2> QED BY <1>3, <2>1, <2>2 DEF SeedStays
<1> QED BY <1>6, <1>7, <1>8, <1>9, <1>10 DEF RightsIInv

\* Requests run only where there are markers.
LEMMA ImportingIsLate ==
    ASSUME SeedTyped, SeedOrdered, NEW c \in RightsCalls, RightsAt(c, "importing")
    PROVE  schema >= 3
<1>1. rightsCall[c].release \in serving /\ rightsCall[c].release \in 1..7
    BY SeedAssumption DEF SeedOrdered, SeedTyped
<1>2. schema >= Needs(rightsCall[c].release) /\ schema \in 0..6
    BY <1>1 DEF SeedOrdered, SeedTyped
<1> QED BY <1>1, <1>2 DEF Needs

LEMMA MigrateKeeps == RightsIInv /\ Migrate => RightsIInv'
<1> SUFFICES ASSUME RightsIInv, Migrate PROVE RightsIInv'
    OBVIOUS
<1> USE DEF RightsIInv
<1>1. PICK n \in 1..6 : schema' = n /\ schema = n - 1
    BY DEF Migrate, RightsIInv, SeedTyped
<1>2. /\ assignments' = [t \in RightsTenants |-> Migrated(n, assignments[t], marker[t])]
      /\ marker' = [t \in RightsTenants |-> IF n = 4 /\ marker[t] \in 1..2 THEN 3 ELSE marker[t]]
      /\ serving' = serving /\ rightsCall' = rightsCall /\ edit' = edit /\ overSeeded' = overSeeded
    BY <1>1 DEF Migrate
<1>3. ASSUME NEW t \in RightsTenants
      PROVE  /\ assignments[t] \in SUBSET SeedRows /\ marker[t] \in 0..7
             /\ assignments'[t] = Migrated(n, assignments[t], marker[t])
             /\ marker'[t] = IF n = 4 /\ marker[t] \in 1..2 THEN 3 ELSE marker[t]
             /\ marker[t] > 0 => n >= 4
    BY <1>1, <1>2 DEF SeedTyped, SeedOrdered
<1>4. \A c \in RightsCalls : RightsAt(c, "importing") => n \in 4..6
    BY <1>1, ImportingIsLate
<1>5. SeedTyped'
    <2>1. assignments' \in [RightsTenants -> SUBSET SeedRows]
        BY <1>2, <1>3, MigratedRows
    <2>2. marker' \in [RightsTenants -> 0..7]
        BY <1>2, <1>3
    <2> QED BY <1>1, <1>2, <2>1, <2>2 DEF SeedTyped
<1>6. SeedOrdered'
    <2>1. ASSUME NEW v \in serving' PROVE schema' >= Needs(v)
        <3>1. schema >= Needs(v) /\ Needs(v) \in Nat
            BY <1>2 DEF SeedOrdered, Needs
        <3> QED BY <1>1, <3>1
    <2>2. \A t \in RightsTenants : marker'[t] > 0 => schema' >= 3
        BY <1>1, <1>3
    <2>3. \A c \in RightsCalls : RightsAt(c, "importing")' =>
                (rightsCall[c].release \in serving /\ rightsCall[c].tenant \in SeededTenants)'
        BY <1>2 DEF SeedOrdered, RightsAt
    <2> QED BY <2>1, <2>2, <2>3 DEF SeedOrdered
<1>7. SeedIsNarrow'
    <2> SUFFICES ASSUME NEW t \in RightsTenants \ overSeeded, NEW row \in assignments'[t],
                        row.permit, row.grant.target = "instances", row.grant.permission \in {"read", "all"}
                 PROVE  row.grant.role \notin Narrowed'
        BY <1>2 DEF SeedIsNarrow
    <2>1. CASE n < 5
        BY <1>1, <2>1 DEF Narrowed
    <2>2. CASE n = 5
        BY <1>1, <1>3, <2>2, MigratedLater DEF Narrowed
    <2>3. CASE n = 6
        <3>1. row.grant.role \notin {"editor", "viewer"} /\ row \in assignments[t]
            BY <1>3, <2>3, MigratedLater
        <3>2. row.grant.role # "submitter"
            BY <1>1, <2>3, <3>1 DEF SeedIsNarrow, Narrowed
        <3> QED BY <1>1, <2>3, <3>1, <3>2 DEF Narrowed
    <2> QED BY <2>1, <2>2, <2>3
<1>8. EditStands'
    <2> SUFFICES ASSUME ~edit.excused
                 PROVE  /\ marker'[edit.tenant] >= edit.at
                        /\ marker'[edit.tenant] = edit.at
                             => Row(edit.grant, TRUE) \notin assignments'[edit.tenant]
        BY <1>2 DEF EditStands, Importing, RightsAt
    <2>1. PICK t \in RightsTenants : t = edit.tenant
        BY DEF EditStands
    <2>2. /\ edit.at \in 1..7 /\ marker[t] >= edit.at
          /\ marker[t] = edit.at => Row(edit.grant, TRUE) \notin assignments[t]
        BY <2>1 DEF EditStands
    <2>3. n \in 4..6 /\ marker'[t] >= edit.at
        BY <1>3, <2>2
    <2>4. ASSUME marker'[t] = edit.at PROVE Row(edit.grant, TRUE) \notin assignments'[t]
        <3>1. marker[t] = edit.at /\ ~(n = 4 /\ marker[t] < 3)
            BY <1>3, <2>2, <2>4
        <3>2. assignments'[t] \subseteq assignments[t]
            BY <1>3, <2>3, <3>1, MigratedLater
        <3> QED BY <2>2, <3>1, <3>2
    <2> QED BY <2>1, <2>3, <2>4
<1>9. SeedStays'
    <2> SUFFICES ASSUME NEW t \in RightsTenants, t # edit.tenant
                 PROVE  /\ \A row \in assignments'[t] : row.permit
                        /\ marker'[t] = 7 => Permits(Yaml[7]) \subseteq assignments'[t]
                        /\ \A c \in RightsCalls : Importing(c, t) =>
                                \A row \in rightsCall[c].seen :
                                    row.permit /\ row.grant \in Yaml[7] => row \in assignments'[t]
        BY <1>2 DEF SeedStays, Importing, RightsAt
    <2>1. \A row \in assignments'[t] : row.permit
        BY <1>3, MigratedRows DEF SeedStays
    <2>2. ASSUME marker'[t] = 7 PROVE Permits(Yaml[7]) \subseteq assignments'[t]
        <3>1. marker[t] = 7 /\ n \in 4..6
            BY <1>3, <2>2
        <3>2. Permits(Yaml[7]) \subseteq assignments[t]
            BY <3>1 DEF SeedStays
        <3>3. \A row \in Permits(Yaml[7]) : row.grant \in Yaml[7]
            BY YamlIsGranted, PermitsAreRows
        <3> QED BY <1>3, <3>1, <3>2, <3>3, MigratedLater
    <2>3. ASSUME NEW c \in RightsCalls, Importing(c, t), NEW row \in rightsCall[c].seen,
                 row.permit, row.grant \in Yaml[7]
          PROVE  row \in assignments'[t]
        <3>1. n \in 4..6
            BY <1>4, <2>3 DEF Importing
        <3>2. row \in assignments[t]
            BY <2>3 DEF SeedStays
        <3> QED BY <1>3, <2>3, <3>1, <3>2, MigratedLater
    <2> QED BY <2>1, <2>2, <2>3
<1> QED BY <1>5, <1>6, <1>7, <1>8, <1>9

LEMMA DowngradeKeeps == RightsIInv /\ Downgrade => RightsIInv'
<1> SUFFICES ASSUME RightsIInv, Downgrade PROVE RightsIInv'
    OBVIOUS
<1> USE DEF RightsIInv
<1>1. PICK n \in {5, 6} : schema = n /\ schema' = n - 1 /\ \A v \in serving : v < n - 1
    BY DEF Downgrade
<1>2. PICK roles : /\ roles = IF n = 6 THEN {"editor", "viewer"} ELSE {"submitter"}
                   /\ assignments' = [t \in RightsTenants |-> Restored(assignments[t], roles)]
    BY <1>1 DEF Downgrade
<1>3. /\ marker' = marker /\ serving' = serving /\ rightsCall' = rightsCall
      /\ overSeeded' = overSeeded /\ edit' = [edit EXCEPT !.excused = TRUE]
    BY DEF Downgrade
<1>4. ASSUME NEW t \in RightsTenants
      PROVE  /\ assignments[t] \in SUBSET SeedRows
             /\ assignments'[t] = Restored(assignments[t], roles)
             /\ assignments'[t] \subseteq SeedRows /\ assignments[t] \subseteq assignments'[t]
             /\ \A row \in assignments'[t] \ assignments[t] : row.permit /\ row.grant.role \in roles
    BY <1>2, RestoredRows DEF SeedTyped
<1>5. /\ edit' = [tenant |-> edit.tenant, grant |-> edit.grant, at |-> edit.at, excused |-> TRUE]
      /\ edit'.excused /\ edit'.tenant = edit.tenant
    BY <1>3 DEF SeedTyped
<1>6. SeedTyped'
    <2>1. assignments' \in [RightsTenants -> SUBSET SeedRows]
        BY <1>2, <1>4
    <2>2. schema' \in 0..6
        BY <1>1
    <2>3. edit' = [tenant |-> edit'.tenant, grant |-> edit'.grant, at |-> edit'.at,
                   excused |-> edit'.excused]
        BY <1>5
    <2> QED BY <1>3, <1>5, <2>1, <2>2, <2>3 DEF SeedTyped
<1>7. SeedOrdered'
    <2>1. ASSUME NEW v \in serving PROVE schema' >= Needs(v)
        <3>1. v \in 1..7 /\ v < n - 1 /\ n - 1 \in {4, 5}
            BY <1>1, <2>1, SeedAssumption DEF SeedTyped
        <3> QED BY <1>1, <3>1 DEF Needs
    <2>2. schema' >= 3
        BY <1>1
    <2> QED BY <1>3, <2>1, <2>2 DEF SeedOrdered, RightsAt
<1>8. SeedIsNarrow'
    <2> SUFFICES ASSUME NEW t \in RightsTenants \ overSeeded, NEW row \in assignments'[t],
                        row.permit, row.grant.target = "instances", row.grant.permission \in {"read", "all"}
                 PROVE  row.grant.role \notin Narrowed'
        BY <1>3 DEF SeedIsNarrow
    <2>1. Narrowed' = (IF n = 6 THEN {"submitter"} ELSE {}) /\ Narrowed' \subseteq Narrowed
        BY <1>1 DEF Narrowed
    <2>2. CASE row \in assignments[t]
        BY <2>1, <2>2 DEF SeedIsNarrow
    <2>3. CASE row \notin assignments[t]
        BY <1>2, <1>4, <2>1, <2>3
    <2> QED BY <2>2, <2>3
<1>9. EditStands'
    BY <1>5 DEF EditStands
<1>10. SeedStays'
    <2> SUFFICES ASSUME NEW t \in RightsTenants, t # edit.tenant
                 PROVE  /\ \A row \in assignments'[t] : row.permit
                        /\ marker[t] = 7 => Permits(Yaml[7]) \subseteq assignments'[t]
                        /\ \A c \in RightsCalls : Importing(c, t) =>
                                \A row \in rightsCall[c].seen :
                                    row.permit /\ row.grant \in Yaml[7] => row \in assignments'[t]
        BY <1>3, <1>5 DEF SeedStays, Importing, RightsAt
    <2> QED BY <1>4 DEF SeedStays
<1> QED BY <1>6, <1>7, <1>8, <1>9, <1>10

LEMMA ServingKeeps ==
    RightsIInv /\ (\E v \in Releases : StartsServing(v) \/ StopsServing(v)) => RightsIInv'
<1> SUFFICES ASSUME RightsIInv, NEW v \in Releases, StartsServing(v) \/ StopsServing(v)
             PROVE  RightsIInv'
    OBVIOUS
<1> USE DEF RightsIInv
<1>1. /\ assignments' = assignments /\ marker' = marker /\ schema' = schema
      /\ edit' = edit /\ overSeeded' = overSeeded
    BY DEF StartsServing, StopsServing
<1>2. /\ serving' \subseteq Releases
      /\ \A w \in serving' : schema >= Needs(w)
    BY DEF StartsServing, StopsServing, SeedTyped, SeedOrdered
<1>3. ASSUME NEW c \in RightsCalls
      PROVE  /\ rightsCall'[c] \in SeedFrames
             /\ RightsAt(c, "importing")' => /\ rightsCall'[c] = rightsCall[c] /\ RightsAt(c, "importing")
                                            /\ rightsCall[c].release \in serving'
    <2>1. CASE StartsServing(v)
        BY <2>1 DEF StartsServing, SeedTyped, SeedOrdered, RightsAt
    <2>2. CASE StopsServing(v)
        <3>1. rightsCall'[c] = IF rightsCall[c].release = v THEN NoRightsCall ELSE rightsCall[c]
            BY <2>2 DEF StopsServing
        <3>2. serving' = serving \ {v}
            BY <2>2 DEF StopsServing
        <3> QED BY <3>1, <3>2 DEF NoRightsCall, SeedFrames, RightsAt, SeedTyped, SeedOrdered
    <2> QED BY <2>1, <2>2
<1>4. SeedTyped'
    <2>1. rightsCall' \in [RightsCalls -> SeedFrames]
        <3>1. \E f : rightsCall' = [c \in RightsCalls |-> f[c]]
            <4>1. rightsCall = [c \in RightsCalls |-> rightsCall[c]]
                BY DEF SeedTyped
            <4>2. CASE StartsServing(v)
                BY <4>1, <4>2 DEF StartsServing
            <4>3. CASE StopsServing(v)
                <5>1. PICK f : f = [c \in RightsCalls |-> IF rightsCall[c].release = v THEN NoRightsCall ELSE rightsCall[c]]
                    OBVIOUS
                <5>2. rightsCall' = f
                    BY <4>3, <5>1 DEF StopsServing
                <5>3. f = [c \in RightsCalls |-> f[c]]
                    BY <5>1
                <5> QED BY <5>2, <5>3
            <4> QED BY <4>2, <4>3
        <3> QED BY <1>3, <3>1
    <2> QED BY <1>1, <1>2, <2>1 DEF SeedTyped
<1>5. SeedOrdered'
    BY <1>1, <1>2, <1>3 DEF SeedOrdered
<1>6. SeedIsNarrow'
    BY <1>1 DEF SeedIsNarrow, Narrowed
<1>7. EditStands'
    BY <1>1, <1>3 DEF EditStands, Importing
<1>8. SeedStays'
    BY <1>1, <1>3 DEF SeedStays, Importing
<1> QED BY <1>4, <1>5, <1>6, <1>7, <1>8

LEMMA OperatorKeeps ==
    RightsIInv /\ (\E t \in RightsTenants, g \in EditedGrants : OperatorEdits(t, g)) => RightsIInv'
<1> SUFFICES ASSUME RightsIInv, NEW t \in RightsTenants, NEW g \in EditedGrants, OperatorEdits(t, g)
             PROVE  RightsIInv'
    OBVIOUS
<1> USE DEF RightsIInv
<1>1. /\ edit.tenant = NoRights /\ marker[t] \in 1..7 /\ Row(g, TRUE) \in assignments[t]
      /\ marker' = marker /\ schema' = schema /\ serving' = serving /\ rightsCall' = rightsCall
      /\ overSeeded' = overSeeded
    <2>1. marker[t] \in 0..7 /\ marker[t] > 0
        BY DEF OperatorEdits, SeedTyped
    <2>2. marker[t] \in 1..7
        BY <2>1
    <2> QED BY <2>2 DEF OperatorEdits
<1>2. PICK left \in {{}, {Row(g, FALSE)}} :
        /\ assignments' = [assignments EXCEPT ![t] = (@ \ {Row(g, TRUE)}) \cup left]
        /\ edit' = [tenant |-> t, grant |-> g, at |-> marker[t],
                    excused |-> \E c \in RightsCalls :
                                    RightsAt(c, "importing") /\ rightsCall[c].tenant = t]
    BY DEF OperatorEdits
<1>3. PICK b \in BOOLEAN : /\ b <=> \E c \in RightsCalls : Importing(c, t)
                           /\ edit' = [tenant |-> t, grant |-> g, at |-> marker[t], excused |-> b]
    BY <1>2 DEF Importing
<1>4. /\ Row(g, TRUE).permit = TRUE /\ Row(g, FALSE).permit = FALSE /\ Row(g, TRUE).grant = g
      /\ Row(g, TRUE) \in SeedRows
    BY <1>1 DEF Row, SeedTyped
<1>5. Row(g, FALSE) \in SeedRows
    BY <1>4 DEF Row, SeedRows
<1>6. /\ assignments'[t] = (assignments[t] \ {Row(g, TRUE)}) \cup left
      /\ \A u \in RightsTenants \ {t} : assignments'[u] = assignments[u]
    BY <1>2 DEF SeedTyped
<1>7. \A u \in RightsTenants : \A row \in assignments'[u] : row.permit => row \in assignments[u]
    BY <1>4, <1>6
<1>8. SeedTyped'
    <2>1. assignments' \in [RightsTenants -> SUBSET SeedRows]
        <3>1. (assignments[t] \ {Row(g, TRUE)}) \cup left \in SUBSET SeedRows
            BY <1>5 DEF SeedTyped
        <3> QED BY <1>2, <3>1 DEF SeedTyped
    <2>2. /\ edit' = [tenant |-> edit'.tenant, grant |-> edit'.grant, at |-> edit'.at,
                      excused |-> edit'.excused]
          /\ edit'.excused \in BOOLEAN
        BY <1>3
    <2> QED BY <1>1, <2>1, <2>2 DEF SeedTyped
<1>9. SeedOrdered'
    BY <1>1 DEF SeedOrdered, RightsAt
<1>10. SeedIsNarrow'
    BY <1>1, <1>7 DEF SeedIsNarrow, Narrowed
<1>11. EditStands'
    <2>1. /\ edit'.tenant = t /\ edit'.grant = g /\ edit'.at = marker[t] /\ edit'.excused = b
        BY <1>3
    <2>2. Row(g, TRUE) \notin assignments'[t]
        BY <1>4, <1>6
    <2>3. \A c \in RightsCalls : Importing(c, t)' <=> Importing(c, t)
        BY <1>1 DEF Importing, RightsAt
    <2>4. ASSUME ~b, NEW c \in RightsCalls PROVE ~Importing(c, edit.tenant)'
        BY <1>3, <2>1, <2>3, <2>4 DEF Importing
    <2>5. marker'[t] >= marker[t]
        BY <1>1
    <2> QED BY <1>1, <2>1, <2>2, <2>4, <2>5 DEF EditStands
<1>12. SeedStays'
    <2>1. edit'.tenant = t
        BY <1>3
    <2> SUFFICES ASSUME NEW u \in RightsTenants, u # t
                 PROVE  /\ \A row \in assignments'[u] : row.permit
                        /\ marker[u] = 7 => Permits(Yaml[7]) \subseteq assignments'[u]
                        /\ \A c \in RightsCalls : Importing(c, u) =>
                                \A row \in rightsCall[c].seen :
                                    row.permit /\ row.grant \in Yaml[7] => row \in assignments'[u]
        BY <1>1, <2>1 DEF SeedStays, Importing, RightsAt
    <2>2. assignments'[u] = assignments[u] /\ u # edit.tenant
        BY <1>1, <1>6, RightsAssumption
    <2> QED BY <2>2 DEF SeedStays
<1> QED BY <1>8, <1>9, <1>10, <1>11, <1>12

LEMMA ArriveKeeps ==
    RightsIInv /\ (\E c \in RightsCalls, v \in Releases, t \in SeededTenants : Arrive(c, v, t))
    => RightsIInv'
<1> SUFFICES ASSUME RightsIInv, NEW c \in RightsCalls, NEW v \in Releases, NEW t \in SeededTenants,
                    Arrive(c, v, t)
             PROVE  RightsIInv'
    OBVIOUS
<1> USE DEF RightsIInv
<1>1. /\ v \in serving /\ ~(marker[t] >= v) /\ v \in 1..7 /\ t \in RightsTenants
      /\ assignments' = assignments /\ marker' = marker /\ schema' = schema /\ serving' = serving
      /\ edit' = edit /\ overSeeded' = overSeeded
    BY SeedAssumption DEF Arrive, tenant_permission_seed_current
<1>2. PICK f : /\ f = [pc |-> "importing", release |-> v, tenant |-> t, seen |-> assignments[t]]
               /\ rightsCall' = [rightsCall EXCEPT ![c] = f]
    BY DEF Arrive, RightsGoes
<1>3. f \in SeedFrames /\ f.release = v /\ f.tenant = t /\ f.seen = assignments[t]
    BY <1>1, <1>2 DEF SeedFrames, SeedTyped
<1>4. rightsCall'[c] = f /\ \A d \in RightsCalls \ {c} : rightsCall'[d] = rightsCall[d]
    BY <1>2 DEF SeedTyped
<1>5. SeedTyped'
    BY <1>1, <1>2, <1>3 DEF SeedTyped
<1>6. SeedOrdered'
    BY <1>1, <1>3, <1>4 DEF SeedOrdered, RightsAt
<1>7. SeedIsNarrow'
    BY <1>1 DEF SeedIsNarrow, Narrowed
<1>8. EditStands'
    <2> SUFFICES ASSUME ~edit.excused, NEW d \in RightsCalls, Importing(d, edit.tenant)'
                 PROVE  rightsCall'[d].release > edit.at
        BY <1>1 DEF EditStands
    <2>1. CASE d = c
        <3>1. t = edit.tenant
            BY <1>1, <1>3, <1>4, <2>1 DEF Importing
        <3>2. marker[t] >= edit.at /\ edit.at \in 1..7 /\ marker[t] \in 0..7
            BY <1>1, <3>1 DEF EditStands, SeedTyped
        <3> QED BY <1>1, <1>3, <1>4, <2>1, <3>2
    <2>2. CASE d # c
        BY <1>1, <1>4, <2>2 DEF EditStands, Importing, RightsAt
    <2> QED BY <2>1, <2>2
<1>9. SeedStays'
    <2> SUFFICES ASSUME NEW u \in RightsTenants, u # edit.tenant, NEW d \in RightsCalls, Importing(d, u)',
                        NEW row \in rightsCall'[d].seen, row.permit, row.grant \in Yaml[7]
                 PROVE  row \in assignments[u]
        BY <1>1 DEF SeedStays
    <2>1. CASE d = c
        BY <1>3, <1>4, <2>1 DEF Importing
    <2>2. CASE d # c
        BY <1>1, <1>4, <2>2 DEF SeedStays, Importing, RightsAt
    <2> QED BY <2>1, <2>2
<1> QED BY <1>5, <1>6, <1>7, <1>8, <1>9

\* What an import writes, and what stays of the rows
LEMMA ImportedRows ==
    ASSUME NEW old, old \subseteq SeedRows, NEW written, written \subseteq AllGrants,
           NEW rows, rows = {r \in old : r.grant \notin written} \cup Permits(written)
    PROVE  /\ rows \subseteq SeedRows
           /\ \A row \in rows : row \in old \/ (row.permit /\ row.grant \in written)
           /\ \A row \in old : row.permit => row \in rows
           /\ \A row \in SeedRows : row.permit /\ row.grant \in written => row \in rows
BY PermitsAreRows

LEMMA ImportKeeps ==
    RightsIInv /\ (\E c \in RightsCalls : Import(c)) => RightsIInv'
<1> SUFFICES ASSUME RightsIInv, NEW c \in RightsCalls, Import(c)
             PROVE  RightsIInv'
    OBVIOUS
<1> USE DEF RightsIInv
<1>1. PICK v, t, seen : v = rightsCall[c].release /\ t = rightsCall[c].tenant /\ seen = rightsCall[c].seen
    OBVIOUS
<1>2. PICK written : written = Yaml[v] \ {row.grant : row \in {r \in seen : r.permit}}
    OBVIOUS
<1>3. PICK rows : rows = {r \in assignments[t] : r.grant \notin written} \cup Permits(written)
    OBVIOUS
<1>4. /\ RightsAt(c, "importing") /\ assignments' = [assignments EXCEPT ![t] = rows]
      /\ marker' = [marker EXCEPT ![t] = v]
      /\ overSeeded' = overSeeded \cup
                (IF (v < 4 /\ schema >= 5) \/ (v < 5 /\ schema = 6) THEN {t} ELSE {})
      /\ rightsCall' = [rightsCall EXCEPT ![c] = NoRightsCall]
      /\ schema' = schema /\ serving' = serving /\ edit' = edit
    BY <1>1, <1>2, <1>3 DEF Import, RightsGoes
<1>5. v \in 1..7 /\ v \in serving /\ t \in SeededTenants /\ t \in RightsTenants /\ seen \subseteq SeedRows
    BY <1>1, <1>4, SeedAssumption DEF SeedOrdered, SeedTyped, SeedFrames
<1>6. /\ assignments[t] \in SUBSET SeedRows /\ schema \in 3..6 /\ Importing(c, t)
    BY <1>1, <1>4, <1>5, ImportingIsLate DEF SeedTyped, Importing
<1>7. /\ rows \subseteq SeedRows
      /\ \A row \in rows : row \in assignments[t] \/ (row.permit /\ row.grant \in written)
      /\ \A row \in assignments[t] : row.permit => row \in rows
      /\ \A row \in SeedRows : row.permit /\ row.grant \in written => row \in rows
    <2>1. written \subseteq Yaml[v]
        BY <1>2
    <2>2. PICK old : old = assignments[t] /\ old \subseteq SeedRows
        BY <1>6
    <2>3. rows = {r \in old : r.grant \notin written} \cup Permits(written)
        BY <1>3, <2>2
    <2>4. /\ rows \subseteq SeedRows
          /\ \A row \in rows : row \in old \/ (row.permit /\ row.grant \in written)
          /\ \A row \in old : row.permit => row \in rows
          /\ \A row \in SeedRows : row.permit /\ row.grant \in written => row \in rows
        <3>1. written \subseteq AllGrants
            BY <1>5, <2>1, YamlIsGranted
        <3> DEFINE conclusion(o, w, rs) ==
                /\ rs \subseteq SeedRows
                /\ \A row \in rs : row \in o \/ (row.permit /\ row.grant \in w)
                /\ \A row \in o : row.permit => row \in rs
                /\ \A row \in SeedRows : row.permit /\ row.grant \in w => row \in rs
        <3>2. \A o, w, rs : /\ o \subseteq SeedRows /\ w \subseteq AllGrants
                           /\ rs = {r \in o : r.grant \notin w} \cup Permits(w)
                           => conclusion(o, w, rs)
            BY ImportedRows
        <3> HIDE DEF conclusion
        <3>3. conclusion(old, written, rows)
            BY <2>2, <2>3, <3>1, <3>2
        <3> QED BY <3>3 DEF conclusion
    <2> QED BY <2>2, <2>4
<1>8. /\ assignments'[t] = rows /\ marker'[t] = v
      /\ \A u \in RightsTenants \ {t} : assignments'[u] = assignments[u] /\ marker'[u] = marker[u]
    BY <1>4, <1>5 DEF SeedTyped
<1>9. NoRightsCall \in SeedFrames /\ NoRightsCall.pc = "idle"
    BY DEF NoRightsCall, SeedFrames
<1>10. \A d \in RightsCalls : RightsAt(d, "importing")' =>
            d # c /\ RightsAt(d, "importing") /\ rightsCall'[d] = rightsCall[d]
    BY <1>4, <1>9 DEF RightsAt, SeedTyped
<1>11. SeedTyped'
    <2>1. assignments' \in [RightsTenants -> SUBSET SeedRows]
        BY <1>4, <1>7 DEF SeedTyped
    <2>2. marker' \in [RightsTenants -> 0..7]
        BY <1>4, <1>5 DEF SeedTyped
    <2>3. rightsCall' \in [RightsCalls -> SeedFrames]
        BY <1>4, <1>9 DEF SeedTyped
    <2> QED BY <1>4, <2>1, <2>2, <2>3 DEF SeedTyped
<1>12. SeedOrdered'
    <2>1. \A u \in RightsTenants : marker'[u] > 0 => schema >= 3
        BY <1>6
    <2> QED BY <1>4, <1>10, <2>1 DEF SeedOrdered
<1>13. SeedIsNarrow'
    <2> SUFFICES ASSUME NEW u \in RightsTenants \ overSeeded', NEW row \in assignments'[u],
                        row.permit, row.grant.target = "instances", row.grant.permission \in {"read", "all"}
                 PROVE  row.grant.role \notin Narrowed
        BY <1>4 DEF SeedIsNarrow, Narrowed
    <2>1. CASE row \in assignments[u]
        BY <1>4, <2>1 DEF SeedIsNarrow
    <2>2. CASE row \notin assignments[u]
        <3>1. u = t /\ row.grant \in Yaml[v]
            BY <1>2, <1>7, <1>8, <2>2
        <3>2. row.grant.role \in WideReaders(v)
            BY <1>5, <3>1, GrantShapes
        <3>3. ~(v < 4 /\ schema >= 5) /\ ~(v < 5 /\ schema = 6)
            BY <1>4, <3>1
        <3> QED BY <1>5, <1>6, <3>2, <3>3 DEF WideReaders, Narrowed
    <2> QED BY <2>1, <2>2
<1>14. EditStands'
    <2> SUFFICES ASSUME ~edit.excused
                 PROVE  /\ edit.tenant \in RightsTenants /\ edit.at \in 1..7
                        /\ marker'[edit.tenant] >= edit.at
                        /\ \A d \in RightsCalls : Importing(d, edit.tenant)' => rightsCall'[d].release > edit.at
                        /\ marker'[edit.tenant] = edit.at
                             => Row(edit.grant, TRUE) \notin assignments'[edit.tenant]
        BY <1>4 DEF EditStands
    <2>1. \A d \in RightsCalls : Importing(d, edit.tenant)' => rightsCall'[d].release > edit.at
        BY <1>4, <1>10 DEF EditStands, Importing
    <2>2. CASE edit.tenant = t
        <3>1. v > edit.at /\ edit.at \in 1..7
            BY <1>1, <1>6, <2>2 DEF EditStands
        <3>2. marker'[t] = v /\ v \in 1..7
            BY <1>5, <1>8
        <3>3. marker'[t] >= edit.at /\ marker'[t] # edit.at
            BY <3>1, <3>2
        <3> QED BY <1>5, <2>1, <2>2, <3>1, <3>3
    <2>3. CASE edit.tenant # t
        BY <1>8, <2>1, <2>3 DEF EditStands
    <2> QED BY <2>2, <2>3
<1>15. SeedStays'
    <2> SUFFICES ASSUME NEW u \in RightsTenants, u # edit.tenant
                 PROVE  /\ \A row \in assignments'[u] : row.permit
                        /\ marker'[u] = 7 => Permits(Yaml[7]) \subseteq assignments'[u]
                        /\ \A d \in RightsCalls : Importing(d, u)' =>
                                \A row \in rightsCall'[d].seen :
                                    row.permit /\ row.grant \in Yaml[7] => row \in assignments'[u]
        BY <1>4 DEF SeedStays
    <2>1. \A row \in assignments'[u] : row.permit
        BY <1>7, <1>8 DEF SeedStays
    <2>2. \A row \in assignments[u] : row.permit /\ row \in assignments'[u]
        BY <1>7, <1>8 DEF SeedStays
    <2>3. \A d \in RightsCalls : Importing(d, u)' =>
                \A row \in rightsCall'[d].seen :
                    row.permit /\ row.grant \in Yaml[7] => row \in assignments'[u]
        BY <1>10, <2>2 DEF SeedStays, Importing
    <2>4. ASSUME marker'[u] = 7 PROVE Permits(Yaml[7]) \subseteq assignments'[u]
        <3>1. CASE u # t
            BY <1>8, <2>2, <2>4, <3>1 DEF SeedStays
        <3>2. CASE u = t
            <4>1. v = 7
                BY <1>8, <2>4, <3>2
            <4>2. ASSUME NEW g \in Yaml[7] PROVE Row(g, TRUE) \in rows
                <5>1. g \in AllGrants /\ Row(g, TRUE) \in SeedRows /\ Row(g, TRUE).grant = g
                      /\ Row(g, TRUE).permit
                    <6>1. g \in AllGrants
                        BY YamlIsGranted
                    <6> QED BY <6>1, RowFields
                <5>2. CASE g \in written
                    BY <1>7, <5>1, <5>2
                <5>3. CASE g \notin written
                    <6>1. PICK row \in seen : row.permit /\ row.grant = g
                        BY <1>2, <4>1, <5>3
                    <6>2. row \in assignments[t]
                        BY <1>1, <1>6, <3>2, <6>1 DEF SeedStays
                    <6>3. row = Row(g, TRUE)
                        BY <1>5, <6>1 DEF Row, SeedRows
                    <6> QED BY <1>7, <6>1, <6>2, <6>3
                <5> QED BY <5>2, <5>3
            <4> QED BY <1>8, <3>2, <4>2 DEF Permits
        <3> QED BY <3>1, <3>2
    <2> QED BY <2>1, <2>3, <2>4
<1> QED BY <1>11, <1>12, <1>13, <1>14, <1>15

LEMMA ImportFailsKeeps ==
    RightsIInv /\ (\E c \in RightsCalls : ImportFails(c)) => RightsIInv'
<1> SUFFICES ASSUME RightsIInv, NEW c \in RightsCalls, ImportFails(c)
             PROVE  RightsIInv'
    OBVIOUS
<1> USE DEF RightsIInv
<1>1. /\ rightsCall' = [rightsCall EXCEPT ![c] = NoRightsCall]
      /\ assignments' = assignments /\ marker' = marker /\ schema' = schema /\ serving' = serving
      /\ edit' = edit /\ overSeeded' = overSeeded
    BY DEF ImportFails, RightsGoes
<1>2. NoRightsCall \in SeedFrames /\ NoRightsCall.pc = "idle"
    BY DEF NoRightsCall, SeedFrames
<1>3. \A d \in RightsCalls : RightsAt(d, "importing")' =>
            RightsAt(d, "importing") /\ rightsCall'[d] = rightsCall[d]
    BY <1>1, <1>2 DEF RightsAt, SeedTyped
<1>4. SeedTyped'
    BY <1>1, <1>2 DEF SeedTyped
<1>5. SeedOrdered'
    BY <1>1, <1>3 DEF SeedOrdered
<1>6. SeedIsNarrow'
    BY <1>1 DEF SeedIsNarrow, Narrowed
<1>7. EditStands'
    BY <1>1, <1>3 DEF EditStands, Importing
<1>8. SeedStays'
    BY <1>1, <1>3 DEF SeedStays, Importing
<1> QED BY <1>4, <1>5, <1>6, <1>7, <1>8

LEMMA RightsStep == RightsIInv /\ [RightsNext]_rightsVars => RightsIInv'
<1> SUFFICES ASSUME RightsIInv, [RightsNext]_rightsVars PROVE RightsIInv'
    OBVIOUS
<1>1. CASE Migrate
    BY <1>1, MigrateKeeps
<1>2. CASE Downgrade
    BY <1>2, DowngradeKeeps
<1>3. CASE \E v \in Releases : StartsServing(v) \/ StopsServing(v)
    BY <1>3, ServingKeeps
<1>4. CASE \E t \in RightsTenants, g \in EditedGrants : OperatorEdits(t, g)
    BY <1>4, OperatorKeeps
<1>5. CASE \E c \in RightsCalls : Import(c)
    BY <1>5, ImportKeeps
<1>6. CASE \E c \in RightsCalls : ImportFails(c)
    BY <1>6, ImportFailsKeeps
<1>7. CASE \E c \in RightsCalls, v \in Releases, t \in SeededTenants : Arrive(c, v, t)
    BY <1>7, ArriveKeeps
<1>8. CASE UNCHANGED rightsVars
    <2>1. /\ assignments' = assignments /\ marker' = marker /\ schema' = schema
          /\ serving' = serving /\ rightsCall' = rightsCall /\ edit' = edit
          /\ overSeeded' = overSeeded
        BY <1>8 DEF rightsVars
    <2> QED BY <2>1 DEF RightsIInv, SeedTyped, SeedOrdered, SeedIsNarrow, Narrowed, EditStands,
               SeedStays, Importing, RightsAt
<1> QED BY <1>1, <1>2, <1>3, <1>4, <1>5, <1>6, <1>7, <1>8 DEF RightsNext

(***************************************************************************)
(* What the invariant means for requests                                   *)
(***************************************************************************)
LEMMA ReadsAreNarrow == RightsIInv => InstanceReadIsNarrow
<1> SUFFICES ASSUME RightsIInv, schema = 6, ~super, NEW t \in BoundTenants,
                    ReadsEverybody(assignments, held, super, t),
                    held[t] # "tenant-admin", t \notin overSeeded
             PROVE  FALSE
    BY DEF InstanceReadIsNarrow
<1>1. t \in RightsTenants
    BY ReadsByRow
<1>2. PICK row \in assignments[t] :
                /\ row.permit /\ row.grant.role = held[t]
                /\ row.grant.permission \in {"read", "all"} /\ row.grant.target = "instances"
    BY ReadsByRow
<1>3. row.grant.role \notin {"submitter", "editor", "viewer"}
    BY <1>1, <1>2 DEF RightsIInv, SeedIsNarrow, Narrowed
<1>4. row.grant \in AllGrants
    BY <1>1, <1>2 DEF RightsIInv, SeedTyped, SeedRows
<1>5. PICK v \in 0..7 : row.grant \in Yaml[v]
    BY <1>4 DEF AllGrants
<1>6. row.grant.role \in WideReaders(v)
    BY <1>2, <1>5, GrantShapes
<1> QED BY <1>2, <1>3, <1>6 DEF WideReaders

LEMMA GrantsStand == RightsIInv => SeededGrantsStand
<1> SUFFICES ASSUME RightsIInv PROVE SeededGrantsStand
    OBVIOUS
<1>1. OperatorChangesStand
    BY DEF RightsIInv, EditStands, OperatorChangesStand
<1>2. ASSUME NEW t \in RightsTenants, marker[t] = 7, edit.tenant # t
      PROVE  /\ \A row \in assignments[t] : row.permit /\ row.grant \in AllGrants
             /\ Permits(Yaml[7]) \subseteq assignments[t]
    BY <1>2 DEF RightsIInv, SeedStays, SeedTyped, SeedRows
<1>3. SeededRolesWork
    <2> SUFFICES ASSUME NEW t \in RightsTenants, marker[t] = 7, edit.tenant # t
                 PROVE  /\ MissingLifecycle(assignments[t]) = {}
                        /\ \A role \in SignedInRoles :
                           LET as == [u \in RightsTenants |-> IF u = t THEN role ELSE "none"]
                               routed(permission, route) == allow_uri(assignments, as, FALSE, t, permission, route)
                               runs(command) == authorize(assignments, as, FALSE, t, command)
                           IN  /\ routed("create", Suspend) = runs("process.suspend")
                               /\ routed("create", Instances) = runs("process.start")
                               /\ routed("create", CompleteTask) = runs("task.complete")
                               /\ routed("create", SubmitReview) => runs("task.complete")
                               /\ routed("read", Onboarding)
        BY DEF SeededRolesWork
    <2>1. MissingLifecycle(assignments[t]) = {}
        BY <1>2, SeedIsReady
    <2>2. ASSUME NEW role \in SignedInRoles
          PROVE  LET as == HeldOnly(t, role)
                     routed(permission, route) == allow_uri(assignments, as, FALSE, t, permission, route)
                     runs(command) == authorize(assignments, as, FALSE, t, command)
                 IN  /\ routed("create", Suspend) = runs("process.suspend")
                     /\ routed("create", Instances) = runs("process.start")
                     /\ routed("create", CompleteTask) = runs("task.complete")
                     /\ routed("create", SubmitReview) => runs("task.complete")
                     /\ routed("read", Onboarding)
        BY <1>2, SeedDecides
    <2> QED BY <2>1, <2>2 DEF HeldOnly
<1> QED BY <1>1, <1>3 DEF SeededGrantsStand

(***************************************************************************)
(* For any tenants, releases that serve side by side, concurrent imports   *)
(* and changes by the operator: with every revocation applied, a request   *)
(* reads the instances of everybody as tenant-admin of the tenant it is    *)
(* bound to, as super-admin, or where an old release seeded the tenant     *)
(* after the revocation (allow_uri, resolve_request_tenant, b9d2e3f4a5c6,  *)
(* c1e4f5a6b7d8, import_yaml).                                             *)
(***************************************************************************)
THEOREM RightsSpecReadsNarrow == RightsSpec => []InstanceReadIsNarrow
<1>1. RightsIInv => InstanceReadIsNarrow
    BY ReadsAreNarrow
<1> QED BY <1>1, RightsStart, RightsStep, PTL DEF RightsSpec

(***************************************************************************)
(* For the same: what the operator removed or denied stays so until a      *)
(* newer file is imported (tenant_permission_seed_current); and in a       *)
(* tenant with the current file that the operator left alone, each route   *)
(* lets through the roles for which the engine runs its command, whatever  *)
(* older seeds and migrations left there (allow_uri,                       *)
(* HostAuthorizationPolicy.authorize, missing_lifecycle_execute_grants).   *)
(***************************************************************************)
THEOREM RightsSpecGrantsStand == RightsSpec => []SeededGrantsStand
<1>1. RightsIInv => SeededGrantsStand
    BY GrantsStand
<1> QED BY <1>1, RightsStart, RightsStep, PTL DEF RightsSpec

-----------------------------------------------------------------------------
(***************************************************************************)
(* CallActivities: the definition that a call activity finds.  The         *)
(* signature tells the rows apart because it only grows: a commit adds a   *)
(* row, or one with a stamp that is later than all others.  And the newest *)
(* row of a model is of the diagram on its page, or the import that makes  *)
(* it so is under way.                                                     *)
(***************************************************************************)

USE CallActivitiesAssumption

WrittenRows == [model : ChildModels \cup {NoChild}, id : Nat, created : Nat, updated : Nat]
ImportFrames == [
    pc : {"idle", "importing", "stamped"}, model : ChildModels \cup {NoChild},
    xml : ChildXmls \cup {NoDiagram}, write : WrittenRows]
\* The number of rows and the last stamp: what the proof compares of a signature
IsSignature(s) == s[1] \in Nat /\ s[4] \in Nat

ChildTyped ==
    /\ childDiagram \in [ChildModels -> ChildXmls \cup {NoDiagram}]
    /\ definitions \in [ChildXmls -> WrittenRows]
    /\ importer \in [Importers -> ImportFrames]
    /\ clock \in Nat \ {0}
    /\ IsSignature(cached.signature)
    /\ call = [pc |-> call.pc, signature |-> call.signature, index |-> call.index]
    /\ call.pc \in {"idle", "signed", "indexed"} /\ IsSignature(call.signature)
    /\ hidden \in BOOLEAN
    /\ putBack \in SUBSET ChildModels /\ unsettled \in SUBSET ChildModels

StoredIn(rows) == {x \in ChildXmls : rows[x] # NoRow}
IsWritten(w, now) ==
    /\ w.model \in ChildModels /\ w.id >= 1
    /\ w.created \in 1..now /\ w.updated \in 1..now
\* A row that is written keeps the id and the first stamp of the one it replaces.
ImportOK(f) ==
    \/ f = NoImport
    \/ /\ f.pc # "idle" /\ f.model \in ChildModels /\ f.xml \in ChildXmls
       /\ f.pc = "stamped" =>
            /\ IsWritten(f.write, clock) /\ f.write.model = f.model
            /\ IsStored(f.xml) => /\ f.write.id = definitions[f.xml].id
                                  /\ f.write.created = definitions[f.xml].created
ImportsOK ==
    /\ \A r \in Importers : ImportOK(importer[r])
    /\ \A r, s \in Importers : ImportAt(r, "stamped") /\ ImportAt(s, "stamped") /\ r # s
            => importer[r].xml # importer[s].xml
RowsWritten ==
    /\ IsFiniteSet(StoredIn(definitions))
    /\ \A x \in StoredIn(definitions) : IsWritten(definitions[x], clock)
    /\ \E n \in Nat : /\ \A x \in ChildXmls : definitions[x].id <= n
                      /\ \A r \in Importers : importer[r].write.id <= n

\* A signature that is not of the rows as they are is of fewer rows, or of older ones.
IsOlder(s, t) == s[1] < t[1] \/ (s[1] = t[1] /\ s[4] < t[4])
IndexesOK ==
    /\ ~hidden =>
        \/ IsOlder(cached.signature, SignatureOf(definitions))
        \/ cached.signature = SignatureOf(definitions) /\ cached.index = IndexOf(definitions)
    /\ ~hidden /\ call.pc = "signed" =>
        \/ IsOlder(call.signature, SignatureOf(definitions))
        \/ call.signature = SignatureOf(definitions)
    /\ call.pc # "idle" => IndexOf(definitions) \in possible
    /\ call.pc = "indexed" /\ ~hidden => call.index \in possible

\* The newest row of a model is of the diagram on its page, or becomes it with the import
\* that is under way.
RowNewer(v, w) == v.created > w.created \/ (v.created = w.created /\ v.id > w.id)
ImportersOf(m) == {r \in Importers : importer[r].model = m}
NewestFor(m, x, row) ==
    \A y \in CallingXmls \ {x} : definitions[y].model = m => RowNewer(row, definitions[y])
PageOK(m, x) ==
    /\ x \in CallingXmls
    /\ \A r \in ImportersOf(m) :
        /\ importer[r].xml = x
        /\ \A s \in Importers \ {r} : importer[s].model # m /\ importer[s].xml # x
    /\ ~IsStored(x) => ImportersOf(m) # {}
    /\ IsStored(x) => NewestFor(m, x, definitions[x])
    /\ \A r \in ImportersOf(m) :
        ImportAt(r, "stamped") /\ ~IsStored(x) => NewestFor(m, x, importer[r].write)
    /\ m \notin taken /\ ImportersOf(m) = {} => definitions[x].model = m
ChildOK(m) ==
    IF OnDisk(m) THEN PageOK(m, childDiagram[m])
    ELSE ImportersOf(m) = {} /\ \A x \in ChildXmls : definitions[x].model # m
PagesOK == \A m \in ChildModels \ (putBack \cup unsettled) : ChildOK(m)

CallsIInv == ChildTyped /\ ImportsOK /\ RowsWritten /\ IndexesOK /\ PagesOK

-----------------------------------------------------------------------------
(***************************************************************************)
(* Greatest                                                                *)
(***************************************************************************)
LEMMA LeastNumber ==
    ASSUME NEW T \in SUBSET Nat, T # {}
    PROVE  \E m \in T : \A n \in T : m <= n
<1> DEFINE R == OpToRel(<, Nat)
<1>1. PICK m \in T : \A n \in T : ~ (<<n, m>> \in R)
    <2>1. IsWellFoundedOn(R, Nat)
        BY NatLessThanWellFounded
    <2> HIDE DEF R
    <2> QED BY <2>1, WFMin
<1>2. ASSUME NEW n \in T PROVE m <= n
    <2>1. ~(n < m)
        BY <1>1 DEF OpToRel
    <2> QED BY <2>1
<1> QED BY <1>2

\* Some numbers with a bound have a greatest.
LEMMA GreatestIsThere ==
    ASSUME NEW S \in SUBSET Nat, NEW bound \in Nat, \A k \in S : k <= bound
    PROVE  Greatest(S) \in S \cup {0} /\ \A k \in S : k <= Greatest(S)
<1> DEFINE T == {n \in Nat : bound - n \in S \cup {0}}
<1>1. \A v \in S \cup {0} : v \in Nat /\ v <= bound
    OBVIOUS
<1>2. \A v \in S \cup {0} : bound - v \in T
    <2>1. TAKE v \in S \cup {0}
    <2>2. bound - v \in Nat /\ bound - (bound - v) = v
        BY <1>1
    <2> QED BY <2>2
<1>3. PICK m \in T : \A n \in T : m <= n
    <2>1. T # {} /\ T \in SUBSET Nat
        BY <1>2
    <2> HIDE DEF T
    <2> QED BY <2>1, LeastNumber
<1>4. bound - m \in S \cup {0} /\ \A u \in S \cup {0} : u <= bound - m
    <2>1. m \in Nat /\ bound - m \in S \cup {0}
        OBVIOUS
    <2>2. ASSUME NEW u \in S \cup {0} PROVE u <= bound - m
        <3>1. m <= bound - u
            BY <1>2, <1>3
        <3> HIDE DEF T
        <3> QED BY <1>1, <2>1, <3>1
    <2> QED BY <2>1, <2>2
<1>5. \E n \in S \cup {0} : \A k \in S : k <= n
    BY <1>4
<1> QED BY <1>5 DEF Greatest

LEMMA NoRowIsOne == NoRow \in WrittenRows /\ NoRow.model = NoChild /\ NoRow.id = 0
    BY DEF NoRow, WrittenRows

LEMMA NoImportIsOne ==
    /\ NoImport \in ImportFrames /\ NoImport.pc = "idle" /\ NoImport.model = NoChild
    /\ NoImport.xml = NoDiagram /\ NoImport.write = NoRow
    BY NoRowIsOne DEF NoImport, ImportFrames

\* Whether a request is idle
LEMMA IdleImporter ==
    ASSUME ChildTyped, ImportsOK, NEW r \in Importers
    PROVE  /\ ImportAt(r, "idle") <=> importer[r] = NoImport
           /\ ImportAt(r, "idle") => importer[r].model = NoChild /\ importer[r].xml = NoDiagram
           /\ ~ImportAt(r, "idle") => importer[r].model \in ChildModels /\ importer[r].xml \in ChildXmls
    BY NoImportIsOne DEF ChildTyped, ImportsOK, ImportOK, ImportAt

\* The three parts of a signature that are compared
LEMMA SignatureIs ==
    ASSUME NEW rows \in [ChildXmls -> WrittenRows], NEW now \in Nat,
           \A x \in StoredIn(rows) : rows[x].updated \in 1..now
    PROVE  /\ SignatureOf(rows)[1] = Cardinality(StoredIn(rows))
           /\ SignatureOf(rows)[4] \in {rows[x].updated : x \in StoredIn(rows)} \cup {0}
           /\ \A x \in StoredIn(rows) : rows[x].updated <= SignatureOf(rows)[4]
<1> DEFINE S == {rows[x].updated : x \in StoredIn(rows)}
<1>1. S \in SUBSET Nat /\ \A k \in S : k <= now
    BY DEF StoredIn
<1>2. Greatest(S) \in S \cup {0} /\ \A k \in S : k <= Greatest(S)
    <2> HIDE DEF S
    <2> QED BY <1>1, GreatestIsThere
<1>3. SignatureOf(rows)[1] = Cardinality(StoredIn(rows)) /\ SignatureOf(rows)[4] = Greatest(S)
    BY DEF SignatureOf, StoredIn
<1> QED BY <1>2, <1>3

LEMMA RowsAndSignature ==
    ASSUME ChildTyped, RowsWritten
    PROVE  /\ SignatureOf(definitions)[1] = Cardinality(StoredIn(definitions))
           /\ SignatureOf(definitions)[1] \in Nat /\ SignatureOf(definitions)[4] \in Nat
           /\ SignatureOf(definitions)[4] \in
                {definitions[x].updated : x \in StoredIn(definitions)} \cup {0}
           /\ \A x \in StoredIn(definitions) : definitions[x].updated <= SignatureOf(definitions)[4]
<1>1. definitions \in [ChildXmls -> WrittenRows] /\ clock \in Nat
    BY DEF ChildTyped
<1>2. \A x \in StoredIn(definitions) : definitions[x].updated \in 1..clock
    BY DEF RowsWritten, IsWritten
<1>3. /\ SignatureOf(definitions)[1] = Cardinality(StoredIn(definitions))
      /\ SignatureOf(definitions)[4] \in {definitions[x].updated : x \in StoredIn(definitions)} \cup {0}
      /\ \A x \in StoredIn(definitions) : definitions[x].updated <= SignatureOf(definitions)[4]
    BY <1>1, <1>2, SignatureIs
<1>4. Cardinality(StoredIn(definitions)) \in Nat
    BY FS_CardinalityType DEF RowsWritten
<1>5. SignatureOf(definitions)[4] \in Nat
    BY <1>1, <1>2, <1>3 DEF StoredIn
<1> QED BY <1>3, <1>4, <1>5

-----------------------------------------------------------------------------
(***************************************************************************)
(* Imports that begin                                                      *)
(***************************************************************************)

\* What a request that begins leaves alone: the rows, and with them the indexes
LEMMA BeginKeepsRows ==
    ASSUME CallsIInv, NEW r \in Importers, NEW m \in ChildModels, NEW x \in ChildXmls,
           BeginImport(r, m, x), UNCHANGED <<definitions, clock, callVars, taken>>
    PROVE  /\ importer' \in [Importers -> ImportFrames]
           /\ importer'[r] = [NoImport EXCEPT !.pc = "importing", !.model = m, !.xml = x]
           /\ importer'[r].pc = "importing" /\ importer'[r].model = m
           /\ importer'[r].xml = x /\ importer'[r].write = NoRow
           /\ \A s \in Importers \ {r} : importer'[s] = importer[s]
           /\ ImportsOK' /\ RowsWritten' /\ IndexesOK'
<1>1. /\ definitions' = definitions /\ clock' = clock /\ cached' = cached /\ call' = call
      /\ possible' = possible /\ hidden' = hidden
    BY DEF callVars
<1>2. PICK f : f = [NoImport EXCEPT !.pc = "importing", !.model = m, !.xml = x]
    OBVIOUS
<1>3. /\ f \in ImportFrames /\ f.pc = "importing" /\ f.model = m /\ f.xml = x
      /\ f.write = NoRow
    BY <1>2, NoImportIsOne DEF ImportFrames, NoImport
<1>4. importer' = [importer EXCEPT ![r] = f] /\ importer \in [Importers -> ImportFrames]
    BY <1>2 DEF BeginImport, CallsIInv, ChildTyped
<1>5. /\ importer' \in [Importers -> ImportFrames] /\ importer'[r] = f
      /\ \A s \in Importers \ {r} : importer'[s] = importer[s]
    BY <1>3, <1>4
<1>6. ImportsOK'
    <2>1. ASSUME NEW s \in Importers PROVE ImportOK(importer[s])'
        <3>1. CASE s = r
            BY <1>3, <1>5, <3>1 DEF ImportOK
        <3>2. CASE s # r
            <4>1. ImportOK(importer[s])
                BY DEF CallsIInv, ImportsOK
            <4>2. importer'[s] = importer[s]
                BY <1>5, <3>2
            <4> QED BY <1>1, <4>1, <4>2 DEF ImportOK, IsStored
        <3> QED BY <3>1, <3>2
    <2>2. \A s, q \in Importers : (ImportAt(s, "stamped") /\ ImportAt(q, "stamped") /\ s # q
                => importer[s].xml # importer[q].xml)'
        BY <1>3, <1>5 DEF CallsIInv, ImportsOK, ImportAt
    <2> QED BY <2>1, <2>2 DEF ImportsOK
<1>7. RowsWritten'
    <2>1. PICK n \in Nat : /\ \A y \in ChildXmls : definitions[y].id <= n
                           /\ \A s \in Importers : importer[s].write.id <= n
        BY DEF CallsIInv, RowsWritten
    <2>2. \A s \in Importers : importer'[s].write.id <= n
        BY <1>3, <1>5, <2>1, NoRowIsOne
    <2> QED BY <1>1, <2>1, <2>2 DEF CallsIInv, RowsWritten
<1>8. IndexesOK'
    BY <1>1 DEF CallsIInv, IndexesOK
<1> QED BY <1>2, <1>3, <1>5, <1>6, <1>7, <1>8

\* A model whose rows and importers stay as they are, and its diagram too
LEMMA PageStays ==
    ASSUME NEW m \in ChildModels, ChildOK(m), ImportersOf(m)' = ImportersOf(m),
           childDiagram'[m] = childDiagram[m], definitions' = definitions, taken' = taken,
           \A r \in ImportersOf(m) : importer'[r] = importer[r],
           \A r \in ImportersOf(m) : \A s \in Importers \ {r} :
                importer'[s].model # m /\ importer'[s].xml # childDiagram[m]
    PROVE  ChildOK(m)'
<1>1. CASE OnDisk(m)
    <2>1. PageOK(m, childDiagram[m])
        BY <1>1 DEF ChildOK
    <2>2. PICK x : x = childDiagram[m]
        OBVIOUS
    <2>3. PageOK(m, x) /\ childDiagram'[m] = x
        BY <2>1, <2>2
    <2>4. PageOK(m, x)'
        BY <2>2, <2>3 DEF PageOK, NewestFor, IsStored, ImportAt
    <2>5. OnDisk(m)'
        BY <1>1 DEF OnDisk
    <2> QED BY <2>2, <2>3, <2>4, <2>5 DEF ChildOK
<1>2. CASE ~OnDisk(m)
    BY <1>2 DEF ChildOK, OnDisk
<1> QED BY <1>1, <1>2

LEMMA BeginKeepsPages ==
    ASSUME CallsIInv, NEW r \in Importers, NEW m \in ChildModels, NEW x \in ChildXmls,
           BeginImport(r, m, x), UNCHANGED <<definitions, clock, callVars, taken>>,
           \A n \in ChildModels \ {m} : childDiagram'[n] = childDiagram[n],
           childDiagram'[m] = x,
           putBack \ {m} \subseteq putBack',
           m \notin putBack' \cup unsettled =>
                x \in CallingXmls /\ (IsStored(x) => NewestFor(m, x, definitions[x]))
    PROVE  PagesOK'
<1>1. /\ importer'[r].pc = "importing" /\ importer'[r].model = m
      /\ importer'[r].xml = x
      /\ \A s \in Importers \ {r} : importer'[s] = importer[s]
      /\ definitions' = definitions /\ taken' = taken
    <2>1. definitions' = definitions /\ taken' = taken
        OBVIOUS
    <2>2. /\ importer'[r].pc = "importing" /\ importer'[r].model = m
          /\ importer'[r].xml = x
          /\ \A s \in Importers \ {r} : importer'[s] = importer[s]
        <3>1. CallsIInv /\ BeginImport(r, m, x) /\ UNCHANGED <<definitions, clock, callVars, taken>>
            OBVIOUS
        <3> QED BY ONLY <3>1, BeginKeepsRows, r \in Importers, m \in ChildModels, x \in ChildXmls
    <2> QED BY <2>1, <2>2
<1>2. ImportAt(r, "idle") /\ ImportsOK /\ ChildTyped
    BY DEF BeginImport, CallsIInv
<1>3. importer[r].model = NoChild /\ importer[r].xml = NoDiagram
    BY <1>2, IdleImporter
<1>4. unsettled' = IF Rivals(m, x) = {} THEN unsettled
                   ELSE unsettled \cup {m} \cup {importer[s].model : s \in Rivals(m, x)}
    BY DEF BeginImport
<1>5. ASSUME NEW n \in ChildModels, n # m, n \notin (putBack \cup unsettled)'
      PROVE  ChildOK(n)'
    <2>1. n \notin putBack \cup unsettled /\ ChildOK(n)
        BY <1>4, <1>5 DEF CallsIInv, PagesOK
    <2>2. ImportersOf(n)' = ImportersOf(n) /\ r \notin ImportersOf(n)
        BY <1>1, <1>3, <1>5 DEF ImportersOf
    <2>3. ASSUME NEW q \in ImportersOf(n), NEW s \in Importers \ {q}
          PROVE  importer'[s].model # n /\ importer'[s].xml # childDiagram[n]
        <3>1. q \in Importers /\ importer[q].model = n /\ ~ImportAt(q, "idle")
            BY <1>2, IdleImporter DEF ImportersOf
        <3>2. /\ importer[q].xml = childDiagram[n]
              /\ importer[s].model # n /\ importer[s].xml # childDiagram[n]
            <4>1. PageOK(n, childDiagram[n])
                BY <2>1, <2>3 DEF ChildOK
            <4> QED BY <4>1, <2>3 DEF PageOK
        <3>3. q \notin Rivals(m, x)
            BY <1>4, <1>5, <3>1
        <3>4. importer[q].xml # x
            BY <3>1, <3>3 DEF Rivals
        <3> QED BY <1>1, <1>5, <3>2, <3>4
    <2>4. \A q \in ImportersOf(n) : importer'[q] = importer[q]
        BY <1>1, <2>2 DEF ImportersOf
    <2> QED BY <1>1, <1>5, <2>1, <2>2, <2>3, <2>4, PageStays
<1>6. ASSUME m \notin (putBack \cup unsettled)' PROVE ChildOK(m)'
    <2>1. Rivals(m, x) = {} /\ m \notin unsettled
        BY <1>4, <1>6
    <2>2. ASSUME NEW s \in Importers \ {r}
          PROVE  importer'[s].model # m /\ importer'[s].xml # x
        <3>1. CASE ImportAt(s, "idle")
            BY <1>1, <1>2, <3>1, IdleImporter
        <3>2. CASE ~ImportAt(s, "idle")
            BY <1>1, <2>1, <3>2 DEF Rivals
        <3> QED BY <3>1, <3>2
    <2>3. ImportersOf(m)' = {r}
        BY <1>1, <2>2 DEF ImportersOf
    <2>4. x \in CallingXmls /\ (IsStored(x) => NewestFor(m, x, definitions[x]))
        BY <1>6, <2>1
    <2>5. PageOK(m, x)'
        <3>1. (\A q \in ImportersOf(m) :
                /\ importer[q].xml = x
                /\ \A s \in Importers \ {q} : importer[s].model # m /\ importer[s].xml # x)'
            BY <1>1, <2>2, <2>3
        <3>2. (IsStored(x) => NewestFor(m, x, definitions[x]))'
            BY <1>1, <2>4 DEF IsStored, NewestFor
        <3>3. (\A q \in ImportersOf(m) :
                ImportAt(q, "stamped") /\ ~IsStored(x) => NewestFor(m, x, importer[q].write))'
            BY <1>1, <2>3 DEF ImportAt
        <3> QED BY <2>3, <2>4, <3>1, <3>2, <3>3 DEF PageOK
    <2>6. OnDisk(m)'
        BY DEF OnDisk
    <2> QED BY <2>5, <2>6 DEF ChildOK
<1> QED BY <1>5, <1>6 DEF PagesOK

LEMMA BeginTyped ==
    ASSUME CallsIInv, NEW r \in Importers, NEW m \in ChildModels, NEW x \in ChildXmls,
           BeginImport(r, m, x), UNCHANGED <<definitions, clock, callVars, taken>>,
           childDiagram' \in [ChildModels -> ChildXmls \cup {NoDiagram}],
           putBack' \in SUBSET ChildModels
    PROVE  ChildTyped'
<1>1. importer' \in [Importers -> ImportFrames]
    BY BeginKeepsRows
<1>2. unsettled' \in SUBSET ChildModels
    <2>1. \A s \in Rivals(m, x) : importer[s].model \in ChildModels
        BY IdleImporter DEF Rivals, CallsIInv
    <2> QED BY <2>1 DEF BeginImport, CallsIInv, ChildTyped
<1> QED BY <1>1, <1>2 DEF CallsIInv, ChildTyped, callVars

LEMMA SaveDiagramKeeps ==
    ASSUME CallsIInv, NEW r \in Importers, SaveDiagram(r)
    PROVE  CallsIInv'
<1>1. PICK m \in ChildModels, x \in ChildXmls :
        /\ BeginImport(r, m, x)
        /\ childDiagram' = [childDiagram EXCEPT ![m] = x]
        /\ putBack' = IF ~IsStored(x) /\ x \in CallingXmls THEN putBack \ {m}
                      ELSE IF x = childDiagram[m] \/ (~OnDisk(m) /\ x \in CallingXmls) THEN putBack
                      ELSE putBack \cup {m}
        /\ UNCHANGED <<definitions, clock, callVars, taken>>
    BY DEF SaveDiagram
<1>2. /\ childDiagram \in [ChildModels -> ChildXmls \cup {NoDiagram}]
      /\ putBack \in SUBSET ChildModels
    BY DEF CallsIInv, ChildTyped
<1>3. /\ childDiagram' \in [ChildModels -> ChildXmls \cup {NoDiagram}]
      /\ childDiagram'[m] = x
      /\ \A n \in ChildModels \ {m} : childDiagram'[n] = childDiagram[n]
    BY <1>1, <1>2
<1>4. putBack \ {m} \subseteq putBack' /\ putBack' \in SUBSET ChildModels
    BY <1>1, <1>2
<1>5. ASSUME m \notin putBack' \cup unsettled
      PROVE  x \in CallingXmls /\ (IsStored(x) => NewestFor(m, x, definitions[x]))
    <2>1. CASE ~IsStored(x) /\ x \in CallingXmls
        BY <2>1
    <2>2. CASE ~(~IsStored(x) /\ x \in CallingXmls) /\ x = childDiagram[m]
        <3>1. ChildOK(m) /\ OnDisk(m)
            BY <1>1, <1>5, <2>2 DEF CallsIInv, PagesOK, OnDisk
        <3> QED BY <2>2, <3>1 DEF ChildOK, PageOK
    <2>3. CASE /\ ~(~IsStored(x) /\ x \in CallingXmls) /\ x # childDiagram[m]
               /\ ~OnDisk(m) /\ x \in CallingXmls
        <3>1. ChildOK(m)
            BY <1>1, <1>5, <2>3 DEF CallsIInv, PagesOK
        <3>2. \A y \in ChildXmls : definitions[y].model # m
            BY <2>3, <3>1 DEF ChildOK
        <3> QED BY <2>3, <3>2 DEF NewestFor, ChildXmls
    <2> QED BY <1>1, <1>5, <2>1, <2>2, <2>3
<1>6. PagesOK'
    BY <1>1, <1>3, <1>4, <1>5, BeginKeepsPages
<1>7. ChildTyped'
    BY <1>1, <1>3, <1>4, BeginTyped
<1>8. ImportsOK' /\ RowsWritten' /\ IndexesOK'
    BY <1>1, BeginKeepsRows
<1> QED BY <1>6, <1>7, <1>8 DEF CallsIInv

LEMMA StartChildKeeps ==
    ASSUME CallsIInv, NEW r \in Importers, StartChild(r)
    PROVE  CallsIInv'
<1>1. PICK m \in ChildModels :
        /\ OnDisk(m) /\ BeginImport(r, m, childDiagram[m])
        /\ UNCHANGED <<childDiagram, definitions, clock, callVars, putBack, taken>>
    BY DEF StartChild
<1>2. PICK x \in ChildXmls : x = childDiagram[m]
    BY <1>1 DEF CallsIInv, ChildTyped, OnDisk
<1>3. BeginImport(r, m, x) /\ UNCHANGED <<definitions, clock, callVars, taken>>
    BY <1>1, <1>2
<1>4. ASSUME m \notin putBack' \cup unsettled
      PROVE  x \in CallingXmls /\ (IsStored(x) => NewestFor(m, x, definitions[x]))
    <2>1. PageOK(m, x)
        BY <1>1, <1>2, <1>4 DEF CallsIInv, PagesOK, ChildOK
    <2> QED BY <2>1 DEF PageOK
<1>5. PagesOK'
    BY <1>1, <1>2, <1>3, <1>4, BeginKeepsPages
<1>6. ChildTyped'
    BY <1>1, <1>3, BeginTyped DEF CallsIInv, ChildTyped
<1>7. ImportsOK' /\ RowsWritten' /\ IndexesOK'
    BY <1>3, BeginKeepsRows
<1> QED BY <1>5, <1>6, <1>7 DEF CallsIInv

-----------------------------------------------------------------------------
(***************************************************************************)
(* Rows that are written                                                   *)
(***************************************************************************)

LEMMA StampImportKeeps ==
    ASSUME CallsIInv, NEW r \in Importers, StampImport(r)
    PROVE  CallsIInv'
<1> DEFINE Numbers == {definitions[y].id : y \in ChildXmls}
                      \cup {importer[s].write.id : s \in Importers}
<1>1. PICK x, m : x = importer[r].xml /\ m = importer[r].model
    OBVIOUS
<1>2. /\ m \in ChildModels /\ x \in ChildXmls /\ ImportAt(r, "importing")
      /\ \A s \in Importers : ~(ImportAt(s, "stamped") /\ importer[s].xml = x)
    BY <1>1, IdleImporter DEF StampImport, CallsIInv, ImportAt
<1>3. PICK w : w = [model |-> m, updated |-> clock',
                    id |-> IF IsStored(x) THEN definitions[x].id ELSE Greatest(Numbers) + 1,
                    created |-> IF IsStored(x) THEN definitions[x].created ELSE clock']
    OBVIOUS
<1>4. importer' = [importer EXCEPT ![r].pc = "stamped", ![r].write = w]
    BY <1>1, <1>3 DEF StampImport
<1>5. /\ UNCHANGED <<childDiagram, definitions, cached, call, possible, hidden, putBack, taken,
                     unsettled>>
      /\ clock' \in clock..MaxStamp
    BY DEF StampImport, callVars, childHistory
<1>6. clock \in Nat /\ clock >= 1 /\ clock' \in Nat /\ clock' >= clock
    <2>1. clock \in Nat /\ clock >= 1
        BY DEF CallsIInv, ChildTyped
    <2> QED BY <1>5, <2>1
<1>7. PICK n \in Nat : /\ \A y \in ChildXmls : definitions[y].id <= n
                       /\ \A s \in Importers : importer[s].write.id <= n
    BY DEF CallsIInv, RowsWritten
<1>8. /\ definitions \in [ChildXmls -> WrittenRows] /\ importer \in [Importers -> ImportFrames]
    BY DEF CallsIInv, ChildTyped
<1>9. /\ Greatest(Numbers) \in Nat /\ \A y \in ChildXmls : definitions[y].id <= Greatest(Numbers)
    <2>1. Numbers \in SUBSET Nat /\ \A k \in Numbers : k <= n
        BY <1>7, <1>8 DEF WrittenRows, ImportFrames
    <2>2. \A y \in ChildXmls : definitions[y].id \in Numbers
        OBVIOUS
    <2> HIDE DEF Numbers
    <2>3. Greatest(Numbers) \in Numbers \cup {0} /\ \A k \in Numbers : k <= Greatest(Numbers)
        BY <2>1, GreatestIsThere
    <2>4. PICK g \in Nat : g = Greatest(Numbers)
        BY ONLY <2>1, <2>3
    <2>5. \A k \in Numbers : k <= g
        BY ONLY <2>3, <2>4
    <2>6. \A y \in ChildXmls : definitions[y].id <= g
        BY ONLY <2>2, <2>5
    <2> QED BY ONLY <2>4, <2>6
<1>10. PICK g \in Nat : g = Greatest(Numbers)
    BY <1>9
<1> HIDE DEF Numbers
<1>11. /\ w.model = m /\ w.updated = clock'
       /\ IsStored(x) => w.id = definitions[x].id /\ w.created = definitions[x].created
       /\ ~IsStored(x) => w.id = g + 1 /\ w.created = clock'
    BY <1>3, <1>10
<1>12. \A y \in StoredIn(definitions) : IsWritten(definitions[y], clock)
    BY DEF CallsIInv, RowsWritten
<1>13. IsWritten(w, clock')
    <2>1. CASE IsStored(x)
        <3>1. x \in StoredIn(definitions)
            BY <1>2, <2>1 DEF StoredIn, IsStored
        <3> QED BY <1>2, <1>6, <1>11, <1>12, <2>1, <3>1 DEF IsWritten
    <2>2. CASE ~IsStored(x)
        BY <1>2, <1>6, <1>11, <2>2 DEF IsWritten
    <2> QED BY <2>1, <2>2
<1>14. w \in WrittenRows
    <2>1. w.id \in Nat /\ w.created \in Nat
        BY <1>2, <1>6, <1>8, <1>11 DEF WrittenRows
    <2>2. w = [model |-> w.model, id |-> w.id, created |-> w.created, updated |-> w.updated]
        BY <1>3
    <2> QED BY <1>2, <1>6, <1>11, <2>1, <2>2 DEF WrittenRows
<1>15. /\ importer' \in [Importers -> ImportFrames]
       /\ importer'[r].pc = "stamped" /\ importer'[r].write = w
       /\ importer'[r].model = m /\ importer'[r].xml = x
       /\ \A s \in Importers \ {r} : importer'[s] = importer[s]
    BY <1>1, <1>4, <1>8, <1>14 DEF ImportFrames
<1>16. ChildTyped'
    BY <1>5, <1>6, <1>15 DEF CallsIInv, ChildTyped
<1>17. ImportsOK'
    <2>1. ASSUME NEW s \in Importers PROVE ImportOK(importer[s])'
        <3>1. CASE s = r
            BY <1>2, <1>5, <1>11, <1>13, <1>15, <3>1 DEF ImportOK, IsStored
        <3>2. CASE s # r
            <4>1. ImportOK(importer[s]) /\ importer'[s] = importer[s]
                BY <1>15, <3>2 DEF CallsIInv, ImportsOK
            <4>2. IsWritten(importer[s].write, clock) => IsWritten(importer[s].write, clock')
                BY <1>6 DEF IsWritten
            <4> QED BY <1>5, <4>1, <4>2 DEF ImportOK, IsStored
        <3> QED BY <3>1, <3>2
    <2>2. \A s, q \in Importers : (ImportAt(s, "stamped") /\ ImportAt(q, "stamped") /\ s # q
                => importer[s].xml # importer[q].xml)'
        BY <1>2, <1>15 DEF CallsIInv, ImportsOK, ImportAt
    <2> QED BY <2>1, <2>2 DEF ImportsOK
<1>18. RowsWritten'
    <2>1. \A y \in StoredIn(definitions) : IsWritten(definitions[y], clock')
        BY <1>6, <1>12 DEF IsWritten
    <2>2. PICK b \in Nat : b >= n /\ b >= w.id
        <3>1. w.id \in Nat
            BY <1>14 DEF WrittenRows
        <3>2. CASE w.id <= n
            BY <3>2
        <3>3. CASE w.id > n
            BY <3>1, <3>3
        <3> QED BY <3>1, <3>2, <3>3
    <2>3. \A y \in ChildXmls : definitions[y].id <= b
        BY <1>7, <1>8, <2>2 DEF WrittenRows
    <2>4. \A s \in Importers : importer'[s].write.id <= b
        BY <1>7, <1>8, <1>15, <2>2 DEF WrittenRows, ImportFrames
    <2> QED BY <1>5, <2>1, <2>3, <2>4 DEF CallsIInv, RowsWritten
<1>19. IndexesOK'
    BY <1>5 DEF CallsIInv, IndexesOK
<1>20. \A y \in ChildXmls : ~IsStored(x) /\ definitions[y].model \in ChildModels
            => RowNewer(w, definitions[y])
    <2>1. SUFFICES ASSUME NEW y \in ChildXmls, ~IsStored(x), definitions[y].model \in ChildModels
                   PROVE  RowNewer(w, definitions[y])
        OBVIOUS
    <2>2. y \in StoredIn(definitions)
        BY <2>1, NoRowIsOne DEF StoredIn
    <2>3. definitions[y].created <= clock' /\ definitions[y].id < w.id
        <3>1. definitions[y].id <= g /\ definitions[y].id \in Nat
            BY <1>8, <1>9, <1>10 DEF WrittenRows
        <3> QED BY <1>6, <1>11, <1>12, <2>1, <2>2, <3>1 DEF IsWritten
    <2> QED BY <1>6, <1>8, <1>11, <2>1, <2>3 DEF RowNewer, WrittenRows
<1>21. ASSUME NEW p \in ChildModels \ (putBack \cup unsettled)' PROVE ChildOK(p)'
    <2>1. ChildOK(p)
        BY <1>5 DEF CallsIInv, PagesOK
    <2>2. ImportersOf(p)' = ImportersOf(p)
        BY <1>1, <1>15 DEF ImportersOf
    <2>3. CASE OnDisk(p)
        <3>1. PICK z : z = childDiagram[p]
            OBVIOUS
        <3>2. PageOK(p, z)
            BY <2>1, <2>3, <3>1 DEF ChildOK
        <3>3. \A q \in ImportersOf(p) : ImportAt(q, "stamped")' /\ ~IsStored(z) =>
                    NewestFor(p, z, importer'[q].write)
            <4>1. SUFFICES ASSUME NEW q \in ImportersOf(p), ImportAt(q, "stamped")', ~IsStored(z)
                           PROVE  NewestFor(p, z, importer'[q].write)
                OBVIOUS
            <4>2. CASE q = r
                <5>1. z = x
                    BY <1>1, <3>2, <4>1, <4>2 DEF PageOK
                <5> QED BY <1>15, <1>20, <4>1, <4>2, <5>1 DEF NewestFor, ChildXmls
            <4>3. CASE q # r
                BY <1>15, <3>2, <4>1, <4>3 DEF PageOK, ImportAt, ImportersOf
            <4> QED BY <4>2, <4>3
        <3>4. \A q \in Importers : /\ importer'[q].model = importer[q].model
                                    /\ importer'[q].xml = importer[q].xml
            BY <1>1, <1>15
        <3>5. \A q \in ImportersOf(p) : importer'[q].xml = z
                /\ \A s \in Importers \ {q} : importer'[s].model # p /\ importer'[s].xml # z
            BY <3>2, <3>4 DEF PageOK, ImportersOf
        <3>6. PageOK(p, z)'
            BY <1>5, <2>2, <3>2, <3>3, <3>5 DEF PageOK, NewestFor, IsStored
        <3> QED BY <1>5, <2>3, <3>1, <3>6 DEF ChildOK, OnDisk
    <2>4. CASE ~OnDisk(p)
        BY <1>5, <2>1, <2>2, <2>4 DEF ChildOK, OnDisk
    <2> QED BY <2>3, <2>4
<1> QED BY <1>16, <1>17, <1>18, <1>19, <1>21 DEF CallsIInv, PagesOK

\* A signature gets older only.
LEMMA OlderStays ==
    ASSUME NEW s, NEW t, NEW u, IsSignature(s), IsSignature(t), IsSignature(u),
           IsOlder(t, u), s = t \/ IsOlder(s, t)
    PROVE  IsOlder(s, u)
    BY DEF IsOlder, IsSignature

LEMMA CommitImportKeeps ==
    ASSUME CallsIInv, NEW r \in Importers, CommitImport(r)
    PROVE  CallsIInv'
<1>1. PICK x, m, w : x = importer[r].xml /\ m = importer[r].model /\ w = importer[r].write
    OBVIOUS
<1>2. /\ m \in ChildModels /\ x \in ChildXmls /\ ImportAt(r, "stamped")
      /\ w \in WrittenRows /\ w.model = m /\ IsWritten(w, clock)
      /\ IsStored(x) => w.id = definitions[x].id /\ w.created = definitions[x].created
    <2>1. ImportAt(r, "stamped") /\ ~ImportAt(r, "idle")
        BY DEF CommitImport, ImportAt
    <2>2. ImportOK(importer[r]) /\ importer[r] \in ImportFrames
        BY DEF CallsIInv, ImportsOK, ChildTyped
    <2>3. importer[r].pc = "stamped" /\ importer[r] # NoImport
        BY <2>1, NoImportIsOne DEF ImportAt
    <2> QED BY <1>1, <2>1, <2>2, <2>3 DEF ImportOK, ImportFrames
<1>3. /\ definitions' = [definitions EXCEPT ![x] = w]
      /\ hidden' = (hidden \/ (IsStored(x) /\ \E y \in ChildXmls : definitions[y].updated >= w.updated))
      /\ possible' = IF call.pc = "idle" THEN possible ELSE possible \cup {IndexOf(definitions')}
      /\ taken' = (taken \ {m}) \cup {n \in ChildModels \ {m} : childDiagram[n] = x}
      /\ importer' = [importer EXCEPT ![r] = NoImport]
      /\ UNCHANGED <<childDiagram, clock, cached, call, putBack, unsettled>>
    BY <1>1 DEF CommitImport
<1>4. /\ definitions \in [ChildXmls -> WrittenRows] /\ importer \in [Importers -> ImportFrames]
      /\ clock \in Nat /\ hidden \in BOOLEAN
    BY DEF CallsIInv, ChildTyped
<1>5. /\ definitions' \in [ChildXmls -> WrittenRows] /\ definitions'[x] = w
      /\ \A y \in ChildXmls \ {x} : definitions'[y] = definitions[y]
    BY <1>2, <1>3, <1>4
<1>6. /\ importer' \in [Importers -> ImportFrames] /\ importer'[r] = NoImport
      /\ \A s \in Importers \ {r} : importer'[s] = importer[s]
    BY <1>3, <1>4, NoImportIsOne
<1>7. ChildTyped'
    BY <1>3, <1>4, <1>5, <1>6 DEF CallsIInv, ChildTyped
<1>8. w # NoRow /\ w.model # NoChild
    BY <1>2, NoRowIsOne
<1>9. ImportsOK'
    <2>1. ASSUME NEW s \in Importers PROVE ImportOK(importer[s])'
        <3>1. CASE s = r
            BY <1>6, <3>1 DEF ImportOK
        <3>2. CASE s # r
            <4>1. ImportOK(importer[s]) /\ importer'[s] = importer[s]
                BY <1>6, <3>2 DEF CallsIInv, ImportsOK
            <4>2. importer[s].pc = "stamped" => importer[s].xml # x
                BY <1>1, <1>2, <3>2 DEF CallsIInv, ImportsOK, ImportAt
            <4>3. importer[s].pc = "stamped" /\ importer[s].xml \in ChildXmls =>
                    definitions'[importer[s].xml] = definitions[importer[s].xml]
                BY <1>5, <4>2
            <4> QED BY <1>3, <4>1, <4>3 DEF ImportOK, IsStored
        <3> QED BY <3>1, <3>2
    <2>2. \A s, q \in Importers : (ImportAt(s, "stamped") /\ ImportAt(q, "stamped") /\ s # q
                => importer[s].xml # importer[q].xml)'
        <3>1. ~ImportAt(r, "stamped")'
            BY <1>6, NoImportIsOne DEF ImportAt
        <3> QED BY <1>6, <3>1 DEF CallsIInv, ImportsOK, ImportAt
    <2> QED BY <2>1, <2>2 DEF ImportsOK
<1>10. StoredIn(definitions') = StoredIn(definitions) \cup {x}
    BY <1>2, <1>5, <1>8 DEF StoredIn
<1>11. RowsWritten'
    <2>1. IsFiniteSet(StoredIn(definitions'))
        BY <1>10, FS_AddElement DEF CallsIInv, RowsWritten
    <2>2. \A y \in StoredIn(definitions') : IsWritten(definitions'[y], clock)
        BY <1>2, <1>5, <1>10 DEF CallsIInv, RowsWritten, StoredIn
    <2>3. PICK n \in Nat : /\ \A y \in ChildXmls : definitions[y].id <= n
                           /\ \A s \in Importers : importer[s].write.id <= n
        BY DEF CallsIInv, RowsWritten
    <2>4. \A y \in ChildXmls : definitions'[y].id <= n
        BY <1>1, <1>5, <2>3
    <2>5. \A s \in Importers : importer'[s].write.id <= n
        BY <1>6, <2>3, NoImportIsOne, NoRowIsOne
    <2> QED BY <1>3, <2>1, <2>2, <2>3, <2>4, <2>5 DEF RowsWritten
<1>12. ~hidden' => IsOlder(SignatureOf(definitions), SignatureOf(definitions'))
    <2>1. SUFFICES ASSUME ~hidden'
                   PROVE  IsOlder(SignatureOf(definitions), SignatureOf(definitions'))
        OBVIOUS
    <2>2. PICK s, t : s = SignatureOf(definitions) /\ t = SignatureOf(definitions')
        OBVIOUS
    <2>3. /\ s[1] = Cardinality(StoredIn(definitions)) /\ s[1] \in Nat /\ s[4] \in Nat
          /\ s[4] \in {definitions[y].updated : y \in StoredIn(definitions)} \cup {0}
        BY <2>2, RowsAndSignature DEF CallsIInv
    <2>4. /\ t[1] = Cardinality(StoredIn(definitions')) /\ t[4] \in Nat
          /\ \A y \in StoredIn(definitions') : definitions'[y].updated <= t[4]
        <3>1. SignatureOf(definitions)' = SignatureOf(definitions')
            BY DEF SignatureOf
        <3>2. StoredIn(definitions)' = StoredIn(definitions')
            BY DEF StoredIn
        <3>3. PICK d \in [ChildXmls -> WrittenRows] : d = definitions'
            BY <1>5
        <3>4. \A y \in StoredIn(d) : d[y].updated \in 1..clock
            BY <1>3, <1>11, <3>2, <3>3 DEF RowsWritten, IsWritten
        <3>5. /\ SignatureOf(d)[1] = Cardinality(StoredIn(d))
              /\ SignatureOf(d)[4] \in {d[y].updated : y \in StoredIn(d)} \cup {0}
              /\ \A y \in StoredIn(d) : d[y].updated <= SignatureOf(d)[4]
            BY <1>4, <3>4, SignatureIs
        <3>6. t = SignatureOf(d)
            BY <2>2, <3>3
        <3>7. t[4] \in Nat
            BY <3>4, <3>5, <3>6
        <3> QED BY <3>3, <3>5, <3>6, <3>7
    <2>5. CASE IsStored(x)
        <3>1. x \in StoredIn(definitions)
            BY <1>2, <2>5 DEF IsStored, StoredIn
        <3>2. StoredIn(definitions') = StoredIn(definitions)
            BY <1>10, <3>1
        <3>3. w.updated <= t[4] /\ w.updated \in Nat /\ w.updated >= 1
            BY <1>2, <1>4, <1>5, <1>10, <2>4 DEF IsWritten
        <3>4. \A y \in ChildXmls : definitions[y].updated < w.updated
            <4>1. ~(IsStored(x) /\ \E y \in ChildXmls : definitions[y].updated >= w.updated)
                BY <1>3, <2>1
            <4>2. \A y \in ChildXmls : ~(definitions[y].updated >= w.updated)
                BY <2>5, <4>1
            <4>3. \A y \in ChildXmls : definitions[y].updated \in Nat
                BY <1>4 DEF WrittenRows
            <4> QED BY <3>3, <4>2, <4>3
        <3>5. s[4] < w.updated
            BY <2>3, <3>3, <3>4 DEF StoredIn
        <3> QED BY <2>2, <2>3, <2>4, <3>2, <3>3, <3>5 DEF IsOlder
    <2>6. CASE ~IsStored(x)
        <3>1. x \notin StoredIn(definitions)
            BY <2>6 DEF IsStored, StoredIn
        <3>2. Cardinality(StoredIn(definitions')) = Cardinality(StoredIn(definitions)) + 1
            BY <1>10, <3>1, FS_AddElement DEF CallsIInv, RowsWritten
        <3> QED BY <2>2, <2>3, <2>4, <3>2 DEF IsOlder
    <2> QED BY <2>5, <2>6
<1>13. IndexesOK'
    <2>1. IndexOf(definitions)' = IndexOf(definitions')
        BY DEF IndexOf
    <2>2. SignatureOf(definitions)' = SignatureOf(definitions')
        BY DEF SignatureOf
    <2>3. ~hidden' => ~hidden
        BY <1>3, <1>4
    <2>4. IsSignature(SignatureOf(definitions)) /\ IsSignature(SignatureOf(definitions'))
        <3>1. IsSignature(SignatureOf(definitions))
            BY RowsAndSignature DEF CallsIInv, IsSignature
        <3>2. PICK d \in [ChildXmls -> WrittenRows] : d = definitions'
            BY <1>5
        <3>3. \A y \in StoredIn(d) : d[y].updated \in 1..clock
            BY <1>3, <1>11, <3>2 DEF RowsWritten, IsWritten, StoredIn
        <3>4. /\ SignatureOf(d)[1] = Cardinality(StoredIn(d))
              /\ SignatureOf(d)[4] \in {d[y].updated : y \in StoredIn(d)} \cup {0}
            BY <1>4, <3>3, SignatureIs
        <3>5. SignatureOf(d)[4] \in Nat
            BY <3>3, <3>4
        <3>6. IsFiniteSet(StoredIn(d))
            BY <1>11, <3>2 DEF RowsWritten, StoredIn
        <3>7. SignatureOf(d)[1] \in Nat
            BY <3>4, <3>6, FS_CardinalityType
        <3> QED BY <3>1, <3>2, <3>5, <3>7 DEF IsSignature
    <2>5. IsSignature(cached.signature) /\ IsSignature(call.signature)
        BY DEF CallsIInv, ChildTyped
    <2>6. ~hidden' => IsOlder(cached.signature, SignatureOf(definitions'))
        BY <1>12, <2>3, <2>4, <2>5, OlderStays DEF CallsIInv, IndexesOK
    <2>7. ~hidden' /\ call.pc = "signed" => IsOlder(call.signature, SignatureOf(definitions'))
        BY <1>12, <2>3, <2>4, <2>5, OlderStays DEF CallsIInv, IndexesOK
    <2>8. call.pc # "idle" => IndexOf(definitions') \in possible'
        BY <1>3
    <2>9. call.pc = "indexed" /\ ~hidden' => call.index \in possible'
        BY <1>3, <2>3 DEF CallsIInv, IndexesOK
    <2> QED BY <1>3, <2>1, <2>2, <2>6, <2>7, <2>8, <2>9 DEF IndexesOK
<1>14. \A p : NewestFor(p, x, definitions[x]) /\ IsStored(x) => NewestFor(p, x, w)
    BY <1>2 DEF NewestFor, RowNewer
<1>15. ASSUME NEW p \in ChildModels \ (putBack \cup unsettled)', OnDisk(p) PROVE ChildOK(p)'
    <2>1. PICK z : z = childDiagram[p]
        OBVIOUS
    <2>2. PageOK(p, z) /\ z \in ChildXmls
        <3>1. ChildOK(p)
            BY <1>3, <1>15 DEF CallsIInv, PagesOK
        <3> QED BY <1>15, <2>1, <3>1 DEF ChildOK, PageOK, ChildXmls
    <2>3. CASE p = m
        <3>1. r \in ImportersOf(p)
            BY <1>1, <2>3 DEF ImportersOf
        <3>2. z = x /\ \A s \in Importers \ {r} : importer[s].model # p
            BY <1>1, <2>2, <3>1 DEF PageOK
        <3>3. ImportersOf(p)' = {}
            BY <1>2, <1>6, <2>3, <3>2, NoImportIsOne DEF ImportersOf
        <3>4. NewestFor(p, x, w)
            <4>1. CASE IsStored(x)
                BY <1>14, <2>2, <3>2, <4>1 DEF PageOK
            <4>2. CASE ~IsStored(x)
                BY <1>1, <1>2, <2>2, <3>1, <3>2, <4>2 DEF PageOK
            <4> QED BY <4>1, <4>2
        <3>5. NewestFor(p, x, definitions[x])'
            BY <1>5, <3>4 DEF NewestFor, ChildXmls
        <3>6. PageOK(p, x)'
            BY <1>2, <1>5, <1>8, <2>2, <2>3, <3>2, <3>3, <3>5 DEF PageOK, IsStored
        <3> QED BY <1>3, <1>15, <2>1, <3>2, <3>6 DEF ChildOK, OnDisk
    <2>4. CASE p # m /\ z = x
        <3>1. ImportersOf(p) = {}
            <4>1. SUFFICES ASSUME NEW q \in ImportersOf(p) PROVE FALSE
                OBVIOUS
            <4>2. q # r
                BY <1>1, <2>4, <4>1 DEF ImportersOf
            <4>3. importer[r].xml # z
                BY <2>2, <4>1, <4>2 DEF PageOK
            <4> QED BY <1>1, <2>4, <4>3
        <3>2. ImportersOf(p)' = {}
            BY <1>6, <3>1, NoImportIsOne DEF ImportersOf
        <3>3. IsStored(x) /\ NewestFor(p, x, definitions[x])
            BY <2>2, <2>4, <3>1 DEF PageOK
        <3>4. NewestFor(p, x, w)
            BY <1>14, <3>3
        <3>5. NewestFor(p, x, definitions[x])'
            BY <1>5, <3>4 DEF NewestFor, ChildXmls
        <3>6. p \in taken'
            BY <1>3, <2>1, <2>4
        <3>7. PageOK(p, x)'
            BY <1>5, <1>8, <2>2, <2>4, <3>2, <3>5, <3>6 DEF PageOK, IsStored
        <3> QED BY <1>3, <1>15, <2>1, <2>4, <3>7 DEF ChildOK, OnDisk
    <2>5. CASE p # m /\ z # x
        <3>1. ImportersOf(p)' = ImportersOf(p) /\ r \notin ImportersOf(p)
            BY <1>1, <1>6, <2>5, NoImportIsOne DEF ImportersOf
        <3>2. definitions'[z] = definitions[z] /\ (IsStored(z)' <=> IsStored(z))
            BY <1>5, <2>2, <2>5 DEF IsStored
        <3>3. \A y \in ChildXmls : definitions'[y].model = p =>
                definitions[y].model = p /\ definitions'[y] = definitions[y]
            BY <1>2, <1>5, <2>5
        <3>4. \A q \in ImportersOf(p) : importer'[q] = importer[q]
            BY <1>6, <3>1 DEF ImportersOf
        <3>5. (\A q \in ImportersOf(p) :
                /\ importer[q].xml = z
                /\ \A s \in Importers \ {q} : importer[s].model # p /\ importer[s].xml # z)'
            <4>1. NoImport.model # p /\ NoImport.xml # z
                BY <2>2, NoImportIsOne
            <4> QED BY <1>6, <2>2, <3>1, <3>4, <4>1 DEF PageOK
        <3>6. (IsStored(z) => NewestFor(p, z, definitions[z]))'
            <4>1. SUFFICES ASSUME IsStored(z), NEW y \in CallingXmls \ {z}, definitions'[y].model = p
                           PROVE  RowNewer(definitions'[z], definitions'[y])
                BY <3>2 DEF NewestFor
            <4>2. definitions[y].model = p /\ definitions'[y] = definitions[y]
                BY <3>3, <4>1 DEF ChildXmls
            <4>3. RowNewer(definitions[z], definitions[y])
                BY <2>2, <4>1, <4>2 DEF PageOK, NewestFor
            <4> QED BY <3>2, <4>2, <4>3
        <3>7. (\A q \in ImportersOf(p) :
                ImportAt(q, "stamped") /\ ~IsStored(z) => NewestFor(p, z, importer[q].write))'
            <4>1. SUFFICES ASSUME NEW q \in ImportersOf(p), ImportAt(q, "stamped"), ~IsStored(z),
                                  NEW y \in CallingXmls \ {z}, definitions'[y].model = p
                           PROVE  RowNewer(importer[q].write, definitions'[y])
                BY <3>1, <3>2, <3>4 DEF NewestFor, ImportAt
            <4>2. definitions[y].model = p /\ definitions'[y] = definitions[y]
                BY <3>3, <4>1 DEF ChildXmls
            <4>3. RowNewer(importer[q].write, definitions[y])
                BY <2>2, <4>1, <4>2 DEF PageOK, NewestFor
            <4> QED BY <4>2, <4>3
        <3>8. p \notin taken' => p \notin taken
            BY <1>3, <2>5
        <3>9. (p \notin taken /\ ImportersOf(p) = {} => definitions[z].model = p)'
            BY <2>2, <3>1, <3>2, <3>8 DEF PageOK
        <3>10. (~IsStored(z) => ImportersOf(p) # {})' /\ z \in CallingXmls
            BY <2>2, <3>1, <3>2 DEF PageOK
        <3>11. PageOK(p, z)'
            BY <3>5, <3>6, <3>7, <3>9, <3>10 DEF PageOK
        <3> QED BY <1>3, <1>15, <2>1, <3>11 DEF ChildOK, OnDisk
    <2> QED BY <2>3, <2>4, <2>5
<1>16. ASSUME NEW p \in ChildModels \ (putBack \cup unsettled)', ~OnDisk(p) PROVE ChildOK(p)'
    <2>1. ImportersOf(p) = {} /\ \A y \in ChildXmls : definitions[y].model # p
        BY <1>3, <1>16 DEF CallsIInv, PagesOK, ChildOK
    <2>2. p # m
        BY <1>1, <2>1 DEF ImportersOf
    <2>3. ImportersOf(p)' = {}
        BY <1>6, <2>1, NoImportIsOne DEF ImportersOf
    <2>4. \A y \in ChildXmls : definitions'[y].model # p
        BY <1>2, <1>5, <2>1, <2>2
    <2> QED BY <1>3, <1>16, <2>3, <2>4 DEF ChildOK, OnDisk
<1> QED BY <1>7, <1>9, <1>11, <1>13, <1>15, <1>16 DEF CallsIInv, PagesOK

LEMMA LoseImportKeeps ==
    ASSUME CallsIInv, NEW r \in Importers, LoseImport(r)
    PROVE  CallsIInv'
<1>1. PICK m : m = importer[r].model
    OBVIOUS
<1>2. m \in ChildModels
    BY <1>1, IdleImporter DEF LoseImport, CallsIInv
<1>3. /\ UNCHANGED <<childDiagram, definitions, clock, cached, call, possible, hidden, putBack, taken>>
      /\ unsettled' = unsettled \cup {m} /\ importer' = [importer EXCEPT ![r] = NoImport]
    BY <1>1 DEF LoseImport, callVars
<1>4. /\ importer' \in [Importers -> ImportFrames] /\ importer'[r] = NoImport
      /\ \A s \in Importers \ {r} : importer'[s] = importer[s]
    BY <1>3, NoImportIsOne DEF CallsIInv, ChildTyped
<1>5. ChildTyped'
    BY <1>2, <1>3, <1>4 DEF CallsIInv, ChildTyped
<1>6. ImportsOK'
    <2>1. ASSUME NEW s \in Importers PROVE ImportOK(importer[s])'
        BY <1>3, <1>4 DEF CallsIInv, ImportsOK, ImportOK, IsStored
    <2>2. \A s, q \in Importers : (ImportAt(s, "stamped") /\ ImportAt(q, "stamped") /\ s # q
                => importer[s].xml # importer[q].xml)'
        <3>1. ~ImportAt(r, "stamped")'
            BY <1>4, NoImportIsOne DEF ImportAt
        <3> QED BY <1>4, <3>1 DEF CallsIInv, ImportsOK, ImportAt
    <2> QED BY <2>1, <2>2 DEF ImportsOK
<1>7. RowsWritten'
    <2>1. PICK n \in Nat : /\ \A y \in ChildXmls : definitions[y].id <= n
                           /\ \A s \in Importers : importer[s].write.id <= n
        BY DEF CallsIInv, RowsWritten
    <2>2. \A s \in Importers : importer'[s].write.id <= n
        BY <1>4, <2>1, NoImportIsOne, NoRowIsOne
    <2> QED BY <1>3, <2>1, <2>2 DEF CallsIInv, RowsWritten
<1>8. IndexesOK'
    BY <1>3 DEF CallsIInv, IndexesOK
<1>9. ASSUME NEW p \in ChildModels \ (putBack \cup unsettled)' PROVE ChildOK(p)'
    <2>1. ChildOK(p) /\ p # m
        BY <1>3 DEF CallsIInv, PagesOK
    <2>2. /\ ImportersOf(p)' = ImportersOf(p) /\ r \notin ImportersOf(p)
          /\ \A q \in ImportersOf(p) : importer'[q] = importer[q]
        BY <1>1, <1>4, <2>1, NoImportIsOne DEF ImportersOf
    <2>3. ASSUME NEW q \in ImportersOf(p), NEW s \in Importers \ {q}
          PROVE  importer'[s].model # p /\ importer'[s].xml # childDiagram[p]
        <3>1. PageOK(p, childDiagram[p])
            BY <2>1, <2>3 DEF ChildOK
        <3>2. importer[s].model # p /\ importer[s].xml # childDiagram[p]
            BY <2>3, <3>1 DEF PageOK
        <3>3. NoImport.model # p /\ NoImport.xml # childDiagram[p]
            BY <3>1, NoImportIsOne DEF PageOK, ChildXmls
        <3> QED BY <1>4, <3>2, <3>3
    <2> QED BY <1>3, <2>1, <2>2, <2>3, PageStays
<1> QED BY <1>5, <1>6, <1>7, <1>8, <1>9 DEF CallsIInv, PagesOK

-----------------------------------------------------------------------------
(***************************************************************************)
(* Pages and calls                                                         *)
(***************************************************************************)

\* What is left of the invariant when neither rows nor imports change
LEMMA ImportsStay ==
    ASSUME CallsIInv, UNCHANGED <<definitions, importer, clock, unsettled, taken>>,
           putBack \subseteq putBack',
           \A m \in ChildModels \ putBack' : childDiagram'[m] = childDiagram[m]
    PROVE  ImportsOK' /\ RowsWritten' /\ PagesOK'
<1>1. ImportsOK'
    BY DEF CallsIInv, ImportsOK, ImportOK, IsStored, ImportAt
<1>2. RowsWritten'
    BY DEF CallsIInv, RowsWritten
<1>3. ASSUME NEW m \in ChildModels \ (putBack \cup unsettled)' PROVE ChildOK(m)'
    <2>1. ChildOK(m) /\ childDiagram'[m] = childDiagram[m]
        BY DEF CallsIInv, PagesOK
    <2>2. ImportersOf(m)' = ImportersOf(m)
        BY DEF ImportersOf
    <2>3. ASSUME NEW q \in ImportersOf(m), NEW s \in Importers \ {q}
          PROVE  importer'[s].model # m /\ importer'[s].xml # childDiagram[m]
        <3>1. PageOK(m, childDiagram[m])
            BY <2>1, <2>3 DEF ChildOK
        <3> QED BY <2>3, <3>1 DEF PageOK
    <2> QED BY <2>1, <2>2, <2>3, PageStays
<1> QED BY <1>1, <1>2, <1>3 DEF PagesOK

LEMMA PageKeeps ==
    ASSUME CallsIInv, SetChildStatus \/ DeleteChild
    PROVE  CallsIInv'
<1>1. /\ UNCHANGED <<definitions, importer, clock, cached, call, possible, hidden, taken, unsettled>>
      /\ putBack \subseteq putBack' /\ putBack' \in SUBSET ChildModels
      /\ childDiagram' \in [ChildModels -> ChildXmls \cup {NoDiagram}]
      /\ \A m \in ChildModels \ putBack' : childDiagram'[m] = childDiagram[m]
    BY DEF SetChildStatus, DeleteChild, callVars, childHistory, CallsIInv, ChildTyped
<1>2. ImportsOK' /\ RowsWritten' /\ PagesOK'
    BY <1>1, ImportsStay
<1>3. ChildTyped' /\ IndexesOK'
    BY <1>1 DEF CallsIInv, ChildTyped, IndexesOK
<1> QED BY <1>2, <1>3 DEF CallsIInv

LEMMA CallKeeps ==
    ASSUME CallsIInv, ReadSignature \/ LoadIndex \/ EndCall
    PROVE  CallsIInv'
<1>1. /\ UNCHANGED <<childDiagram, definitions, importer, clock, hidden, putBack, taken, unsettled>>
    BY DEF ReadSignature, LoadIndex, EndCall, importVars, childHistory
<1>2. ImportsOK' /\ RowsWritten' /\ PagesOK'
    BY <1>1, ImportsStay
<1>3. PICK now, rows : now = SignatureOf(definitions) /\ rows = IndexOf(definitions)
    OBVIOUS
<1>4. /\ SignatureOf(definitions)' = now /\ IndexOf(definitions)' = rows
      /\ IsSignature(now) /\ ~IsOlder(now, now)
    BY <1>1, <1>3, RowsAndSignature DEF CallsIInv, SignatureOf, IndexOf, IsSignature, IsOlder
<1>5. CASE ReadSignature
    <2>1. CASE cached.signature = now
        <3>1. /\ call' = [pc |-> "indexed", signature |-> cached.signature, index |-> cached.index]
              /\ possible' = {rows} /\ cached' = cached
            BY <1>3, <1>5, <2>1 DEF ReadSignature
        <3>2. ChildTyped'
            BY <1>1, <3>1 DEF CallsIInv, ChildTyped
        <3>3. ~hidden => cached.index = rows
            BY <1>3, <1>4, <2>1 DEF CallsIInv, IndexesOK
        <3>4. IndexesOK'
            BY <1>1, <1>3, <1>4, <2>1, <3>1, <3>3 DEF IndexesOK
        <3> QED BY <1>2, <3>2, <3>4 DEF CallsIInv
    <2>2. CASE cached.signature # now
        <3>1. /\ call' = [pc |-> "signed", signature |-> now, index |-> {}]
              /\ possible' = {rows} /\ cached' = cached
            BY <1>3, <1>5, <2>2 DEF ReadSignature, NoCall
        <3>2. ChildTyped'
            BY <1>1, <1>4, <3>1 DEF CallsIInv, ChildTyped
        <3>3. IndexesOK'
            BY <1>1, <1>3, <1>4, <3>1 DEF CallsIInv, IndexesOK
        <3> QED BY <1>2, <3>2, <3>3 DEF CallsIInv
    <2> QED BY <2>1, <2>2
<1>6. CASE LoadIndex
    <2>1. /\ call.pc = "signed" /\ cached' = [signature |-> call.signature, index |-> rows]
          /\ call' = [call EXCEPT !.pc = "indexed", !.index = rows] /\ possible' = possible
        BY <1>3, <1>6 DEF LoadIndex
    <2>2. PICK s : s = call.signature
        OBVIOUS
    <2>3. call = [pc |-> call.pc, signature |-> s, index |-> call.index] /\ IsSignature(s)
        BY <2>2 DEF CallsIInv, ChildTyped
    <2>4. call' = [pc |-> "indexed", signature |-> s, index |-> rows]
        <3>1. PICK p, i : call = [pc |-> p, signature |-> s, index |-> i]
            BY <2>3
        <3>2. call' = [[pc |-> p, signature |-> s, index |-> i] EXCEPT !.pc = "indexed", !.index = rows]
            BY <2>1, <3>1
        <3> QED BY ONLY <3>2
    <2>5. cached' = [signature |-> s, index |-> rows]
        BY <2>1, <2>2
    <2>6. ChildTyped'
        BY <1>1, <2>3, <2>4, <2>5 DEF CallsIInv, ChildTyped
    <2>7. rows \in possible /\ (~hidden => IsOlder(s, now) \/ s = now)
        BY <1>3, <2>1, <2>2 DEF CallsIInv, IndexesOK
    <2>8. IndexesOK'
        BY <1>1, <1>4, <2>1, <2>4, <2>5, <2>7 DEF IndexesOK
    <2> QED BY <1>2, <2>6, <2>8 DEF CallsIInv
<1>7. CASE EndCall
    <2>1. call' = NoCall /\ cached' = cached /\ possible' = {}
        BY <1>7 DEF EndCall
    <2>2. call' = [pc |-> "idle", signature |-> <<0, 0, 0, 0>>, index |-> {}]
        BY <2>1 DEF NoCall
    <2>3. ChildTyped'
        BY <1>1, <2>1, <2>2 DEF CallsIInv, ChildTyped, IsSignature
    <2>4. IndexesOK'
        BY <1>1, <2>1, <2>2 DEF CallsIInv, IndexesOK
    <2> QED BY <1>2, <2>3, <2>4 DEF CallsIInv
<1> QED BY <1>5, <1>6, <1>7

LEMMA CallsStart == CallActivitiesInit => CallsIInv
<1> SUFFICES ASSUME CallActivitiesInit PROVE CallsIInv
    OBVIOUS
<1>1. /\ childDiagram = [m \in ChildModels |-> NoDiagram]
      /\ definitions = [x \in ChildXmls |-> NoRow]
      /\ importer = [r \in Importers |-> NoImport]
      /\ clock = 1 /\ cached = NoIndex /\ call = NoCall
      /\ possible = {} /\ hidden = FALSE /\ putBack = {} /\ taken = {} /\ unsettled = {}
    BY DEF CallActivitiesInit
<1>2. ChildTyped
    <2>1. PICK z : z = <<0, 0, 0, 0>>
        OBVIOUS
    <2>2. IsSignature(z)
        BY <2>1 DEF IsSignature
    <2>3. /\ call = [pc |-> "idle", signature |-> z, index |-> {}] /\ cached.signature = z
        BY <1>1, <2>1 DEF NoCall, NoIndex
    <2>4. /\ childDiagram \in [ChildModels -> ChildXmls \cup {NoDiagram}]
          /\ definitions \in [ChildXmls -> WrittenRows] /\ importer \in [Importers -> ImportFrames]
        BY <1>1, NoRowIsOne, NoImportIsOne
    <2>5. /\ call.pc = "idle" /\ call.signature = z /\ call.index = {}
        BY ONLY <2>3
    <2>6. call = [pc |-> call.pc, signature |-> call.signature, index |-> call.index]
        BY ONLY <2>3, <2>5
    <2>7. hidden \in BOOLEAN
        BY <1>1, Zenon
    <2>8. clock \in Nat \ {0}
        BY <1>1
    <2>9. putBack \in SUBSET ChildModels /\ unsettled \in SUBSET ChildModels
        BY <1>1
    <2> QED BY ONLY <2>2, <2>3, <2>4, <2>5, <2>6, <2>7, <2>8, <2>9 DEF ChildTyped
<1>3. ImportsOK
    BY <1>1, NoImportIsOne DEF ImportsOK, ImportOK, ImportAt
<1>4. StoredIn(definitions) = {}
    BY <1>1 DEF StoredIn
<1>5. RowsWritten
    <2>1. /\ \A x \in ChildXmls : definitions[x].id <= 0
          /\ \A r \in Importers : importer[r].write.id <= 0
        BY <1>1, NoRowIsOne, NoImportIsOne
    <2> QED BY <1>4, <2>1, FS_EmptySet DEF RowsWritten
<1>6. IndexesOK
    <2>1. SignatureOf(definitions) = <<0, 0, 0, 0>>
        <3>1. Greatest({}) = 0
            BY DEF Greatest
        <3>2. /\ {definitions[x].id : x \in StoredIn(definitions)} = {}
              /\ {definitions[x].created : x \in StoredIn(definitions)} = {}
              /\ {definitions[x].updated : x \in StoredIn(definitions)} = {}
              /\ Cardinality(StoredIn(definitions)) = 0
            BY <1>4, FS_EmptySet
        <3>3. StoredIn(definitions) = {x \in ChildXmls : definitions[x] # NoRow}
            BY DEF StoredIn
        <3> QED BY <3>1, <3>2, <3>3 DEF SignatureOf
    <2>2. IndexOf(definitions) = {}
        BY <1>1 DEF IndexOf, ChildXmls
    <2> QED BY <1>1, <2>1, <2>2 DEF IndexesOK, NoIndex, NoCall
<1>7. ASSUME NEW m \in ChildModels PROVE ChildOK(m)
    BY <1>1, NoRowIsOne, NoImportIsOne DEF ChildOK, OnDisk, ImportersOf
<1> QED BY <1>2, <1>3, <1>5, <1>6, <1>7 DEF CallsIInv, PagesOK

LEMMA CallsStep ==
    ASSUME CallsIInv, [CallActivitiesNext]_childVars
    PROVE  CallsIInv'
<1>1. ASSUME NEW r \in Importers, SaveDiagram(r) PROVE CallsIInv'
    BY <1>1, SaveDiagramKeeps
<1>2. ASSUME NEW r \in Importers, StartChild(r) PROVE CallsIInv'
    BY <1>2, StartChildKeeps
<1>3. ASSUME NEW r \in Importers, StampImport(r) PROVE CallsIInv'
    BY <1>3, StampImportKeeps
<1>4. ASSUME NEW r \in Importers, CommitImport(r) PROVE CallsIInv'
    BY <1>4, CommitImportKeeps
<1>5. ASSUME NEW r \in Importers, LoseImport(r) PROVE CallsIInv'
    BY <1>5, LoseImportKeeps
<1>6. CASE SetChildStatus \/ DeleteChild
    BY <1>6, PageKeeps
<1>7. CASE ReadSignature \/ LoadIndex \/ EndCall
    BY <1>7, CallKeeps
<1>8. CASE UNCHANGED childVars
    <2>1. UNCHANGED <<childDiagram, definitions, importer, clock, cached, call, possible, hidden,
                      putBack, taken, unsettled>>
        BY <1>8 DEF childVars, importVars, callVars, childHistory
    <2>2. ImportsOK' /\ RowsWritten' /\ PagesOK'
        BY <2>1, ImportsStay
    <2>3. ChildTyped' /\ IndexesOK'
        BY <2>1 DEF CallsIInv, ChildTyped, IndexesOK
    <2> QED BY <2>2, <2>3 DEF CallsIInv
<1> QED BY <1>1, <1>2, <1>3, <1>4, <1>5, <1>6, <1>7, <1>8 DEF CallActivitiesNext

\* Of the newest rows of published models
LEMMA FoundIsShown ==
    ASSUME CallsIInv, NEW e \in MatchesByModel(IndexOf(definitions)),
           \A r \in Importers : importer[r].model # e.model,
           e.model \notin putBack \cup taken \cup unsettled
    PROVE  /\ e.model \in ChildModels /\ StatusOf(e.model) = "published"
           /\ e.xml \in CallingXmls /\ childDiagram[e.model] = e.xml
           /\ e = [model |-> definitions[e.xml].model, xml |-> e.xml,
                   at |-> <<definitions[e.xml].created, definitions[e.xml].id>>]
<1>1. PICK y \in CallingXmls :
        /\ definitions[y] # NoRow
        /\ e = [model |-> definitions[y].model, xml |-> y,
                at |-> <<definitions[y].created, definitions[y].id>>]
    BY DEF MatchesByModel, IndexOf
<1>2. PICK m : m = definitions[y].model
    OBVIOUS
<1>3. e.model = m /\ e.xml = y /\ StatusOf(m) = "published"
    BY <1>1, <1>2 DEF MatchesByModel
<1>4. m \in ChildModels
    BY <1>1, <1>2 DEF CallsIInv, RowsWritten, IsWritten, StoredIn, ChildXmls
<1>5. ImportersOf(m) = {}
    BY <1>3 DEF ImportersOf
<1>6. ChildOK(m)
    BY <1>3, <1>4 DEF CallsIInv, PagesOK
<1>7. PICK x : x = childDiagram[m] /\ PageOK(m, x)
    BY <1>1, <1>2, <1>6 DEF ChildOK, ChildXmls
<1>8. /\ x \in CallingXmls /\ IsStored(x) /\ definitions[x].model = m
      /\ NewestFor(m, x, definitions[x])
    BY <1>3, <1>5, <1>7 DEF PageOK
<1>9. x = y
    <2>1. SUFFICES ASSUME x # y PROVE FALSE
        OBVIOUS
    <2>2. RowNewer(definitions[x], definitions[y])
        BY <1>2, <1>8, <2>1 DEF NewestFor
    <2>3. PICK f : f = [model |-> definitions[x].model, xml |-> x,
                        at |-> <<definitions[x].created, definitions[x].id>>]
        OBVIOUS
    <2>4. f \in IndexOf(definitions)
        BY <1>8, <2>3 DEF IndexOf, IsStored
    <2>5. f.model = m /\ f.xml = x
        BY <1>8, <2>3
    <2>6. IsNewer(e, f)
        BY <1>3, <2>1, <2>4, <2>5 DEF MatchesByModel
    <2>7. /\ definitions[x].created \in Nat /\ definitions[x].id \in Nat
          /\ definitions[y].created \in Nat /\ definitions[y].id \in Nat
        BY <1>8 DEF CallsIInv, ChildTyped, WrittenRows, ChildXmls
    <2>8. RowNewer(definitions[y], definitions[x])
        BY <1>1, <2>3, <2>6 DEF IsNewer, RowNewer
    <2> QED BY <2>2, <2>7, <2>8 DEF RowNewer
<1> QED BY <1>1, <1>3, <1>4, <1>7, <1>9

LEMMA ShownIsFound ==
    ASSUME CallsIInv, NEW m \in ChildModels,
           {n \in ChildModels : StatusOf(n) = "published" /\ childDiagram[n] \in CallingXmls} = {m},
           \A n \in ChildModels : /\ \A r \in Importers : importer[r].model # n
                                  /\ n \notin putBack \cup taken \cup unsettled
    PROVE  Resolve(IndexOf(definitions)) = childDiagram[m]
<1>1. PICK x : x = childDiagram[m]
    OBVIOUS
<1>2. x \in CallingXmls /\ StatusOf(m) = "published" /\ OnDisk(m)
    BY <1>1 DEF OnDisk, ChildXmls
<1>3. PageOK(m, x) /\ ImportersOf(m) = {}
    BY <1>1, <1>2 DEF CallsIInv, PagesOK, ChildOK, ImportersOf
<1>4. IsStored(x) /\ definitions[x].model = m /\ NewestFor(m, x, definitions[x])
    BY <1>3 DEF PageOK
<1>5. PICK f : f = [model |-> definitions[x].model, xml |-> x,
                    at |-> <<definitions[x].created, definitions[x].id>>]
    OBVIOUS
<1>6. f \in IndexOf(definitions) /\ f.model = m
    BY <1>2, <1>4, <1>5 DEF IndexOf, IsStored
<1>7. ASSUME NEW g \in IndexOf(definitions), g.model = m, g # f PROVE IsNewer(f, g)
    <2>1. PICK y \in CallingXmls :
            g = [model |-> definitions[y].model, xml |-> y,
                 at |-> <<definitions[y].created, definitions[y].id>>]
        BY DEF IndexOf
    <2>2. y # x /\ definitions[y].model = m
        BY <1>5, <1>7, <2>1
    <2>3. RowNewer(definitions[x], definitions[y])
        BY <1>4, <2>2 DEF NewestFor
    <2> QED BY <1>5, <2>1, <2>3 DEF IsNewer, RowNewer
<1>8. f \in MatchesByModel(IndexOf(definitions))
    BY <1>2, <1>6, <1>7 DEF MatchesByModel
<1>9. ASSUME NEW e \in MatchesByModel(IndexOf(definitions)) PROVE e = f
    <2>1. e.model \in ChildModels
        <3>1. PICK y \in CallingXmls :
                definitions[y] # NoRow /\ e.model = definitions[y].model
            BY DEF MatchesByModel, IndexOf
        <3> QED BY <3>1 DEF CallsIInv, RowsWritten, IsWritten, StoredIn, ChildXmls
    <2>2. /\ StatusOf(e.model) = "published" /\ e.xml \in CallingXmls
          /\ childDiagram[e.model] = e.xml
          /\ e = [model |-> definitions[e.xml].model, xml |-> e.xml,
                  at |-> <<definitions[e.xml].created, definitions[e.xml].id>>]
        BY <2>1, FoundIsShown
    <2>3. e.model = m
        BY <2>1, <2>2
    <2>4. e.xml = x
        BY <1>1, <2>2, <2>3
    <2> QED BY <1>5, <2>2, <2>4
<1>10. MatchesByModel(IndexOf(definitions)) = {f}
    BY <1>8, <1>9
<1>11. Cardinality({f}) = 1 /\ (CHOOSE e \in {f} : TRUE) = f /\ f.xml = x
    BY <1>5, FS_Singleton
<1> QED BY <1>1, <1>10, <1>11 DEF Resolve

LEMMA CallsAreFound == CallsIInv => CallsFindTheChild
<1> SUFFICES ASSUME CallsIInv PROVE CallsFindTheChild
    OBVIOUS
<1>1. call.pc = "indexed" /\ ~hidden => call.index \in possible
    BY DEF CallsIInv, IndexesOK
<1>2. \A e \in MatchesByModel(IndexOf(definitions)) :
        (\A r \in Importers : importer[r].model # e.model) =>
        e.model \in putBack \cup taken \cup unsettled \/ childDiagram[e.model] = e.xml
    BY FoundIsShown
<1>3. \A m \in {n \in ChildModels : StatusOf(n) = "published" /\ childDiagram[n] \in CallingXmls} :
        /\ {n \in ChildModels : StatusOf(n) = "published" /\ childDiagram[n] \in CallingXmls} = {m}
        /\ \A n \in ChildModels : /\ \A r \in Importers : importer[r].model # n
                                  /\ n \notin putBack \cup taken \cup unsettled
        => Resolve(IndexOf(definitions)) = childDiagram[m]
    BY ShownIsFound
<1> QED BY <1>1, <1>2, <1>3 DEF CallsFindTheChild

(***************************************************************************)
(* However many models, diagrams and concurrent imports there are: a call  *)
(* activity finds what was stored at a moment since it began, whoever      *)
(* filled the cache, as long as updates are committed in the order of      *)
(* their stamps; of each published model it finds the diagram on the       *)
(* model's page, and the one model that has the process is what is called  *)
(* (_call_activity_definition_index, resolve_definition).                  *)
(***************************************************************************)
THEOREM CallsFindTheirModel == CallActivitiesSpec => []CallsFindTheChild
<1> QED BY CallsStart, CallsStep, CallsAreFound, PTL DEF CallActivitiesSpec

-----------------------------------------------------------------------------
(***************************************************************************)
(* TaskForms: what a submission writes and where its button leads.  Two    *)
(* invariants: what the last button met is the data with its outcome; and  *)
(* what was given stands in the data of the line, whose changes the chain  *)
(* of the engine's tasks adds up to.                                       *)
(***************************************************************************)

HIDE CallActivitiesAssumption
USE TaskFormsAssumption

(***************************************************************************)
(* The buttons of a gateway                                                *)
(***************************************************************************)

\* Every branch is of one entry; an entry without a condition is of the default branch.
EntriesOK(s, default) ==
    /\ DOMAIN s \in SUBSET Nat /\ IsFiniteSet(DOMAIN s) /\ default \in {0, 3}
    /\ \A i \in DOMAIN s :
        \/ s[i].cond \in Literals \cup {FormDriven} /\ s[i].branch \in {1, 2}
        \/ s[i].cond = "null" /\ s[i].branch = 3 /\ default = 3
    /\ \A i, j \in DOMAIN s : s[i].branch = s[j].branch => i = j

LEMMA OneEntryOK ==
    ASSUME NEW c \in Literals \cup {FormDriven}, NEW default \in {0, 3},
           NEW s, s = <<[cond |-> c, branch |-> 1]>>
    PROVE  EntriesOK(s, default)
<1>1. DOMAIN s = 1..1 /\ s[1] = [cond |-> c, branch |-> 1]
    OBVIOUS
<1>2. IsFiniteSet(1..1)
    BY 1 \in Int, 1 \in Int, FS_Interval
<1> QED BY <1>1, <1>2 DEF EntriesOK

LEMMA TwoEntriesOK ==
    ASSUME NEW c \in Literals \cup {FormDriven}, NEW d \in Literals \cup {FormDriven},
           NEW default \in {0, 3}, NEW s, s = ConditionsOf(c, d)
    PROVE  EntriesOK(s, default)
<1>1. /\ DOMAIN s = 1..2 /\ s[1] = [cond |-> c, branch |-> 1]
      /\ s[2] = [cond |-> d, branch |-> 2]
    BY DEF ConditionsOf
<1>2. IsFiniteSet(1..2)
    BY 1 \in Int, 2 \in Int, FS_Interval
<1> QED BY <1>1, <1>2 DEF EntriesOK

LEMMA ThreeEntriesOK ==
    ASSUME NEW c \in Literals \cup {FormDriven}, NEW d \in Literals \cup {FormDriven}, NEW s,
           s = <<DefaultEntry>> \o ConditionsOf(c, d) \/ s = Append(ConditionsOf(c, d), DefaultEntry)
    PROVE  EntriesOK(s, 3) /\ \E i \in DOMAIN s : s[i] = DefaultEntry
<1>1. PICK e, f, g : /\ e = [cond |-> c, branch |-> 1] /\ f = [cond |-> d, branch |-> 2]
                     /\ g = DefaultEntry
    OBVIOUS
<1>2. s = <<g, e, f>> \/ s = <<e, f, g>>
    BY <1>1 DEF ConditionsOf
<1>3. /\ e.cond = c /\ e.branch = 1 /\ f.cond = d /\ f.branch = 2
      /\ g.cond = "null" /\ g.branch = 3
    BY <1>1 DEF DefaultEntry
<1>4. IsFiniteSet(1..3)
    BY 1 \in Int, 3 \in Int, FS_Interval
<1>5. CASE s = <<g, e, f>>
    <2>1. DOMAIN s = 1..3 /\ s[1] = g /\ s[2] = e /\ s[3] = f
        BY <1>5
    <2> QED BY <1>1, <1>3, <1>4, <2>1 DEF EntriesOK
<1>6. CASE s = <<e, f, g>>
    <2>1. DOMAIN s = 1..3 /\ s[1] = e /\ s[2] = f /\ s[3] = g
        BY <1>6
    <2> QED BY <1>1, <1>3, <1>4, <2>1 DEF EntriesOK
<1> QED BY <1>2, <1>5, <1>6

LEMMA GatewaysOK ==
    ASSUME NEW g \in Gateways \cup {NoGateway}
    PROVE  EntriesOK(g.entries, g.default) /\ g.name \in {"id", "a"}
<1>1. CASE g = NoGateway
    <2>1. g.entries = <<>> /\ g.default = 0 /\ g.name = "id"
        BY <1>1 DEF NoGateway
    <2>2. DOMAIN g.entries = {}
        BY <2>1
    <2> QED BY <2>1, <2>2, FS_EmptySet DEF EntriesOK
<1>2. CASE g \in Gateways
    <2> DEFINE Conditions == Literals \cup {FormDriven}
               Defaults(entries) == IF \E i \in DOMAIN entries : entries[i] = DefaultEntry
                                    THEN {3} ELSE {0, 3}
               Shapes(first, second) ==
                    {<<[cond |-> first, branch |-> 1]>>, ConditionsOf(first, second),
                     <<DefaultEntry>> \o ConditionsOf(first, second),
                     Append(ConditionsOf(first, second), DefaultEntry)}
               Framed(kind, name, entries) ==
                    {[kind |-> kind, entries |-> entries, default |-> default, name |-> name] :
                        default \in Defaults(entries)}
    <2> DEFINE Entered == UNION {Shapes(first, second) :
                                 first \in Conditions, second \in Conditions}
    <2>1. Gateways = UNION {Framed(kind, name, entries) :
                kind \in {"exclusive", "inclusive"}, name \in {"id", "a"}, entries \in Entered}
        BY DEF Gateways
    <2> HIDE DEF Entered, Framed
    <2>2. PICK kind \in {"exclusive", "inclusive"}, name \in {"id", "a"}, entries \in Entered :
            g \in Framed(kind, name, entries)
        BY <1>2, <2>1
    <2> HIDE DEF Shapes, Conditions
    <2>3. PICK first \in Conditions, second \in Conditions : entries \in Shapes(first, second)
        BY <2>2 DEF Entered
    <2>4. first \in Literals \cup {FormDriven} /\ second \in Literals \cup {FormDriven}
        BY <2>3 DEF Conditions
    <2>5. PICK default \in {0, 3} :
            /\ g = [kind |-> kind, entries |-> entries, default |-> default, name |-> name]
            /\ (\E i \in DOMAIN entries : entries[i] = DefaultEntry) => default = 3
        <3>1. PICK default \in Defaults(entries) :
                g = [kind |-> kind, entries |-> entries, default |-> default, name |-> name]
            BY <2>2 DEF Framed
        <3>2. default \in {0, 3} /\
              ((\E i \in DOMAIN entries : entries[i] = DefaultEntry) => default = 3)
            BY <3>1
        <3> QED BY <3>1, <3>2
    <2>6. g.entries = entries /\ g.default = default /\ g.name = name
        BY <2>5
    <2>7. EntriesOK(entries, default)
        <3>1. CASE entries = <<[cond |-> first, branch |-> 1]>>
            BY <2>4, <3>1, OneEntryOK
        <3>2. CASE entries = ConditionsOf(first, second)
            BY <2>4, <3>2, TwoEntriesOK
        <3>3. CASE \/ entries = <<DefaultEntry>> \o ConditionsOf(first, second)
                   \/ entries = Append(ConditionsOf(first, second), DefaultEntry)
            <4>1. EntriesOK(entries, 3) /\ \E i \in DOMAIN entries : entries[i] = DefaultEntry
                BY <2>4, <3>3, ThreeEntriesOK
            <4> QED BY <2>5, <4>1
        <3> QED BY <2>3, <3>1, <3>2, <3>3 DEF Shapes
    <2> QED BY <2>6, <2>7
<1> QED BY <1>1, <1>2

\* Values as many as buttons: no two of them share one.
LEMMA ValuesDiffer ==
    ASSUME NEW S, IsFiniteSet(S), Cardinality({b.value : b \in S}) = Cardinality(S),
           NEW b \in S, NEW c \in S, b.value = c.value
    PROVE  b = c
<1> DEFINE T == {x.value : x \in S}
           f == [x \in S |-> x.value]
<1>1. f \in Surjection(S, T)
    BY DEF Surjection
<1>2. f \in Injection(S, T)
    <2> HIDE DEF f, T
    <2>1. (Cardinality(T) = Cardinality(S)) <=> (f \in Injection(S, T))
        BY <1>1, FS_Surjection
    <2>2. Cardinality(T) = Cardinality(S)
        BY DEF T
    <2> QED BY <2>1, <2>2
<1>3. f[b] = f[c]
    OBVIOUS
<1> HIDE DEF f, T
<1> QED BY <1>2, <1>3 DEF Injection, IsInjective

\* Buttons are made of entries one by one.
LEMMA OnesAreFinite ==
    ASSUME NEW S, IsFiniteSet(S), NEW f, DOMAIN f = S
    PROVE  IsFiniteSet({f[x] : x \in S})
<1> DEFINE T == {f[x] : x \in S}
           h == [x \in S |-> f[x]]
<1>1. h \in Surjection(S, T)
    BY DEF Surjection
<1> HIDE DEF h, T
<1>2. IsFiniteSet(T)
    BY <1>1, FS_Surjection
<1> QED BY <1>2 DEF T

LEMMA ButtonsAreFinite ==
    ASSUME NEW g \in Gateways \cup {NoGateway}
    PROVE  IsFiniteSet(outcomes_for_task(g))
<1>1. IsFiniteSet(DOMAIN g.entries) /\ g.default \in {0, 3}
    BY GatewaysOK DEF EntriesOK
<1>2. IsFiniteSet(EntriesOf(g))
    BY <1>1, OnesAreFinite DEF EntriesOf
<1> DEFINE L == {x \in EntriesOf(g) : x.cond \in Literals}
           D == {b \in {g.default} : b # 0 /\ ~DependsOnForm(g)}
<1>3. IsFiniteSet(L)
    BY <1>2, FS_Subset
<1>4. IsFiniteSet({[value |-> e.cond, branch |-> e.branch] : e \in L})
    <2> DEFINE f == [e \in L |-> [value |-> e.cond, branch |-> e.branch]]
    <2>1. {[value |-> e.cond, branch |-> e.branch] : e \in L} = {f[e] : e \in L} /\ DOMAIN f = L
        OBVIOUS
    <2> HIDE DEF L, f
    <2> QED BY <1>3, <2>1, OnesAreFinite
<1>5. IsFiniteSet(D)
    <2>1. IsFiniteSet({g.default})
        BY FS_Singleton
    <2>2. D \subseteq {g.default}
        OBVIOUS
    <2> QED BY <2>1, <2>2, FS_Subset
<1>6. IsFiniteSet({[value |-> DefaultValue(g), branch |-> b] : b \in D})
    <2> DEFINE f == [b \in D |-> [value |-> DefaultValue(g), branch |-> b]]
    <2>1. /\ {[value |-> DefaultValue(g), branch |-> b] : b \in D} = {f[b] : b \in D}
          /\ DOMAIN f = D
        OBVIOUS
    <2> HIDE DEF D, f
    <2> QED BY <1>5, <2>1, OnesAreFinite
<1>7. IsFiniteSet({[value |-> e.cond, branch |-> e.branch] : e \in L}
                  \cup {[value |-> DefaultValue(g), branch |-> b] : b \in D})
    <2> HIDE DEF L, D
    <2> QED BY <1>4, <1>6, FS_Union
<1> QED BY <1>7, FS_EmptySet DEF outcomes_for_task

-----------------------------------------------------------------------------
\* The entries that hold; of an exclusive gateway the engine looks at none behind the first.
HoldsAt(g, d) == {i \in DOMAIN g.entries : ~Raises(g.entries[i], d) /\ Matches(g.entries[i], d)}
SeenAt(g, d) ==
    {i \in DOMAIN g.entries : g.kind = "exclusive" => \A j \in HoldsAt(g, d) : j >= i}

LEMMA TakenIs ==
    ASSUME NEW g, NEW d
    PROVE  Taken(g, d) =
            IF \E i \in SeenAt(g, d) : Raises(g.entries[i], d) THEN {}
            ELSE IF HoldsAt(g, d) = {} THEN {g.default} \ {0}
            ELSE {g.entries[i].branch : i \in HoldsAt(g, d) \cap SeenAt(g, d)}
    BY DEF Taken, HoldsAt, SeenAt

LEMMA ButtonsAre ==
    ASSUME NEW g \in Gateways \cup {NoGateway}, NEW b \in outcomes_for_task(g)
    PROVE  \/ /\ \E i \in DOMAIN g.entries :
                    g.entries[i].cond \in Literals /\ b = [value |-> g.entries[i].cond,
                                                        branch |-> g.entries[i].branch]
           \/ /\ b = [value |-> g.name, branch |-> 3] /\ g.default = 3
              /\ ~DependsOnForm(g)
<1>1. EntriesOK(g.entries, g.default)
    BY GatewaysOK
<1> QED BY <1>1 DEF outcomes_for_task, EntriesOf, DefaultValue, EntriesOK

LEMMA ButtonOfEntry ==
    ASSUME NEW g, outcomes_for_task(g) # {}, NEW i \in DOMAIN g.entries,
           g.entries[i].cond \in Literals
    PROVE  [value |-> g.entries[i].cond, branch |-> g.entries[i].branch] \in outcomes_for_task(g)
    BY DEF outcomes_for_task, EntriesOf

LEMMA ButtonOfDefault ==
    ASSUME NEW g, outcomes_for_task(g) # {}, g.default = 3, ~DependsOnForm(g)
    PROVE  [value |-> g.name, branch |-> 3] \in outcomes_for_task(g)
    BY DEF outcomes_for_task, DefaultValue

\* Where a button leads that was sent
LEMMA ButtonLeads ==
    ASSUME NEW g \in Gateways \cup {NoGateway}, NEW d, "outcome" \in DOMAIN d,
           NEW b \in outcomes_for_task(g), d["outcome"] = b.value,
           Cardinality({x.value : x \in outcomes_for_task(g)}) = Cardinality(outcomes_for_task(g))
    PROVE  /\ ~DependsOnForm(g) => Taken(g, d) = {b.branch}
           /\ Taken(g, d) \subseteq
                {b.branch} \cup {e.branch : e \in {x \in EntriesOf(g) : x.cond = FormDriven}}
<1>1. EntriesOK(g.entries, g.default)
    BY GatewaysOK
<1>2. outcomes_for_task(g) # {} /\ IsFiniteSet(outcomes_for_task(g))
    BY ButtonsAreFinite
<1>3. \A c \in outcomes_for_task(g) : c.value = b.value => c = b
    BY <1>2, ValuesDiffer
<1>4. ASSUME NEW i \in DOMAIN g.entries, g.entries[i].cond \in Literals,
             g.entries[i].cond = b.value
      PROVE  g.entries[i].branch = b.branch
    <2>1. PICK c : c = [value |-> g.entries[i].cond, branch |-> g.entries[i].branch]
        OBVIOUS
    <2>2. c \in outcomes_for_task(g)
        BY <1>2, <1>4, <2>1, ButtonOfEntry
    <2> QED BY <1>3, <1>4, <2>1, <2>2
<1>5. \A i \in DOMAIN g.entries : Raises(g.entries[i], d) => g.entries[i].cond = FormDriven
    BY DEF Raises
<1>6. \A i \in HoldsAt(g, d) :
        \/ g.entries[i].cond \in Literals /\ g.entries[i].cond = b.value
        \/ g.entries[i].cond = FormDriven
    BY DEF HoldsAt, Matches
<1>7. \A i \in HoldsAt(g, d) : i \in DOMAIN g.entries
    BY DEF HoldsAt
<1>8. CASE ~DependsOnForm(g)
    <2>1. \A i \in DOMAIN g.entries : g.entries[i].cond # FormDriven
        BY <1>8 DEF DependsOnForm, EntriesOf
    <2>2. \A i \in SeenAt(g, d) : ~Raises(g.entries[i], d)
        BY <1>5, <2>1 DEF SeenAt
    <2>3. \A i \in HoldsAt(g, d) : g.entries[i].branch = b.branch
        BY <1>4, <1>6, <1>7, <2>1
    <2>4. Taken(g, d) = {b.branch}
        <3>1. CASE HoldsAt(g, d) = {}
            <4>1. ~\E i \in DOMAIN g.entries :
                    g.entries[i].cond \in Literals /\ g.entries[i].cond = b.value
                <5>1. SUFFICES ASSUME NEW i \in DOMAIN g.entries, g.entries[i].cond \in Literals,
                                      g.entries[i].cond = b.value
                               PROVE  i \in HoldsAt(g, d)
                    BY <3>1
                <5>2. FormDriven \notin Literals
                    BY DEF FormDriven, Literals
                <5> QED BY <5>1, <5>2 DEF HoldsAt, Raises, Matches
            <4>2. b = [value |-> g.name, branch |-> 3] /\ g.default = 3
                <5>1. ~\E i \in DOMAIN g.entries :
                        g.entries[i].cond \in Literals /\ b = [value |-> g.entries[i].cond,
                                                           branch |-> g.entries[i].branch]
                    BY <4>1
                <5> QED BY <5>1, ButtonsAre
            <4>3. Taken(g, d) = {g.default} \ {0}
                BY <2>2, <3>1, TakenIs
            <4> QED BY <4>2, <4>3
        <3>2. CASE HoldsAt(g, d) # {}
            <4>1. PICK i \in HoldsAt(g, d) : TRUE
                BY <3>2
            <4>2. \A j \in HoldsAt(g, d) : j = i /\ j \in Nat
                BY <1>1, <1>7, <2>3, <4>1 DEF EntriesOK
            <4>3. i \in SeenAt(g, d)
                BY <1>7, <4>1, <4>2 DEF SeenAt
            <4>4. HoldsAt(g, d) \cap SeenAt(g, d) = {i}
                BY <4>1, <4>2, <4>3
            <4>5. Taken(g, d) = {g.entries[j].branch : j \in {i}}
                BY <2>2, <3>2, <4>4, TakenIs
            <4> QED BY <2>3, <4>1, <4>5
        <3> QED BY <3>1, <3>2
    <2> QED BY <1>8, <2>4
<1>9. CASE DependsOnForm(g)
    <2>1. \E i \in DOMAIN g.entries :
            g.entries[i].cond \in Literals /\ b = [value |-> g.entries[i].cond,
                                               branch |-> g.entries[i].branch]
        BY <1>9, ButtonsAre
    <2>2. \A i \in HoldsAt(g, d) :
            \/ g.entries[i].branch = b.branch
            \/ g.entries[i] \in {x \in EntriesOf(g) : x.cond = FormDriven}
        BY <1>4, <1>6, <1>7 DEF EntriesOf
    <2>3. PICK k \in DOMAIN g.entries : g.entries[k].cond \in Literals /\ b.value = g.entries[k].cond
        BY <2>1
    <2>4. k \in HoldsAt(g, d)
        <3>1. FormDriven \notin Literals
            BY DEF FormDriven, Literals
        <3> QED BY <2>3, <3>1 DEF HoldsAt, Raises, Matches
    <2>5. Taken(g, d) \subseteq {g.entries[i].branch : i \in HoldsAt(g, d) \cap SeenAt(g, d)}
        BY <2>4, TakenIs
    <2>6. ASSUME NEW t \in Taken(g, d)
          PROVE  t \in {b.branch} \cup {e.branch : e \in {x \in EntriesOf(g) : x.cond = FormDriven}}
        <3>1. PICK i \in HoldsAt(g, d) : t = g.entries[i].branch
            BY <2>5, <2>6
        <3> QED BY <2>2, <3>1
    <2> QED BY <1>9, <2>6
<1> QED
    <2>1. CASE ~DependsOnForm(g)
        <3>1. Taken(g, d) = {b.branch}
            BY <1>8, <2>1
        <3> QED BY <3>1
    <2>2. CASE DependsOnForm(g)
        BY <1>9, <2>2
    <2> QED BY <2>1, <2>2

\* Where no branch depends on the form every branch has a button.
LEMMA BranchesHaveButtons ==
    ASSUME NEW g \in Gateways \cup {NoGateway}, ~DependsOnForm(g),
           Cardinality(BranchesOf(g)) > 1
    PROVE  {b.branch : b \in outcomes_for_task(g)} = BranchesOf(g)
<1>1. EntriesOK(g.entries, g.default)
    BY GatewaysOK
<1>2. \A i \in DOMAIN g.entries :
        \/ g.entries[i].cond \in Literals
        \/ g.entries[i].branch = 3 /\ g.default = 3
    BY <1>1 DEF EntriesOK, DependsOnForm, EntriesOf
<1>3. outcomes_for_task(g) =
        {[value |-> e.cond, branch |-> e.branch] : e \in {x \in EntriesOf(g) : x.cond \in Literals}}
        \cup {[value |-> DefaultValue(g), branch |-> b] : b \in {g.default} \ {0}}
    <2>1. /\ 1 \in Nat /\ ~(Cardinality(BranchesOf(g)) <= 1)
        <3>1. IsFiniteSet(BranchesOf(g))
            <4>1. IsFiniteSet(EntriesOf(g))
                BY <1>1, OnesAreFinite DEF EntriesOf, EntriesOK
            <4> DEFINE f == [e \in EntriesOf(g) |-> e.branch]
            <4>2. {f[e] : e \in EntriesOf(g)} = {e.branch : e \in EntriesOf(g)}
                OBVIOUS
            <4>3. IsFiniteSet({f[e] : e \in EntriesOf(g)})
                <5>1. DOMAIN f = EntriesOf(g)
                    OBVIOUS
                <5> HIDE DEF f
                <5> QED BY <4>1, <5>1, OnesAreFinite
            <4>4. IsFiniteSet({g.default} \ {0})
                BY FS_Singleton, FS_Subset
            <4> QED BY <4>2, <4>3, <4>4, FS_Union DEF BranchesOf
        <3>2. Cardinality(BranchesOf(g)) \in Nat
            BY <3>1, FS_CardinalityType
        <3> QED BY <3>2
    <2>2. {b \in {g.default} : b # 0 /\ ~DependsOnForm(g)} = {g.default} \ {0}
        OBVIOUS
    <2> QED BY <2>1, <2>2 DEF outcomes_for_task
<1>4. {b.branch : b \in outcomes_for_task(g)} =
        {e.branch : e \in {x \in EntriesOf(g) : x.cond \in Literals}} \cup ({g.default} \ {0})
    <2>1. ASSUME NEW b \in outcomes_for_task(g)
          PROVE  b.branch \in {e.branch : e \in {x \in EntriesOf(g) : x.cond \in Literals}}
                              \cup ({g.default} \ {0})
        BY <1>3, <2>1
    <2>2. ASSUME NEW e \in {x \in EntriesOf(g) : x.cond \in Literals}
          PROVE  \E b \in outcomes_for_task(g) : b.branch = e.branch
        <3>1. PICK b : b = [value |-> e.cond, branch |-> e.branch]
            OBVIOUS
        <3> QED BY <1>3, <2>2, <3>1
    <2>3. ASSUME NEW c \in {g.default} \ {0}
          PROVE  \E b \in outcomes_for_task(g) : b.branch = c
        <3>1. PICK b : b = [value |-> DefaultValue(g), branch |-> c]
            OBVIOUS
        <3> QED BY <1>3, <2>3, <3>1
    <2> QED BY <2>1, <2>2, <2>3
<1> QED BY <1>1, <1>2, <1>4 DEF BranchesOf, EntriesOf, EntriesOK

-----------------------------------------------------------------------------
(***************************************************************************)
(* Where the last button led, and by which data                            *)
(***************************************************************************)
DecisionOK ==
    /\ gateway \in Gateways \cup {NoGateway}
    /\ \/ decided = NotDecided
       \/ \E d : /\ "outcome" \in DOMAIN d /\ d["outcome"] = decided.value
                /\ decided.branches = Taken(gateway, d)

\* What a submission writes has the button that was sent.
LEMMA OutcomeIsWritten ==
    ASSUME NEW payload, "outcome" \in DOMAIN payload, NEW data,
           data = _nest_payload_under_task_variable(payload) ++ formData
    PROVE  "outcome" \in DOMAIN data /\ data["outcome"] = payload["outcome"]
<1>1. CASE ~formTask.variable
    BY <1>1 DEF _nest_payload_under_task_variable, ++
<1>2. CASE formTask.variable
    <2>1. PICK w, v : /\ w = Without(payload, DOMAIN payload \ {"outcome"})
                      /\ _nest_payload_under_task_variable(payload) = With(w, Variable, v)
        BY <1>2 DEF _nest_payload_under_task_variable
    <2>2. "outcome" \in DOMAIN w /\ w["outcome"] = payload["outcome"]
        BY <2>1 DEF Without
    <2> QED BY <2>1, <2>2 DEF With, ++, Single, Variable
<1> QED BY <1>1, <1>2

LEMMA DecisionNext ==
    ASSUME DecisionOK, [TaskFormsNext]_formVars
    PROVE  DecisionOK'
<1>1. CASE RunScript
    BY <1>1 DEF RunScript, DecisionOK
<1>2. CASE UNCHANGED formVars
    BY <1>2 DEF formVars, DecisionOK
<1>3. ASSUME NEW route, NEW raw, SubmitForm(route, raw) PROVE DecisionOK'
    <2>1. PICK payload, written, data :
            /\ payload = Without(AsSent(route, raw), _ENGINE_DATA_KEYS)
            /\ written = IF AsSent(route, raw) = NoData /\ route = "review" THEN NoData
                         ELSE _nest_payload_under_task_variable(payload)
            /\ data = written ++ formData
            /\ decided' = IF gateway.kind = "none" \/ "outcome" \notin DOMAIN payload THEN decided
                          ELSE [value |-> payload["outcome"], branches |-> Taken(gateway, data)]
            /\ gateway' = gateway
        BY <1>3 DEF SubmitForm
    <2>2. CASE gateway.kind = "none" \/ "outcome" \notin DOMAIN payload
        BY <2>1, <2>2 DEF DecisionOK
    <2>3. CASE "outcome" \in DOMAIN payload /\ gateway.kind # "none"
        <3>1. AsSent(route, raw) # NoData
            BY <2>1, <2>3 DEF Without, NoData
        <3>2. data = _nest_payload_under_task_variable(payload) ++ formData
            BY <2>1, <3>1
        <3>3. "outcome" \in DOMAIN data /\ data["outcome"] = payload["outcome"]
            BY <2>3, <3>2, OutcomeIsWritten
        <3>4. decided'.value = payload["outcome"] /\ decided'.branches = Taken(gateway, data)
            BY <2>1, <2>3
        <3>5. \E d : /\ "outcome" \in DOMAIN d /\ d["outcome"] = decided'.value
                     /\ decided'.branches = Taken(gateway, d)
            BY <3>3, <3>4
        <3> QED BY <2>1, <3>5 DEF DecisionOK
    <2> QED BY <2>2, <2>3
<1> QED BY <1>1, <1>2, <1>3 DEF TaskFormsNext

LEMMA DecisionMeans == DecisionOK => ButtonsDecide
<1> SUFFICES ASSUME DecisionOK PROVE ButtonsDecide
    OBVIOUS
<1>1. PICK g, buttons : g = gateway /\ buttons = outcomes_for_task(g)
    OBVIOUS
<1>2. g \in Gateways \cup {NoGateway}
    BY <1>1 DEF DecisionOK
<1>3. ASSUME NEW b \in buttons, decided.value = b.value,
             Cardinality({x.value : x \in buttons}) = Cardinality(buttons)
      PROVE  /\ ~DependsOnForm(g) => decided.branches = {b.branch}
             /\ decided.branches \subseteq
                    {b.branch} \cup {e.branch : e \in {x \in EntriesOf(g) : x.cond = FormDriven}}
    <2>1. decided # NotDecided
        <3>1. \A i \in DOMAIN g.entries : g.entries[i].cond \in Literals => g.entries[i].cond # "none"
            BY DEF Literals
        <3>2. g.name # "none"
            BY <1>2, GatewaysOK
        <3>3. b.value # "none"
            BY <1>1, <1>2, <1>3, <3>1, <3>2, ButtonsAre
        <3> QED BY <1>3, <3>3 DEF NotDecided
    <2>2. PICK d : /\ "outcome" \in DOMAIN d /\ d["outcome"] = decided.value
                   /\ decided.branches = Taken(g, d)
        BY <1>1, <2>1 DEF DecisionOK
    <2> QED BY <1>1, <1>2, <1>3, <2>2, ButtonLeads
<1>4. ~DependsOnForm(g) /\ Cardinality(BranchesOf(g)) > 1 =>
        {b.branch : b \in buttons} = BranchesOf(g)
    BY <1>1, <1>2, BranchesHaveButtons
<1> QED BY <1>1, <1>3, <1>4 DEF ButtonsDecide

(***************************************************************************)
(* Behind every gateway of the kinds that the backend looks at, after      *)
(* every line of tasks and scripts: a button leads to its branch alone,    *)
(* unless two buttons send one value or a branch depends on the form; and  *)
(* where none does, every branch has its button (outcomes_for_task,        *)
(* _default_flow_value, _nest_payload_under_task_variable).                *)
(***************************************************************************)
THEOREM ButtonsLeadThere == TaskFormsSpec => []ButtonsDecide
<1>1. TaskFormsInit => DecisionOK
    BY DEF TaskFormsInit, DecisionOK
<1> QED BY <1>1, DecisionNext, DecisionMeans, PTL DEF TaskFormsSpec

-----------------------------------------------------------------------------
(***************************************************************************)
(* The data of the line and what the engine serializes of it               *)
(***************************************************************************)
IsMap(f) == f = [k \in DOMAIN f |-> f[k]]
Follows(s, m, n) ==
    /\ \A j \in 1..n : IsMap(m[j])
    /\ n > 0 => s[1].updates = m[1]
    /\ \A j \in 2..n : s[j] = Serialized(m[j - 1], m[j])
DeltasOK ==
    /\ \E S : chain \in Seq(S)
    /\ \E S : scope \in Seq(S)
    /\ Len(chain) = Len(scope) /\ Len(scope) > 0
    /\ Follows(chain, scope, Len(scope))
    /\ scope[Len(scope)] = AsScope(formData)

StoreOK ==
    /\ "data_objects" \in DOMAIN formData /\ formData["data_objects"] = "store"
    /\ IsMap(formData)

AnswersOK ==
    /\ formTask.number \in Nat \ {0} /\ formTask.variable \in BOOLEAN /\ replaced \in BOOLEAN
    /\ ~replaced => given \subseteq Standing(AsScope(formData))

KeptIInv == DeltasOK /\ StoreOK /\ AnswersOK

\* What a task changed, put over what was there before, is what is there after it.
LEMMA DeltaIsApplied ==
    ASSUME NEW before, NEW after, IsMap(after)
    PROVE  Applied(Serialized(before, after), before) = after
<1>1. PICK entry : entry = Serialized(before, after)
    OBVIOUS
<1>2. PICK u : u = entry.updates
    OBVIOUS
<1>3. u = [k \in {k \in DOMAIN after : k \notin DOMAIN before \/ before[k] # after[k]} |-> after[k]]
    BY <1>1, <1>2 DEF Serialized
<1>4. entry.deletions = DOMAIN before \ DOMAIN after
    BY <1>1 DEF Serialized
<1>5. /\ DOMAIN u = {k \in DOMAIN after : k \notin DOMAIN before \/ before[k] # after[k]}
      /\ \A k \in DOMAIN u : u[k] = after[k]
    BY <1>3
<1>6. PICK w : w = u ++ before
    OBVIOUS
<1>7. DOMAIN w = DOMAIN u \cup DOMAIN before /\ \A k \in DOMAIN w : w[k] = IF k \in DOMAIN u THEN u[k] ELSE before[k]
    BY <1>6 DEF ++
<1>8. DOMAIN w \ (DOMAIN before \ DOMAIN after) = DOMAIN after
    BY <1>5, <1>7
<1>9. \A k \in DOMAIN after : w[k] = after[k]
    BY <1>5, <1>7, <1>8
<1>10. Without(w, DOMAIN before \ DOMAIN after) = [k \in DOMAIN after |-> w[k]]
    BY <1>8 DEF Without
<1>11. [k \in DOMAIN after |-> w[k]] = [k \in DOMAIN after |-> after[k]]
    BY <1>9
<1> QED BY <1>1, <1>2, <1>4, <1>6, <1>10, <1>11 DEF Applied, IsMap

\* Whatever function adds up the deltas gives what was in scope.
LEMMA DeltasAddUp ==
    ASSUME NEW s, NEW m, NEW n \in Nat, Follows(s, m, n), NEW i \in 1..n, NEW F,
           F = [j \in 1..i |-> IF j = 1 THEN s[1].updates ELSE Applied(s[j], F[j - 1])]
    PROVE  F[i] = m[i]
<1> DEFINE T == {j \in 1..i : F[j] # m[j]}
<1>1. SUFFICES ASSUME T # {} PROVE FALSE
    OBVIOUS
<1>2. PICK j \in T : \A k \in T : j <= k
    <2>1. T \in SUBSET Nat
        OBVIOUS
    <2> HIDE DEF T
    <2> QED BY <1>1, <2>1, LeastNumber
<1>3. j \in 1..i /\ F[j] # m[j] /\ j \in 1..n
    OBVIOUS
<1>4. CASE j = 1
    <2>1. F[1] = s[1].updates
        BY <1>3, <1>4
    <2> QED BY <1>3, <1>4, <2>1 DEF Follows
<1>5. CASE j # 1
    <2>1. j - 1 \in 1..i /\ j \in 2..n /\ j - 1 < j
        BY <1>3, <1>5
    <2>2. F[j - 1] = m[j - 1]
        <3>1. j - 1 \notin T
            <4> HIDE DEF T
            <4> QED BY <1>2, <1>3, <2>1
        <3> QED BY <2>1, <3>1
    <2>3. F[j] = Applied(s[j], F[j - 1])
        BY <1>3, <1>5
    <2>4. s[j] = Serialized(m[j - 1], m[j]) /\ IsMap(m[j])
        BY <1>3, <2>1 DEF Follows
    <2>5. Applied(Serialized(m[j - 1], m[j]), m[j - 1]) = m[j]
        BY <2>4, DeltaIsApplied
    <2> QED BY <1>3, <2>2, <2>3, <2>4, <2>5
<1> QED BY <1>4, <1>5

\* There is one: what was in scope.
LEMMA DeltasHaveSum ==
    ASSUME NEW s, NEW m, NEW n \in Nat, Follows(s, m, n), NEW i \in 1..n
    PROVE  \E F : F = [j \in 1..i |-> IF j = 1 THEN s[1].updates ELSE Applied(s[j], F[j - 1])]
<1>1. PICK F : F = [j \in 1..i |-> m[j]]
    OBVIOUS
<1>2. ASSUME NEW j \in 1..i
      PROVE  m[j] = IF j = 1 THEN s[1].updates ELSE Applied(s[j], F[j - 1])
    <2>1. CASE j = 1
        BY <2>1 DEF Follows
    <2>2. CASE j # 1
        <3>1. j - 1 \in 1..i /\ j \in 2..n /\ j \in 1..n
            BY <2>2
        <3>2. F[j - 1] = m[j - 1]
            BY <1>1, <3>1
        <3>3. s[j] = Serialized(m[j - 1], m[j]) /\ IsMap(m[j])
            BY <3>1 DEF Follows
        <3>4. Applied(Serialized(m[j - 1], m[j]), m[j - 1]) = m[j]
            BY <3>3, DeltaIsApplied
        <3> QED BY <2>2, <3>2, <3>3, <3>4
    <2> QED BY <2>1, <2>2
<1>3. F = [j \in 1..i |-> IF j = 1 THEN s[1].updates ELSE Applied(s[j], F[j - 1])]
    <2>1. [j \in 1..i |-> m[j]] = [j \in 1..i |-> IF j = 1 THEN s[1].updates ELSE Applied(s[j], F[j - 1])]
        BY <1>2
    <2> QED BY <1>1, <2>1
<1> QED BY <1>3

LEMMA DiagramShows ==
    ASSUME DeltasOK, NEW i \in DOMAIN chain
    PROVE  _task_data_from_workflow_state(i) = scope[i]
<1>1. PICK n \in Nat : n = Len(scope) /\ i \in 1..n
    <2>1. DOMAIN chain = 1..Len(chain) /\ Len(chain) \in Nat
        BY DEF DeltasOK
    <2> QED BY <2>1 DEF DeltasOK
<1>2. Follows(chain, scope, n)
    BY <1>1 DEF DeltasOK
<1> DEFINE IsSum(f) == f = [j \in 1..i |-> IF j = 1 THEN chain[1].updates
                                         ELSE Applied(chain[j], f[j - 1])]
           F == CHOOSE f : IsSum(f)
<1>3. F = [j \in 1..i |-> IF j = 1 THEN chain[1].updates ELSE Applied(chain[j], F[j - 1])]
    <2>1. \E f : IsSum(f)
        BY <1>1, <1>2, DeltasHaveSum
    <2> HIDE DEF IsSum
    <2>2. IsSum(F)
        BY <2>1
    <2> HIDE DEF F
    <2> QED BY <2>2 DEF IsSum
<1>4. _task_data_from_workflow_state(i) = F[i]
    BY DEF _task_data_from_workflow_state
<1> HIDE DEF F
<1>5. F[i] = scope[i]
    BY <1>1, <1>2, <1>3, DeltasAddUp
<1> QED BY <1>4, <1>5

\* Another element at the end
LEMMA SeqGrows ==
    ASSUME NEW s, \E S : s \in Seq(S), NEW e
    PROVE  /\ \E S : Append(s, e) \in Seq(S)
           /\ Len(s) \in Nat /\ Len(Append(s, e)) = Len(s) + 1
           /\ Append(s, e)[Len(s) + 1] = e
           /\ \A j \in 1..Len(s) : Append(s, e)[j] = s[j]
<1>1. PICK S : s \in Seq(S)
    OBVIOUS
<1>2. PICK T : T = S \cup {e}
    OBVIOUS
<1>3. s \in Seq(T)
    <2>1. PICK n \in Nat : s \in [1..n -> S]
        BY <1>1, SeqDef
    <2>2. s \in [1..n -> T]
        BY <1>2, <2>1
    <2> QED BY <2>1, <2>2, SeqDef
<1>4. e \in T
    BY <1>2
<1>5. /\ Append(s, e) \in Seq(T) /\ Len(s) \in Nat
      /\ Len(Append(s, e)) = Len(s) + 1
      /\ Append(s, e)[Len(s) + 1] = e
      /\ \A j \in 1..Len(s) : Append(s, e)[j] = s[j]
    BY <1>3, <1>4, AppendProperties
<1> QED BY <1>5

LEMMA AdvanceKeepsDeltas ==
    ASSUME DeltasOK, NEW data, Advance(data)
    PROVE  DeltasOK'
<1>1. PICK before, after, e :
        before = AsScope(formData) /\ after = AsScope(data) /\ e = Serialized(before, after)
    OBVIOUS
<1>2. chain' = Append(chain, e) /\ scope' = Append(scope, after) /\ formData' = data
    BY <1>1 DEF Advance
<1>3. IsMap(after)
    BY <1>1 DEF AsScope, Without, IsMap
<1>4. PICK n \in Nat : n = Len(scope) /\ n = Len(chain) /\ n > 0
    BY DEF DeltasOK
<1>5. /\ \E S : chain' \in Seq(S) /\ Len(chain') = n + 1 /\ chain'[n + 1] = e
      /\ \A j \in 1..n : chain'[j] = chain[j]
    <2>1. PICK s, t : s = chain /\ t = Append(s, e)
        OBVIOUS
    <2>2. \E S : s \in Seq(S)
        BY <2>1 DEF DeltasOK
    <2>3. /\ \E S : t \in Seq(S) /\ Len(t) = n + 1 /\ t[n + 1] = e
          /\ \A j \in 1..n : t[j] = s[j]
        <3>1. Len(s) = n
            BY <1>4, <2>1
        <3>2. /\ \E S : t \in Seq(S) /\ Len(t) = Len(s) + 1 /\ t[Len(s) + 1] = e
              /\ \A j \in 1..Len(s) : t[j] = s[j]
            BY ONLY <2>1, <2>2, SeqGrows
        <3> QED BY <3>1, <3>2
    <2> QED BY <1>2, <2>1, <2>3
<1>6. /\ \E S : scope' \in Seq(S) /\ Len(scope') = n + 1 /\ scope'[n + 1] = after
      /\ \A j \in 1..n : scope'[j] = scope[j]
    <2>1. PICK s, t : s = scope /\ t = Append(s, after)
        OBVIOUS
    <2>2. \E S : s \in Seq(S)
        BY <2>1 DEF DeltasOK
    <2>3. /\ \E S : t \in Seq(S) /\ Len(t) = n + 1 /\ t[n + 1] = after
          /\ \A j \in 1..n : t[j] = s[j]
        <3>1. Len(s) = n
            BY <1>4, <2>1
        <3>2. /\ \E S : t \in Seq(S) /\ Len(t) = Len(s) + 1 /\ t[Len(s) + 1] = after
              /\ \A j \in 1..Len(s) : t[j] = s[j]
            BY ONLY <2>1, <2>2, SeqGrows
        <3> QED BY <3>1, <3>2
    <2> QED BY <1>2, <2>1, <2>3
<1>7. Follows(chain, scope, n) /\ scope[n] = before
    BY <1>1, <1>4 DEF DeltasOK
<1>8. Follows(chain', scope', n + 1)
    <2>1. \A j \in 1..(n + 1) : IsMap(scope'[j])
        <3>1. TAKE j \in 1..(n + 1)
        <3>2. CASE j = n + 1
            BY <1>3, <1>6, <3>2
        <3>3. CASE j # n + 1
            <4>1. j \in 1..n
                BY <3>3
            <4> QED BY <1>6, <1>7, <4>1 DEF Follows
        <3> QED BY <3>2, <3>3
    <2>2. chain'[1].updates = scope'[1]
        <3>1. 1 \in 1..n
            BY <1>4
        <3> QED BY <1>4, <1>5, <1>6, <1>7, <3>1 DEF Follows
    <2>3. \A j \in 2..(n + 1) : chain'[j] = Serialized(scope'[j - 1], scope'[j])
        <3>1. TAKE j \in 2..(n + 1)
        <3>2. CASE j = n + 1
            <4>1. j - 1 = n /\ n \in 1..n
                BY <1>4, <3>2
            <4>2. scope'[j - 1] = before /\ scope'[j] = after /\ chain'[j] = e
                BY <1>5, <1>6, <1>7, <3>2, <4>1
            <4> QED BY <1>1, <4>2
        <3>3. CASE j # n + 1
            <4>1. j \in 2..n /\ j \in 1..n /\ j - 1 \in 1..n
                BY <3>3
            <4>2. scope'[j - 1] = scope[j - 1] /\ scope'[j] = scope[j] /\ chain'[j] = chain[j]
                BY <1>5, <1>6, <4>1
            <4>3. chain[j] = Serialized(scope[j - 1], scope[j])
                BY <1>7, <4>1 DEF Follows
            <4> QED BY <4>2, <4>3
        <3> QED BY <3>2, <3>3
    <2> QED BY <2>1, <2>2, <2>3 DEF Follows
<1>9. AsScope(formData)' = after
    BY <1>1, <1>2 DEF AsScope, Without
<1> QED BY <1>4, <1>5, <1>6, <1>8, <1>9 DEF DeltasOK

\* What stands: fields at the top, and what is under the variable
LEMMA StandingIs ==
    ASSUME NEW d, NEW a
    PROVE  a \in Standing(d) <=>
            \/ \E k \in DOMAIN d \cap FieldNames : a = <<FALSE, k>>
            \/ Variable \in DOMAIN d /\ \E k \in DOMAIN d[Variable] : a = <<TRUE, k>>
    BY DEF Standing

LEMMA ScopeStands == ASSUME NEW d PROVE Standing(AsScope(d)) = Standing(d)
<1>1. PICK w : w = AsScope(d)
    OBVIOUS
<1>2. DOMAIN w = DOMAIN d \ {"data_objects"} /\ \A k \in DOMAIN w : w[k] = d[k]
    BY <1>1 DEF AsScope, Without, _ENGINE_DATA_KEYS
<1>3. /\ DOMAIN w \cap FieldNames = DOMAIN d \cap FieldNames
      /\ Variable \in DOMAIN w <=> Variable \in DOMAIN d
      /\ Variable \in DOMAIN d => w[Variable] = d[Variable]
    BY <1>2 DEF FieldNames, Variable
<1> QED BY <1>1, <1>3 DEF Standing

\* With or without data on the task's own row the form opens with what is in scope.
LEMMA FormOpensWith ==
    ASSUME StoreOK
    PROVE  _prior_submission_values = AsScope(formData)
<1>1. CASE formTask.own /\ DOMAIN AsScope(formData) # {}
    BY <1>1 DEF _prior_submission_values, _task_data
<1>2. CASE formTask.own /\ DOMAIN AsScope(formData) = {}
    BY <1>2 DEF _prior_submission_values, _task_data, _process_data
<1>3. CASE ~formTask.own
    <2>1. DOMAIN _task_data = {}
        BY <1>3 DEF _task_data, NoData
    <2> QED BY <2>1 DEF _prior_submission_values, _process_data
<1> QED BY <1>1, <1>2, <1>3

LEMMA RunScriptKeeps ==
    ASSUME KeptIInv, RunScript
    PROVE  KeptIInv'
<1>1. PICK data : Advance(data) /\
        \/ \E k \in DOMAIN AsScope(formData) :
            /\ data = Without(formData, {k})
            /\ given' = {a \in given : a # <<FALSE, k>> /\ (k = Variable => ~a[1])}
        \/ /\ Variable \notin DOMAIN formData
           /\ data = With(formData, Variable, Single("seed", "yes"))
           /\ given' = given \cup {<<TRUE, "seed">>}
    BY DEF RunScript
<1>2. PICK own \in BOOLEAN : formTask' = [formTask EXCEPT !.own = own]
    BY DEF RunScript
<1>3. replaced' = replaced /\ formData' = data
    BY <1>1 DEF RunScript, Advance
<1>4. DeltasOK'
    BY <1>1, AdvanceKeepsDeltas DEF KeptIInv
<1>5. /\ formTask'.number \in Nat \ {0} /\ formTask'.variable \in BOOLEAN /\ replaced' \in BOOLEAN
    BY <1>2, <1>3 DEF KeptIInv, AnswersOK
<1>6. ~replaced => given \subseteq Standing(formData)
    BY ScopeStands DEF KeptIInv, AnswersOK
<1>7. CASE \E k \in DOMAIN AsScope(formData) :
            /\ data = Without(formData, {k})
            /\ given' = {a \in given : a # <<FALSE, k>> /\ (k = Variable => ~a[1])}
    <2>1. PICK k \in DOMAIN AsScope(formData) :
            /\ data = Without(formData, {k})
            /\ given' = {a \in given : a # <<FALSE, k>> /\ (k = Variable => ~a[1])}
        BY <1>7
    <2>2. k # "data_objects"
        BY <2>1 DEF AsScope, Without, _ENGINE_DATA_KEYS
    <2>3. DOMAIN data = DOMAIN formData \ {k} /\ \A j \in DOMAIN data : data[j] = formData[j]
        BY <2>1 DEF Without
    <2>4. StoreOK'
        BY <1>3, <2>1, <2>2, <2>3 DEF KeptIInv, StoreOK, IsMap, Without
    <2>5. ASSUME ~replaced, NEW a \in given' PROVE a \in Standing(data)
        <3>1. a \in given /\ a # <<FALSE, k>> /\ (k = Variable => ~a[1])
            BY <2>1, <2>5
        <3>2. a \in Standing(formData)
            BY <1>6, <2>5, <3>1
        <3>3. CASE \E j \in DOMAIN formData \cap FieldNames : a = <<FALSE, j>>
            <4>1. PICK j \in DOMAIN formData \cap FieldNames : a = <<FALSE, j>>
                BY <3>3
            <4>2. j \in DOMAIN data
                BY <2>3, <3>1, <4>1
            <4> QED BY <4>1, <4>2, StandingIs
        <3>4. CASE Variable \in DOMAIN formData /\ \E j \in DOMAIN formData[Variable] : a = <<TRUE, j>>
            <4>1. k # Variable
                BY <3>1, <3>4
            <4>2. Variable \in DOMAIN data /\ data[Variable] = formData[Variable]
                BY <2>3, <3>4, <4>1
            <4> QED BY <3>4, <4>2, StandingIs
        <3> QED BY <3>2, <3>3, <3>4, StandingIs
    <2>6. ~replaced => given' \subseteq Standing(AsScope(data))
        BY <2>5, ScopeStands
    <2>7. Standing(AsScope(formData))' = Standing(AsScope(data))
        BY <1>3 DEF Standing, AsScope, Without
    <2> QED BY <1>3, <1>4, <1>5, <2>4, <2>6, <2>7 DEF KeptIInv, AnswersOK
<1>8. CASE /\ Variable \notin DOMAIN formData
           /\ data = With(formData, Variable, Single("seed", "yes"))
           /\ given' = given \cup {<<TRUE, "seed">>}
    <2>1. PICK v : v = Single("seed", "yes") /\ data = Single(Variable, v) ++ formData
        BY <1>8 DEF With
    <2>2. DOMAIN v = {"seed"}
        BY <2>1 DEF Single
    <2>3. /\ DOMAIN data = DOMAIN formData \cup {Variable} /\ data[Variable] = v
          /\ \A j \in DOMAIN formData : data[j] = formData[j]
          /\ IsMap(data)
        BY <1>8, <2>1 DEF Single, ++, IsMap
    <2>4. StoreOK'
        BY <1>3, <2>3 DEF KeptIInv, StoreOK
    <2>5. ASSUME ~replaced, NEW a \in given' PROVE a \in Standing(data)
        <3>1. CASE a = <<TRUE, "seed">>
            BY <2>2, <2>3, <3>1, StandingIs
        <3>2. CASE a # <<TRUE, "seed">>
            <4>1. a \in Standing(formData)
                BY <1>6, <1>8, <2>5, <3>2
            <4>2. PICK j \in DOMAIN formData \cap FieldNames : a = <<FALSE, j>>
                BY <1>8, <4>1, StandingIs
            <4> QED BY <2>3, <4>2, StandingIs
        <3> QED BY <3>1, <3>2
    <2>6. ~replaced => given' \subseteq Standing(AsScope(data))
        BY <2>5, ScopeStands
    <2>7. Standing(AsScope(formData))' = Standing(AsScope(data))
        BY <1>3 DEF Standing, AsScope, Without
    <2> QED BY <1>3, <1>4, <1>5, <2>4, <2>6, <2>7 DEF KeptIInv, AnswersOK
<1> QED BY <1>1, <1>7, <1>8

\* A field and a button: the store is not in what is submitted.
LEMMA PayloadIs ==
    ASSUME NEW route, NEW raw \in Payloads, formTask.number \in 1..3,
           NEW payload, payload = Without(AsSent(route, raw), _ENGINE_DATA_KEYS)
    PROVE  DOMAIN payload \subseteq {"f", "g", "h", "outcome"}
<1>1. PICK k : k = FieldOf(formTask.number)
    OBVIOUS
<1>2. k \in {"f", "g", "h"}
    BY <1>1 DEF FieldOf
<1>3. PICK f, b : /\ raw = f ++ b
                  /\ f \in {NoData} \cup {Single(k, v) : v \in {"yes", "no", "null"}}
                  /\ \/ b = NoData
                     \/ \E c \in outcomes_for_task(gateway) : b = Single("outcome", c.value)
                     \/ b = Single("data_objects", "sent")
    BY <1>1 DEF Payloads
<1>4. DOMAIN f \subseteq {k}
    BY <1>3 DEF Single, NoData
<1>5. DOMAIN b \subseteq {"outcome", "data_objects"}
    BY <1>3 DEF Single, NoData
<1>6. DOMAIN raw \subseteq {"f", "g", "h", "outcome", "data_objects"}
    BY <1>2, <1>3, <1>4, <1>5 DEF ++
<1>7. DOMAIN AsSent(route, raw) \subseteq DOMAIN raw
    BY DEF AsSent
<1> QED BY <1>6, <1>7 DEF Without, _ENGINE_DATA_KEYS

\* What a submission writes under the variable, if it fits: what was there, and the fields.
LEMMA WrittenUnderVariable ==
    ASSUME NEW payload, formTask.variable, NEW w, w = _nest_payload_under_task_variable(payload)
    PROVE  /\ DOMAIN w \subseteq {"outcome", Variable} /\ Variable \in DOMAIN w
           /\ IsDict(w[Variable]) =>
                DOMAIN w[Variable] = (DOMAIN payload \ {"outcome"}) \cup DOMAIN Existing
<1>1. PICK u, v, x : /\ u = Without(payload, DOMAIN payload \ {"outcome"})
                     /\ x = Without(payload, {"outcome"}) ++ Existing
                     /\ v = _stringify_metadata_value(x) /\ w = With(u, Variable, v)
    BY DEF _nest_payload_under_task_variable
<1>2. DOMAIN u \subseteq {"outcome"}
    BY <1>1 DEF Without
<1>3. DOMAIN w = DOMAIN u \cup {Variable} /\ w[Variable] = v
    BY <1>1 DEF With, ++, Single
<1>4. DOMAIN x = (DOMAIN payload \ {"outcome"}) \cup DOMAIN Existing
    BY <1>1 DEF Without, ++
<1>5. IsDict(v) => v = x
    BY <1>1 DEF _stringify_metadata_value, CutText, IsDict, Single
<1> QED BY <1>2, <1>3, <1>4, <1>5

LEMMA SubmitKeeps ==
    ASSUME KeptIInv, NEW route, NEW raw \in Payloads, SubmitForm(route, raw)
    PROVE  KeptIInv'
<1>1. PICK payload, written, data :
        /\ payload = Without(AsSent(route, raw), _ENGINE_DATA_KEYS)
        /\ written = IF AsSent(route, raw) = NoData /\ route = "review" THEN NoData
                     ELSE _nest_payload_under_task_variable(payload)
        /\ data = written ++ formData
    OBVIOUS
<1>2. /\ formTask.number <= MaxFormTasks /\ Advance(data)
      /\ given' = given \cup {<<formTask.variable, k>> : k \in DOMAIN payload \ {"outcome"}}
      /\ replaced' = (replaced \/ /\ Variable \in DOMAIN written
                                  /\ \/ ~IsDict(written[Variable])
                                     \/ Variable \in DOMAIN formData /\ Existing = NoData)
      /\ \E variable, own \in BOOLEAN :
            formTask' = [number |-> formTask.number + 1, variable |-> variable, own |-> own]
    BY <1>1 DEF SubmitForm
<1>3. DeltasOK' /\ formData' = data
    BY <1>2, AdvanceKeepsDeltas DEF KeptIInv, Advance
<1>4. formTask.number \in 1..3
    BY <1>2 DEF KeptIInv, AnswersOK
<1>5. formTask'.number \in 1..4 /\ formTask'.variable \in BOOLEAN /\ replaced' \in BOOLEAN
    <2>1. formTask'.number = formTask.number + 1 /\ formTask'.variable \in BOOLEAN
        BY <1>2
    <2>2. formTask'.number \in 1..4
        BY <1>4, <2>1
    <2>3. replaced' \in BOOLEAN
        BY <1>2, Zenon
    <2> QED BY <2>1, <2>2, <2>3
<1>6. DOMAIN payload \subseteq {"f", "g", "h", "outcome"}
    BY <1>1, <1>4, PayloadIs
<1>7. \/ written = NoData /\ payload = NoData
      \/ ~formTask.variable /\ written = payload
      \/ formTask.variable /\ written = _nest_payload_under_task_variable(payload)
    <2>1. AsSent(route, raw) = NoData => payload = NoData
        BY <1>1 DEF Without, NoData
    <2> QED BY <1>1, <2>1 DEF _nest_payload_under_task_variable
<1>8. DOMAIN NoData = {}
    BY DEF NoData
<1>9. DOMAIN written \subseteq {"f", "g", "h", "outcome", Variable}
    BY <1>6, <1>7, <1>8, WrittenUnderVariable
<1>10. /\ DOMAIN data = DOMAIN written \cup DOMAIN formData
       /\ \A k \in DOMAIN written : data[k] = written[k]
       /\ \A k \in DOMAIN formData \ DOMAIN written : data[k] = formData[k]
       /\ IsMap(data)
    BY <1>1 DEF ++, IsMap
<1>11. StoreOK'
    <2>1. "data_objects" \in DOMAIN formData \ DOMAIN written
        BY <1>9 DEF KeptIInv, StoreOK, Variable
    <2> QED BY <1>3, <1>10, <2>1 DEF KeptIInv, StoreOK
<1>12. ASSUME ~replaced' PROVE given' \subseteq Standing(data)
    <2>1. /\ ~replaced
          /\ Variable \in DOMAIN written => /\ IsDict(written[Variable])
                                            /\ Variable \in DOMAIN formData => Existing # NoData
        BY <1>2, <1>12
    <2>2. given \subseteq Standing(formData)
        BY <2>1, ScopeStands DEF KeptIInv, AnswersOK
    <2>3. ASSUME Variable \in DOMAIN written, Variable \in DOMAIN formData
          PROVE  Existing = formData[Variable]
        <3>1. Existing # NoData
            BY <2>1, <2>3
        <3>2. Variable \in DOMAIN _task_data /\ Existing = _task_data[Variable]
            BY <3>1 DEF Existing
        <3>3. _task_data = AsScope(formData)
            BY <3>2 DEF _task_data, NoData
        <3> QED BY <3>2, <3>3 DEF AsScope, Without
    <2>4. Variable \notin {"f", "g", "h", "outcome"}
        BY DEF Variable
    <2>5. ASSUME Variable \in DOMAIN written
          PROVE  /\ formTask.variable
                 /\ DOMAIN written[Variable] = (DOMAIN payload \ {"outcome"}) \cup DOMAIN Existing
        <3>1. formTask.variable /\ written = _nest_payload_under_task_variable(payload)
            BY <1>6, <1>7, <1>8, <2>4, <2>5
        <3> QED BY <2>1, <2>5, <3>1, WrittenUnderVariable
    <2>6. ASSUME NEW a \in given PROVE a \in Standing(data)
        <3>1. CASE \E k \in DOMAIN formData \cap FieldNames : a = <<FALSE, k>>
            BY <1>10, <3>1, StandingIs
        <3>2. CASE Variable \in DOMAIN formData /\ \E k \in DOMAIN formData[Variable] : a = <<TRUE, k>>
            <4>1. Variable \in DOMAIN data /\ DOMAIN formData[Variable] \subseteq DOMAIN data[Variable]
                <5>1. CASE Variable \in DOMAIN written
                    BY <1>10, <2>3, <2>5, <3>2, <5>1
                <5>2. CASE Variable \notin DOMAIN written
                    BY <1>10, <3>2, <5>2
                <5> QED BY <5>1, <5>2
            <4> QED BY <3>2, <4>1, StandingIs
        <3> QED BY <2>2, <2>6, <3>1, <3>2, StandingIs
    <2>7. ASSUME NEW k \in DOMAIN payload \ {"outcome"}
          PROVE  <<formTask.variable, k>> \in Standing(data)
        <3>1. k \in FieldNames
            BY <1>6 DEF FieldNames
        <3>2. payload # NoData
            BY <1>8
        <3>3. CASE formTask.variable
            <4>1. written = _nest_payload_under_task_variable(payload)
                BY <1>7, <3>2, <3>3
            <4>2. Variable \in DOMAIN written
                BY <3>3, <4>1, WrittenUnderVariable
            <4>3. Variable \in DOMAIN data /\ k \in DOMAIN data[Variable]
                BY <1>10, <2>5, <4>2
            <4>4. <<TRUE, k>> \in Standing(data)
                BY <4>3, StandingIs
            <4>5. formTask.variable = TRUE
                BY <3>3 DEF KeptIInv, AnswersOK
            <4> QED BY <4>4, <4>5
        <3>4. CASE ~formTask.variable
            <4>1. k \in DOMAIN data
                BY <1>7, <1>10, <3>2, <3>4
            <4>2. <<FALSE, k>> \in Standing(data)
                BY <3>1, <4>1, StandingIs
            <4>3. formTask.variable = FALSE
                BY <3>4 DEF KeptIInv, AnswersOK
            <4> QED BY <4>2, <4>3
        <3> QED BY <3>3, <3>4
    <2> QED BY <1>2, <2>6, <2>7
<1>13. Standing(AsScope(formData))' = Standing(data)
    <2>1. Standing(AsScope(formData))' = Standing(AsScope(data))
        BY <1>3 DEF Standing, AsScope, Without
    <2> QED BY <2>1, ScopeStands
<1>14. AnswersOK'
    BY <1>5, <1>12, <1>13 DEF AnswersOK
<1> QED BY <1>3, <1>11, <1>14 DEF KeptIInv

LEMMA KeptStart == TaskFormsInit => KeptIInv
<1> SUFFICES ASSUME TaskFormsInit PROVE KeptIInv
    OBVIOUS
<1>1. /\ formTask.number \in {1, MaxFormTasks} /\ formTask.variable \in BOOLEAN
      /\ formData \in {Single("data_objects", "store")} \cup
            {Single("outcome", "a") ++ Single(FieldOf(1), v) ++ Single("data_objects", "store") :
                v \in {"yes", "no"}}
      /\ chain = <<Serialized(NoData, AsScope(formData))>> /\ scope = <<AsScope(formData)>>
      /\ given = Standing(formData) /\ replaced = FALSE
    BY DEF TaskFormsInit
<1>2. StoreOK
    <2>1. CASE formData = Single("data_objects", "store")
        BY <2>1 DEF StoreOK, Single, IsMap
    <2>2. CASE \E v : formData = Single("outcome", "a") ++ Single(FieldOf(1), v)
                                 ++ Single("data_objects", "store")
        <3>1. PICK f, g : formData = f ++ g /\ g = Single("data_objects", "store")
                          /\ \E v : f = Single("outcome", "a") ++ Single(FieldOf(1), v)
            BY <2>2
        <3>2. FieldOf(1) = "f"
            BY DEF FieldOf
        <3>3. DOMAIN f \subseteq {"outcome", "f"}
            BY <3>1, <3>2 DEF Single, ++
        <3>4. "data_objects" \in DOMAIN g /\ g["data_objects"] = "store"
            BY <3>1 DEF Single
        <3>5. "data_objects" \notin DOMAIN f
            BY <3>3
        <3> QED BY <3>1, <3>4, <3>5 DEF StoreOK, IsMap, ++
    <2> QED BY <1>1, <2>1, <2>2
<1>3. DeltasOK
    <2>1. PICK a, e : a = AsScope(formData) /\ e = Serialized(NoData, a)
        OBVIOUS
    <2>2. IsMap(a)
        BY <2>1 DEF AsScope, Without, IsMap
    <2>3. chain = <<e>> /\ scope = <<a>>
        BY <1>1, <2>1
    <2>4. chain \in Seq({e}) /\ scope \in Seq({a})
        BY <2>3
    <2>5. Len(chain) = 1 /\ Len(scope) = 1 /\ chain[1] = e /\ scope[1] = a
        BY <2>3
    <2>6. e.updates = a
        <3>1. {k \in DOMAIN a : k \notin DOMAIN NoData \/ NoData[k] # a[k]} = DOMAIN a
            BY DEF NoData
        <3>2. e.updates = [k \in DOMAIN a |-> a[k]]
            BY <2>1, <3>1 DEF Serialized
        <3> QED BY <2>2, <3>2 DEF IsMap
    <2>7. Follows(chain, scope, 1)
        BY <2>2, <2>5, <2>6 DEF Follows
    <2> QED BY <2>1, <2>4, <2>5, <2>7 DEF DeltasOK
<1>4. AnswersOK
    <2>1. formTask.number \in Nat \ {0}
        BY <1>1
    <2>2. replaced \in BOOLEAN
        BY <1>1, Zenon
    <2>3. given \subseteq Standing(AsScope(formData))
        BY <1>1, ScopeStands
    <2> QED BY <1>1, <2>1, <2>2, <2>3 DEF AnswersOK
<1> QED BY <1>2, <1>3, <1>4 DEF KeptIInv

LEMMA KeptNext ==
    ASSUME KeptIInv, [TaskFormsNext]_formVars
    PROVE  KeptIInv'
<1>1. CASE RunScript
    BY <1>1, RunScriptKeeps
<1>2. ASSUME NEW route \in {"review", "complete", "external"}, NEW raw \in Payloads,
             SubmitForm(route, raw)
      PROVE  KeptIInv'
    BY <1>2, SubmitKeeps
<1>3. CASE UNCHANGED formVars
    <2>1. UNCHANGED <<formTask, formData, chain, gateway, scope, given, replaced, decided>>
        BY <1>3 DEF formVars
    <2>2. DeltasOK'
        BY <2>1 DEF KeptIInv, DeltasOK, AsScope, Without
    <2>3. StoreOK'
        BY <2>1 DEF KeptIInv, StoreOK, IsMap
    <2>4. AnswersOK'
        BY <2>1 DEF KeptIInv, AnswersOK, Standing, AsScope, Without
    <2> QED BY <2>2, <2>3, <2>4 DEF KeptIInv
<1> QED BY <1>1, <1>2, <1>3 DEF TaskFormsNext

LEMMA KeptMeans == KeptIInv => AnswersAreKept
<1> SUFFICES ASSUME KeptIInv PROVE AnswersAreKept
    OBVIOUS
<1>1. _prior_submission_values = AsScope(formData)
    BY FormOpensWith DEF KeptIInv
<1>2. "data_objects" \notin DOMAIN AsScope(formData)
    BY DEF AsScope, Without, _ENGINE_DATA_KEYS
<1>3. \A i \in DOMAIN chain : _task_data_from_workflow_state(i) = scope[i]
    BY DiagramShows DEF KeptIInv
<1> QED BY <1>1, <1>2, <1>3 DEF KeptIInv, AnswersOK, StoreOK, AnswersAreKept

(***************************************************************************)
(* For any number of tasks and scripts and any width of a value: what was  *)
(* answered or seeded stays and the next form opens with it, unless a      *)
(* variable was cut or replaced; no submission writes or shows the         *)
(* engine's store; and the deltas of the serialized tasks add up, for a    *)
(* chain of any length, to what was in scope at each of them               *)
(* (_prior_submission_values, submit_task_review,                          *)
(* _task_data_from_workflow_state).                                        *)
(***************************************************************************)
THEOREM AnswersStay == TaskFormsSpec => []AnswersAreKept
<1> QED BY KeptStart, KeptNext, KeptMeans, PTL DEF TaskFormsSpec
=============================================================================
