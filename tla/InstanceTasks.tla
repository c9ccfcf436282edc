--------------------------- MODULE InstanceTasks ---------------------------
(***************************************************************************)
(* Completing a user task over HTTP (workflow/__init__.py, app.py): the    *)
(* engine completes the task and runs the automatic step behind it in the  *)
(* session of the request.  When that step fails the host commits the      *)
(* completion all the same and says so; every other failure is rolled back *)
(* when the request is torn down.  Requests of several users, or of one    *)
(* user who tries again, work on the same task, and administrators         *)
(* suspend, resume, terminate and delete the instance meanwhile.           *)
(***************************************************************************)
EXTENDS Naturals, FiniteSets

CONSTANTS
    Submissions,        \* concurrent requests that complete the task
    NoSubmission,
    MaxDeaths           \* bound: requests that die on their way

ASSUME InstanceTasksAssumption == NoSubmission \notin Submissions /\ MaxDeaths \in Nat

VARIABLES
    instance,           \* ProcessInstanceModel.status, "deleted" without a row
    completed,          \* WorkItemModel.completed
    completions,        \* committed task_completed events of the task
    rowLock,            \* the request whose flush holds the row of the work item
    submission,         \* per request: where it is and what its session has written
    deaths,
    \* history: answers given; a request died with its completion committed
    told, unheard

taskVars == <<instance, completed, completions, rowLock, submission, deaths, told, unheard>>

_TERMINAL_INSTANCE_STATUSES == {"complete", "error", "terminated"}
OpenStatuses == {"user_input_required", "suspended"}
Statuses == _TERMINAL_INSTANCE_STATUSES \cup OpenStatuses \cup {"deleted"}

Idle0 == [pc |-> "idle", done |-> FALSE, event |-> FALSE, status |-> "unchanged", code |-> 0]

InstanceTasksTypeOK ==
    /\ instance \in Statuses
    /\ completed \in BOOLEAN /\ unheard \in BOOLEAN
    /\ completions \in 0..Cardinality(Submissions)
    /\ rowLock \in Submissions \cup {NoSubmission}
    /\ submission \in [Submissions -> [
            pc : {"idle", "advancing", "serviceFailed", "scriptFailed", "established",
                  "recorded", "committed", "closing"},
            done : BOOLEAN, event : BOOLEAN, status : {"unchanged", "complete", "error"},
            code : {0, 200, 409, 500}]]
    /\ deaths \in 0..MaxDeaths
    /\ told \subseteq {"ok", "submitted", "refused", "failed"}

InstanceTasksInit ==
    /\ instance = "user_input_required" /\ completed = FALSE /\ completions = 0
    /\ rowLock = NoSubmission
    /\ submission = [s \in Submissions |-> Idle0]
    /\ deaths = 0 /\ told = {} /\ unheard = FALSE

InSubmission(s, pc) == submission[s].pc = pc
Becomes(s, r) == submission' = [submission EXCEPT ![s] = r]
AdvancesTo(s, pc) == Becomes(s, [submission[s] EXCEPT !.pc = pc])
\* The response is built; the session still holds what was written.
Answers(s, r, code, answer) ==
    /\ Becomes(s, [r EXCEPT !.pc = "closing", !.code = code])
    /\ told' = told \cup {answer}
LockFree(s) == rowLock \in {s, NoSubmission}
ReleaseLock(s) == rowLock' = IF rowLock = s THEN NoSubmission ELSE rowLock

storedTask == <<instance, completed, completions>>

(***************************************************************************)
(* The engine                                                              *)
(***************************************************************************)

\* A suspended instance is refused by the host, a finished one or a completed task by the
\* engine (external).
Completable == instance = "user_input_required" /\ ~completed

StartComplete(s) ==
    /\ InSubmission(s, "idle") /\ instance # "deleted"
    /\ IF Completable THEN AdvancesTo(s, "advancing") /\ UNCHANGED told
       ELSE Answers(s, submission[s], 409, "refused")
    /\ UNCHANGED <<storedTask, rowLock, deaths, unheard>>

\* The step behind the task runs; the engine writes the item, its event and the new status.
\* The unique index lets one event of a task through.
AdvanceSucceeds(s) ==
    /\ InSubmission(s, "advancing") /\ LockFree(s)
    /\ rowLock' = s
    /\ LET written == [submission[s] EXCEPT !.done = TRUE, !.event = TRUE, !.status = "complete"]
       IN  IF completions = 0 /\ instance # "deleted" THEN Answers(s, written, 200, "ok")
           ELSE Answers(s, submission[s], 500, "failed")
    /\ UNCHANGED <<storedTask, deaths, unheard>>

\* A service task raises: the engine has flushed the item and puts the instance in Error.
ServiceStepFails(s) ==
    /\ InSubmission(s, "advancing") /\ LockFree(s) /\ instance # "deleted"
    /\ rowLock' = s
    /\ Becomes(s, [submission[s] EXCEPT !.pc = "serviceFailed", !.done = TRUE, !.status = "error"])
    /\ UNCHANGED <<storedTask, deaths, told, unheard>>

\* A script raises: the item is marked in the session only.
ScriptStepFails(s) ==
    /\ InSubmission(s, "advancing")
    /\ AdvancesTo(s, "scriptFailed")
    /\ UNCHANGED <<storedTask, rowLock, deaths, told, unheard>>

\* Anything else the engine raises, with the item flushed or not
AdvanceRaises(s) ==
    /\ InSubmission(s, "advancing")
    /\ \/ UNCHANGED rowLock /\ Answers(s, submission[s], 500, "failed")
       \/ /\ LockFree(s) /\ instance # "deleted"
          /\ rowLock' = s
          /\ Answers(s, [submission[s] EXCEPT !.done = TRUE], 500, "failed")
    /\ UNCHANGED <<storedTask, deaths, unheard>>

(***************************************************************************)
(* The failed automatic step                                               *)
(***************************************************************************)

\* _task_completion_is_established: the flush writes the item, and waits for who holds it.
EstablishCompletion(s) ==
    /\ submission[s].pc \in {"serviceFailed", "scriptFailed"} /\ LockFree(s)
    /\ IF instance = "deleted"
       THEN Answers(s, submission[s], 500, "failed") /\ UNCHANGED rowLock
       ELSE /\ rowLock' = s
            /\ Becomes(s, [submission[s] EXCEPT !.pc = "established", !.done = TRUE,
                                                !.status = "error"])
            /\ UNCHANGED told
    /\ UNCHANGED <<storedTask, deaths, unheard>>

\* The flush or the query fails: the exception goes on and the request is rolled back.
EstablishFails(s) ==
    /\ submission[s].pc \in {"serviceFailed", "scriptFailed"}
    /\ Answers(s, submission[s], 500, "failed")
    /\ UNCHANGED <<storedTask, rowLock, deaths, unheard>>

\* _record_task_completed_event_if_missing
RecordsEvent(s) == completions = 0

RecordCompletion(s) ==
    /\ InSubmission(s, "established")
    /\ Becomes(s, [submission[s] EXCEPT !.pc = "recorded", !.event = RecordsEvent(s)])
    /\ UNCHANGED <<storedTask, rowLock, deaths, told, unheard>>

\* What a session wrote reaches the database.
Commit(s) ==
    LET w == submission[s] IN
    /\ completed' = (completed \/ w.done)
    /\ completions' = completions + (IF w.event THEN 1 ELSE 0)
    /\ instance' = IF w.status = "unchanged" THEN instance ELSE w.status

CommitFailure(s) ==
    /\ InSubmission(s, "recorded")
    /\ \/ Commit(s) /\ ReleaseLock(s) /\ Becomes(s, [Idle0 EXCEPT !.pc = "committed"]) /\ UNCHANGED told
       \/ Answers(s, submission[s], 500, "failed") /\ UNCHANGED <<storedTask, rowLock>>
    /\ UNCHANGED <<deaths, unheard>>

\* _automatic_step_failure_api_error: "The task was submitted, but the next automatic step failed"
AnswerSubmitted(s) ==
    /\ InSubmission(s, "committed")
    /\ Answers(s, submission[s], 500, "submitted")
    /\ UNCHANGED <<storedTask, rowLock, deaths, unheard>>

(***************************************************************************)
(* Teardown                                                                *)
(***************************************************************************)

\* (mutant of MarkedForRollback: only an exception rolls back)
NeverMarked(code) == FALSE
\* _mark_error_response_for_rollback
MarkedForRollback(code) == code >= 400

\* _close_session; a commit that fails is logged, the answer is out.
CloseSession(s) ==
    /\ InSubmission(s, "closing")
    /\ \/ ~MarkedForRollback(submission[s].code) /\ Commit(s)
       \/ UNCHANGED storedTask
    /\ Becomes(s, Idle0) /\ ReleaseLock(s)
    /\ UNCHANGED <<deaths, told, unheard>>

SubmissionDies(s) ==
    /\ ~InSubmission(s, "idle") /\ deaths < MaxDeaths
    /\ deaths' = deaths + 1
    /\ unheard' = (unheard \/ InSubmission(s, "committed"))
    /\ Becomes(s, Idle0) /\ ReleaseLock(s)
    /\ UNCHANGED <<storedTask, told>>

(***************************************************************************)
(* Administrators                                                          *)
(***************************************************************************)

SuspendInstance ==
    /\ instance = "user_input_required" /\ instance' = "suspended"
    /\ UNCHANGED <<completed, completions, rowLock, submission, deaths, told, unheard>>

ResumeInstance ==
    /\ instance = "suspended" /\ instance' = "user_input_required"
    /\ UNCHANGED <<completed, completions, rowLock, submission, deaths, told, unheard>>

\* The engine closes the task with its instance, unless a session holds the row.
TerminateInstance ==
    /\ instance \in OpenStatuses /\ rowLock = NoSubmission
    /\ instance' = "terminated" /\ completed' = TRUE
    /\ UNCHANGED <<completions, rowLock, submission, deaths, told, unheard>>

\* The rows of the instance go with it; a row that a session holds is waited for.
DeleteEndedInstance ==
    /\ instance \in _TERMINAL_INSTANCE_STATUSES /\ rowLock = NoSubmission
    /\ instance' = "deleted" /\ completed' = FALSE /\ completions' = 0
    /\ UNCHANGED <<rowLock, submission, deaths, told, unheard>>

InstanceTasksNext ==
    \/ \E s \in Submissions :
        \/ StartComplete(s)
        \/ AdvanceSucceeds(s) \/ ServiceStepFails(s) \/ ScriptStepFails(s) \/ AdvanceRaises(s)
        \/ EstablishCompletion(s) \/ EstablishFails(s) \/ RecordCompletion(s) \/ CommitFailure(s)
        \/ AnswerSubmitted(s) \/ CloseSession(s) \/ SubmissionDies(s)
    \/ SuspendInstance \/ ResumeInstance \/ TerminateInstance \/ DeleteEndedInstance

InstanceTasksSpec == InstanceTasksInit /\ [][InstanceTasksNext]_taskVars

(***************************************************************************)
(* Properties                                                              *)
(***************************************************************************)

\* A user who was told that the task was submitted although the next step failed finds it
\* completed, with exactly one completion event, whoever completed it at the same time and
\* whatever was rolled back (complete(), "Record it once and commit").
SubmittedIsRecorded ==
    "submitted" \in told /\ instance # "deleted" => completed /\ completions = 1

\* Short of termination a task is closed only under somebody who was told so, or whose
\* process died before it could tell: no refused or failed request leaves it completed and
\* the user without an answer ("would otherwise COMMIT a half-finished complete", app.py).
ClosedWasTold == completed /\ instance # "terminated" =>
    \/ unheard \/ told \cap {"ok", "submitted"} # {}
    \/ \E s \in Submissions : InSubmission(s, "committed")

\* What users are told of the task is what the database holds, either way.
AnswersMatchTasks == SubmittedIsRecorded /\ ClosedWasTold
=============================================================================
