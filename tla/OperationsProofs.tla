-------------------------- MODULE OperationsProofs --------------------------
(***************************************************************************)
(* What is proved of seven components an operator of the backend works     *)
(* with: the history of Celery tasks, the work items of an instance, the   *)
(* versions of a template, the template gallery, the connector profiles,   *)
(* the process models with their Start, and the files of process models.   *)
(***************************************************************************)
EXTENDS TaskHistory, InstanceTasks, Templates, Gallery, Connectors, Catalog, ModelFiles,
        FiniteSetTheorems, WellFoundedInduction, TLAPS

-----------------------------------------------------------------------------
(***************************************************************************)
(* TaskHistory: the recorded final state of a task is kept, for any number *)
(* of deliveries and every order of signals.                               *)
(***************************************************************************)
HistoryIInv == TaskHistoryTypeOK /\ OutcomeIsKept

(***************************************************************************)
(* An upsert of any state keeps the final state that was recorded          *)
(* (_KEEP_EXISTING covers every state that is not final).                  *)
(***************************************************************************)
LEMMA RecordKeeps ==
    ASSUME HistoryIInv, NEW state \in CeleryTaskState, Record(state), UNCHANGED pruned
    PROVE  /\ taskRow' \in CeleryTaskState \cup {"none"}
           /\ recorded' \in FINISHED_STATES \cup {"none"}
           /\ OutcomeIsKept'
<1> USE DEF HistoryIInv, TaskHistoryTypeOK, OutcomeIsKept, CeleryTaskState, FINISHED_STATES
<1>1. CASE UNCHANGED <<taskRow, recorded>>
    BY <1>1
<1>2. CASE /\ taskRow' = IF taskRow \in KEEP_EXISTING(state) THEN taskRow ELSE state
           /\ recorded' = IF state \in FINISHED_STATES THEN state ELSE recorded
    <2>1. CASE state \in FINISHED_STATES
        BY <1>2, <2>1 DEF KEEP_EXISTING
    <2>2. CASE state \in {"RECEIVED", "STARTED", "RETRY"}
        BY <1>2, <2>2 DEF KEEP_EXISTING
    <2> QED BY <2>1, <2>2
<1> QED BY <1>1, <1>2 DEF Record

(***************************************************************************)
(* Every step of either process keeps the types and the outcome.           *)
(***************************************************************************)
LEMMA HistoryStep == HistoryIInv /\ [TaskHistoryNext]_historyVars => HistoryIInv'
<1> SUFFICES ASSUME HistoryIInv, [TaskHistoryNext]_historyVars PROVE HistoryIInv'
    OBVIOUS
<1> USE DEF HistoryIInv
<1>0. CASE UNCHANGED historyVars
    BY <1>0 DEF historyVars, TaskHistoryTypeOK, OutcomeIsKept
<1>1. ASSUME NEW n \in Tries, Receive(n) \/ RevokeTask(n) PROVE HistoryIInv'
    BY <1>1 DEF Receive, RevokeTask, AdvanceMain, TaskHistoryTypeOK, OutcomeIsKept
<1>2. ASSUME NEW n \in Tries, OnTaskReceived(n) \/ OnTaskRevoked(n) PROVE HistoryIInv'
    <2>1. /\ taskRow' \in CeleryTaskState \cup {"none"}
          /\ recorded' \in FINISHED_STATES \cup {"none"}
          /\ OutcomeIsKept'
        BY <1>2, RecordKeeps DEF OnTaskReceived, OnTaskRevoked, CeleryTaskState, FINISHED_STATES
    <2> QED BY <1>2, <2>1 DEF OnTaskReceived, OnTaskRevoked, AdvanceMain, TaskHistoryTypeOK
<1>3. ASSUME NEW n \in Tries, TakeTask(n) \/ BodyReturns(n) \/ BodyRaises(n) PROVE HistoryIInv'
    BY <1>3 DEF TakeTask, BodyReturns, BodyRaises, AdvancePool, TaskHistoryTypeOK, OutcomeIsKept
<1>4. ASSUME NEW n \in Tries, BodyRetries(n) PROVE HistoryIInv'
    BY <1>4 DEF BodyRetries, AdvancePool, AdvanceMain, TaskHistoryTypeOK, OutcomeIsKept
<1>5. ASSUME NEW n \in Tries,
             OnTaskPrerun(n) \/ OnTaskFailure(n) \/ OnTaskRetry(n) \/ OnTaskPostrun(n)
      PROVE  HistoryIInv'
    <2>1. /\ taskRow' \in CeleryTaskState \cup {"none"}
          /\ recorded' \in FINISHED_STATES \cup {"none"}
          /\ OutcomeIsKept'
        BY <1>5, RecordKeeps
        DEF OnTaskPrerun, OnTaskFailure, OnTaskRetry, OnTaskPostrun, CeleryTaskState, FINISHED_STATES
    <2>2. /\ poolProcess' \in [Tries -> {"idle", "prerun", "body", "retry", "failure", "returned",
                                        "retried", "failed", "done"}]
          /\ UNCHANGED <<mainProcess, pruned>>
        BY <1>5 DEF OnTaskPrerun, OnTaskFailure, OnTaskRetry, OnTaskPostrun, AdvancePool,
                    TaskHistoryTypeOK
    <2> QED BY <2>1, <2>2 DEF TaskHistoryTypeOK
<1>6. ASSUME NEW n \in Tries, PoolProcessDies(n) PROVE HistoryIInv'
    BY <1>6 DEF PoolProcessDies, TaskHistoryTypeOK, OutcomeIsKept
<1>7. CASE PruneHistory
    BY <1>7 DEF PruneHistory, TaskHistoryTypeOK, OutcomeIsKept
<1> QED BY <1>0, <1>1, <1>2, <1>3, <1>4, <1>5, <1>6, <1>7 DEF TaskHistoryNext

LEMMA HistoryStart == TaskHistoryInit => HistoryIInv
    BY DEF TaskHistoryInit, HistoryIInv, TaskHistoryTypeOK, OutcomeIsKept

(***************************************************************************)
(* Whatever order the signals of a task arrive in, and whichever are lost, *)
(* a row whose final state was recorded keeps showing it.                  *)
(***************************************************************************)
THEOREM OutcomeKept == TaskHistorySpec => []OutcomeIsKept
<1>1. HistoryIInv => OutcomeIsKept
    BY DEF HistoryIInv
<1> QED BY HistoryStart, HistoryStep, <1>1, PTL DEF TaskHistorySpec

-----------------------------------------------------------------------------
(***************************************************************************)
(* InstanceTasks: what the recorded answers of a work item say of it.      *)
(***************************************************************************)
Working == {"serviceFailed", "established", "recorded"}
SessionStates == [
    pc : {"idle", "advancing", "serviceFailed", "scriptFailed", "established", "recorded",
          "committed", "closing"},
    done : BOOLEAN, event : BOOLEAN, status : {"unchanged", "complete", "error"},
    code : Nat]

(***************************************************************************)
(* Only the session that holds the row of the work item has written        *)
(* anything, and what it has written fits the database it was read from.   *)
(***************************************************************************)
SessionOK(s) ==
    LET f == submission[s] IN
    /\ f.done => rowLock = s /\ instance # "deleted"
    /\ f.event => f.done
    /\ f.status # "unchanged" => f.done
    /\ f.pc \in Working => f.done /\ f.status = "error"
    /\ f.pc = "recorded" => (f.event <=> completions = 0)
    /\ f.pc = "closing" /\ f.code < 400 => f.event /\ f.status # "unchanged" /\ completions = 0 /\ "ok" \in told
    /\ f.pc = "committed" /\ instance # "deleted" => completed /\ completions = 1

CompletionOK ==
    /\ completed \in BOOLEAN /\ completions \in {0, 1} /\ unheard \in BOOLEAN
    /\ submission \in [Submissions -> SessionStates]
    /\ \A s \in Submissions : SessionOK(s)
    /\ AnswersMatchTasks

LEMMA CompletionStart == InstanceTasksInit => CompletionOK
<1> SUFFICES ASSUME InstanceTasksInit PROVE CompletionOK
    OBVIOUS
<1>1. /\ Idle0 \in SessionStates /\ Idle0.pc = "idle" /\ Idle0.done = FALSE
      /\ Idle0.event = FALSE /\ Idle0.status = "unchanged"
    BY DEF Idle0, SessionStates
<1>2. submission \in [Submissions -> SessionStates]
    BY <1>1 DEF InstanceTasksInit
<1>3. \A s \in Submissions : SessionOK(s)
    BY <1>1 DEF InstanceTasksInit, SessionOK, Working
<1> QED BY <1>2, <1>3 DEF InstanceTasksInit, CompletionOK, AnswersMatchTasks, SubmittedIsRecorded,
                          ClosedWasTold

(***************************************************************************)
(* A step of a request that leaves the task alone is its own matter: what  *)
(* other sessions wrote is as good as before.                              *)
(***************************************************************************)
LEMMA SessionElsewhere ==
    ASSUME NEW s \in Submissions, NEW t \in Submissions \ {s}, SessionOK(t),
           UNCHANGED storedTask, submission'[t] = submission[t],
           rowLock = t => rowLock' = t, told \subseteq told'
    PROVE  SessionOK(t)'
    BY DEF SessionOK, storedTask, Working

LEMMA Held ==
    ASSUME CompletionOK, NEW s \in Submissions, NEW t \in Submissions \ {s},
           rowLock \in {s, NoSubmission}
    PROVE  ~submission[t].done /\ rowLock # t
    BY InstanceTasksAssumption DEF CompletionOK, SessionOK

\* A step that leaves the task alone, and the session it is a step of in order
LEMMA TaskKept ==
    ASSUME CompletionOK, NEW s \in Submissions, UNCHANGED storedTask,
           submission' = [submission EXCEPT ![s] = submission'[s]], submission'[s] \in SessionStates,
           rowLock' \in {rowLock, s} \/ rowLock = s,
           rowLock' # rowLock => rowLock \in {s, NoSubmission},
           told \subseteq told', unheard' \in BOOLEAN, unheard => unheard',
           submission[s].pc = "committed" =>
                submission'[s].pc = "committed" \/ unheard' \/ "submitted" \in told',
           "submitted" \in told' =>
                "submitted" \in told \/ (instance # "deleted" => completed /\ completions = 1),
           SessionOK(s)'
    PROVE  CompletionOK'
<1>1. \A t \in Submissions \ {s} : submission'[t] = submission[t]
    BY DEF CompletionOK
<1>2. \A t \in Submissions \ {s} : rowLock = t => rowLock' = t
    BY Held
<1>3. \A t \in Submissions : SessionOK(t)'
    <2>1. TAKE t \in Submissions
    <2>2. CASE t = s
        BY <2>2
    <2>3. CASE t # s
        BY <2>3, <1>1, <1>2, SessionElsewhere DEF CompletionOK
    <2> QED BY <2>2, <2>3
<1>4. SubmittedIsRecorded'
    BY DEF CompletionOK, AnswersMatchTasks, SubmittedIsRecorded, storedTask
<1>5. ClosedWasTold'
    <2>1. SUFFICES ASSUME completed', instance' # "terminated", ~unheard',
                          told' \cap {"ok", "submitted"} = {}
                   PROVE  \E t \in Submissions : InSubmission(t, "committed")'
        BY DEF ClosedWasTold
    <2>2. PICK t \in Submissions : InSubmission(t, "committed")
        BY <2>1 DEF CompletionOK, AnswersMatchTasks, ClosedWasTold, storedTask
    <2>3. CASE t = s
        BY <2>1, <2>2, <2>3 DEF InSubmission
    <2>4. CASE t # s
        BY <2>2, <2>4, <1>1 DEF InSubmission
    <2> QED BY <2>3, <2>4
<1>6. submission' \in [Submissions -> SessionStates]
    BY DEF CompletionOK
<1> QED BY <1>3, <1>4, <1>5, <1>6 DEF CompletionOK, AnswersMatchTasks, storedTask

\* What becomes of a session, field by field
Rewrites(s, pc, done, event, state, code) ==
    /\ submission' = [submission EXCEPT ![s] = submission'[s]] /\ submission'[s] \in SessionStates
    /\ submission'[s].pc = pc /\ submission'[s].done = done /\ submission'[s].event = event
    /\ submission'[s].status = state /\ submission'[s].code = code

LEMMA SessionBecomes ==
    ASSUME submission \in [Submissions -> SessionStates], NEW s \in Submissions,
           NEW r \in SessionStates, Becomes(s, r)
    PROVE  Rewrites(s, r.pc, r.done, r.event, r.status, r.code)
    BY DEF Becomes, Rewrites

LEMMA SessionAnswers ==
    ASSUME submission \in [Submissions -> SessionStates], NEW s \in Submissions,
           NEW r \in SessionStates, NEW code \in Nat, NEW answer,
           Answers(s, r, code, answer)
    PROVE  /\ Rewrites(s, "closing", r.done, r.event, r.status, code)
           /\ told' = told \cup {answer}
<1> DEFINE a == [r EXCEPT !.pc = "closing", !.code = code]
<1>1. /\ a \in SessionStates /\ a.pc = "closing" /\ a.code = code
      /\ a.done = r.done /\ a.event = r.event /\ a.status = r.status
    BY DEF SessionStates
<1>2. Becomes(s, a) /\ told' = told \cup {answer}
    BY DEF Answers
<1> HIDE DEF a
<1> QED BY <1>1, <1>2, SessionBecomes

(***************************************************************************)
(* The engine: the session flushes what it holds the row for.              *)
(***************************************************************************)
LEMMA EngineStep ==
    ASSUME CompletionOK, NEW s \in Submissions,
           \/ StartComplete(s) \/ AdvanceSucceeds(s) \/ ServiceStepFails(s)
           \/ ScriptStepFails(s) \/ AdvanceRaises(s)
    PROVE  CompletionOK'
<1> USE DEF InSubmission, LockFree
<1> DEFINE f == submission[s]
<1>0. SessionOK(s) /\ submission \in [Submissions -> SessionStates] /\ unheard \in BOOLEAN
      /\ f \in SessionStates
    BY DEF CompletionOK
<1>1. CASE StartComplete(s)
    <2>1. \/ Rewrites(s, "advancing", f.done, f.event, f.status, f.code) /\ UNCHANGED told
          \/ /\ Rewrites(s, "closing", f.done, f.event, f.status, 409)
             /\ told' = told \cup {"refused"}
        <3>1. CASE Completable
            <4>1. DEFINE r == [f EXCEPT !.pc = "advancing"]
            <4>2. /\ r \in SessionStates /\ r.pc = "advancing" /\ r.code = f.code
                  /\ r.done = f.done /\ r.event = f.event /\ r.status = f.status
                BY <1>0 DEF SessionStates
            <4>3. Becomes(s, r) /\ UNCHANGED told
                BY <1>1, <3>1 DEF StartComplete, AdvancesTo
            <4> HIDE DEF r
            <4> QED BY <1>0, <4>2, <4>3, SessionBecomes
        <3>2. CASE ~Completable
            BY <1>0, <1>1, <3>2, SessionAnswers DEF StartComplete
        <3> QED BY <3>1, <3>2
    <2>2. SessionOK(s)' /\ ("submitted" \in told' => "submitted" \in told)
        BY <1>0, <1>1, <2>1 DEF StartComplete, Rewrites, SessionOK, storedTask, Working
    <2> QED BY <1>1, <1>0, <2>1, <2>2, TaskKept DEF StartComplete, Rewrites
<1>2. CASE AdvanceSucceeds(s)
    <2>1. \/ /\ Rewrites(s, "closing", TRUE, TRUE, "complete", 200)
             /\ completions = 0 /\ instance # "deleted" /\ told' = told \cup {"ok"}
          \/ /\ Rewrites(s, "closing", f.done, f.event, f.status, 500)
             /\ told' = told \cup {"failed"}
        <3>1. CASE completions = 0 /\ instance # "deleted"
            <4>1. DEFINE r == [f EXCEPT !.done = TRUE, !.event = TRUE, !.status = "complete"]
            <4>2. r \in SessionStates /\ r.done = TRUE /\ r.event = TRUE /\ r.status = "complete"
                BY <1>0 DEF SessionStates
            <4>3. Answers(s, r, 200, "ok")
                BY <1>2, <3>1 DEF AdvanceSucceeds
            <4> HIDE DEF r
            <4>4. /\ Rewrites(s, "closing", r.done, r.event, r.status, 200)
                  /\ told' = told \cup {"ok"}
                BY <1>0, <4>2, <4>3, SessionAnswers
            <4> QED BY <3>1, <4>2, <4>4
        <3>2. CASE ~(completions = 0 /\ instance # "deleted")
            <4>1. Answers(s, f, 500, "failed")
                BY <1>2, <3>2 DEF AdvanceSucceeds
            <4>2. /\ Rewrites(s, "closing", f.done, f.event, f.status, 500)
                  /\ told' = told \cup {"failed"}
                BY <1>0, <4>1, SessionAnswers
            <4> QED BY <4>2
        <3> QED BY <3>1, <3>2
    <2>2. SessionOK(s)' /\ ("submitted" \in told' => "submitted" \in told)
        BY <1>0, <1>2, <2>1 DEF AdvanceSucceeds, Rewrites, SessionOK, storedTask, Working
    <2> QED BY <1>2, <1>0, <2>1, <2>2, TaskKept DEF AdvanceSucceeds, Rewrites
<1>3. CASE ServiceStepFails(s)
    <2>1. Rewrites(s, "serviceFailed", TRUE, f.event, "error", f.code)
        <3>1. DEFINE r == [f EXCEPT !.pc = "serviceFailed", !.done = TRUE, !.status = "error"]
        <3>2. /\ r \in SessionStates /\ r.pc = "serviceFailed" /\ r.code = f.code
              /\ r.done = TRUE /\ r.event = f.event /\ r.status = "error"
            BY <1>0 DEF SessionStates
        <3>3. Becomes(s, r)
            BY <1>3 DEF ServiceStepFails
        <3> HIDE DEF r
        <3> QED BY <1>0, <3>2, <3>3, SessionBecomes
    <2>2. SessionOK(s)'
        BY <1>0, <1>3, <2>1 DEF ServiceStepFails, Rewrites, SessionOK, storedTask, Working
    <2> QED BY <1>3, <1>0, <2>1, <2>2, TaskKept DEF ServiceStepFails, Rewrites
<1>4. CASE ScriptStepFails(s)
    <2>1. Rewrites(s, "scriptFailed", f.done, f.event, f.status, f.code)
        <3>1. DEFINE r == [f EXCEPT !.pc = "scriptFailed"]
        <3>2. /\ r \in SessionStates /\ r.pc = "scriptFailed" /\ r.code = f.code
              /\ r.done = f.done /\ r.event = f.event /\ r.status = f.status
            BY <1>0 DEF SessionStates
        <3>3. Becomes(s, r)
            BY <1>4 DEF ScriptStepFails, AdvancesTo
        <3> HIDE DEF r
        <3> QED BY <1>0, <3>2, <3>3, SessionBecomes
    <2>2. SessionOK(s)'
        BY <1>0, <1>4, <2>1 DEF ScriptStepFails, Rewrites, SessionOK, storedTask, Working
    <2> QED BY <1>4, <1>0, <2>1, <2>2, TaskKept DEF ScriptStepFails, Rewrites
<1>5. CASE AdvanceRaises(s)
    <2>1. /\ \/ Rewrites(s, "closing", f.done, f.event, f.status, 500) /\ UNCHANGED rowLock
             \/ /\ Rewrites(s, "closing", TRUE, f.event, f.status, 500)
                /\ rowLock \in {s, NoSubmission} /\ rowLock' = s /\ instance # "deleted"
          /\ told' = told \cup {"failed"}
        <3>1. CASE UNCHANGED rowLock /\ Answers(s, f, 500, "failed")
            <4>1. /\ Rewrites(s, "closing", f.done, f.event, f.status, 500)
                  /\ told' = told \cup {"failed"}
                BY <1>0, <3>1, SessionAnswers
            <4> QED BY <3>1, <4>1
        <3>2. CASE /\ LockFree(s) /\ instance # "deleted" /\ rowLock' = s
                   /\ Answers(s, [f EXCEPT !.done = TRUE], 500, "failed")
            <4>1. DEFINE r == [f EXCEPT !.done = TRUE]
            <4>2. r \in SessionStates /\ r.done = TRUE /\ r.event = f.event /\ r.status = f.status
                BY <1>0 DEF SessionStates
            <4>3. Answers(s, r, 500, "failed")
                BY <3>2
            <4> HIDE DEF r
            <4>4. /\ Rewrites(s, "closing", r.done, r.event, r.status, 500)
                  /\ told' = told \cup {"failed"}
                BY <1>0, <4>2, <4>3, SessionAnswers
            <4> QED BY <3>2, <4>2, <4>4
        <3> QED BY <1>5, <3>1, <3>2 DEF AdvanceRaises
    <2>2. SessionOK(s)' /\ ("submitted" \in told' => "submitted" \in told)
        BY <1>0, <1>5, <2>1 DEF AdvanceRaises, Rewrites, SessionOK, storedTask, Working
    <2> QED BY <1>5, <1>0, <2>1, <2>2, TaskKept DEF AdvanceRaises, Rewrites
<1> QED BY <1>1, <1>2, <1>3, <1>4, <1>5

(***************************************************************************)
(* The failed automatic step, up to its commit                             *)
(***************************************************************************)
LEMMA FailureStep ==
    ASSUME CompletionOK, NEW s \in Submissions,
           \/ EstablishCompletion(s) \/ EstablishFails(s) \/ RecordCompletion(s)
           \/ AnswerSubmitted(s) \/ SubmissionDies(s)
    PROVE  CompletionOK'
<1> USE DEF InSubmission, LockFree
<1> DEFINE f == submission[s]
<1>0. SessionOK(s) /\ submission \in [Submissions -> SessionStates] /\ unheard \in BOOLEAN
      /\ f \in SessionStates
    BY DEF CompletionOK
<1>1. CASE EstablishCompletion(s)
    <2>1. \/ /\ Rewrites(s, "closing", f.done, f.event, f.status, 500)
             /\ told' = told \cup {"failed"} /\ UNCHANGED rowLock
          \/ /\ Rewrites(s, "established", TRUE, f.event, "error", f.code)
             /\ UNCHANGED told /\ rowLock' = s /\ instance # "deleted"
        <3>1. CASE instance = "deleted"
            BY <1>0, <1>1, <3>1, SessionAnswers DEF EstablishCompletion
        <3>2. CASE instance # "deleted"
            <4>1. DEFINE r == [f EXCEPT !.pc = "established", !.done = TRUE, !.status = "error"]
            <4>2. /\ r \in SessionStates /\ r.pc = "established" /\ r.code = f.code
                  /\ r.done = TRUE /\ r.event = f.event /\ r.status = "error"
                BY <1>0 DEF SessionStates
            <4>3. Becomes(s, r) /\ UNCHANGED told /\ rowLock' = s
                BY <1>1, <3>2 DEF EstablishCompletion
            <4> HIDE DEF r
            <4> QED BY <1>0, <3>2, <4>2, <4>3, SessionBecomes
        <3> QED BY <3>1, <3>2
    <2>2. SessionOK(s)' /\ ("submitted" \in told' => "submitted" \in told)
        BY <1>0, <1>1, <2>1 DEF EstablishCompletion, Rewrites, SessionOK, storedTask, Working
    <2> QED BY <1>1, <1>0, <2>1, <2>2, TaskKept DEF EstablishCompletion, Rewrites
<1>2. CASE EstablishFails(s)
    <2>1. /\ Rewrites(s, "closing", f.done, f.event, f.status, 500)
          /\ told' = told \cup {"failed"}
        BY <1>0, <1>2, SessionAnswers DEF EstablishFails
    <2>2. SessionOK(s)' /\ ("submitted" \in told' => "submitted" \in told)
        BY <1>0, <1>2, <2>1 DEF EstablishFails, Rewrites, SessionOK, storedTask, Working
    <2> QED BY <1>2, <1>0, <2>1, <2>2, TaskKept DEF EstablishFails, Rewrites
<1>3. CASE RecordCompletion(s)
    <2>1. Rewrites(s, "recorded", f.done, completions = 0, f.status, f.code)
        <3>1. DEFINE r == [f EXCEPT !.pc = "recorded", !.event = RecordsEvent(s)]
        <3>2. /\ r \in SessionStates /\ r.pc = "recorded" /\ r.code = f.code
              /\ r.done = f.done /\ r.event = (completions = 0) /\ r.status = f.status
            BY <1>0 DEF SessionStates, RecordsEvent
        <3>3. Becomes(s, r)
            BY <1>3 DEF RecordCompletion
        <3> HIDE DEF r
        <3> QED BY <1>0, <3>2, <3>3, SessionBecomes
    <2>2. SessionOK(s)'
        BY <1>0, <1>3, <2>1 DEF RecordCompletion, Rewrites, SessionOK, storedTask, Working
    <2> QED BY <1>3, <1>0, <2>1, <2>2, TaskKept DEF RecordCompletion, Rewrites
<1>4. CASE AnswerSubmitted(s)
    <2>1. /\ Rewrites(s, "closing", f.done, f.event, f.status, 500)
          /\ told' = told \cup {"submitted"}
        BY <1>0, <1>4, SessionAnswers DEF AnswerSubmitted
    <2>2. SessionOK(s)'
        BY <1>0, <1>4, <2>1 DEF AnswerSubmitted, Rewrites, SessionOK, storedTask, Working
    <2>3. instance # "deleted" => completed /\ completions = 1
        BY <1>0, <1>4 DEF AnswerSubmitted, SessionOK
    <2> QED BY <1>4, <1>0, <2>1, <2>2, <2>3, TaskKept DEF AnswerSubmitted, Rewrites
<1>5. CASE SubmissionDies(s)
    <2>1. Idle0 \in SessionStates /\ Idle0.pc = "idle" /\ Idle0.done = FALSE
          /\ Idle0.event = FALSE /\ Idle0.status = "unchanged" /\ Idle0.code = 0
        BY DEF Idle0, SessionStates
    <2>2. Rewrites(s, "idle", FALSE, FALSE, "unchanged", 0)
        BY <1>0, <1>5, <2>1, SessionBecomes DEF SubmissionDies
    <2>3. SessionOK(s)'
        BY <2>2 DEF Rewrites, SessionOK, Working
    <2> QED BY <1>5, <1>0, <2>2, <2>3, TaskKept DEF SubmissionDies, ReleaseLock, Rewrites
<1> QED BY <1>1, <1>2, <1>3, <1>4, <1>5

(***************************************************************************)
(* A commit: the session held the row, so nobody else had written          *)
(* anything, and the task is completed with its one event.                 *)
(***************************************************************************)
LEMMA CommitStep ==
    ASSUME CompletionOK, NEW s \in Submissions, submission[s].done, Commit(s),
           completions + (IF submission[s].event THEN 1 ELSE 0) = 1,
           submission[s].status # "unchanged",
           \/ Rewrites(s, "committed", FALSE, FALSE, "unchanged", 0)
           \/ Rewrites(s, "idle", FALSE, FALSE, "unchanged", 0) /\ "ok" \in told,
           ReleaseLock(s), UNCHANGED <<told, unheard>>
    PROVE  CompletionOK'
<1>1. /\ completed' = TRUE /\ completions' = 1
      /\ instance' \in {"complete", "error"} /\ instance # "deleted" /\ rowLock = s
    <2>1. submission[s].status \in {"unchanged", "complete", "error"}
        BY DEF CompletionOK, SessionStates
    <2> QED BY <2>1 DEF Commit, CompletionOK, SessionOK
<1>2. \A t \in Submissions : SessionOK(t)'
    <2>1. TAKE t \in Submissions
    <2>2. CASE t = s
        BY <2>2, <1>1 DEF SessionOK, Rewrites, Working
    <2>3. CASE t # s
        <3>1. SessionOK(t) /\ submission'[t] = submission[t] /\ ~submission[t].done
            BY <2>3, <1>1, Held DEF CompletionOK, Rewrites
        <3> QED BY <3>1, <1>1 DEF SessionOK, Working
    <2> QED BY <2>2, <2>3
<1>3. AnswersMatchTasks'
    BY <1>1 DEF AnswersMatchTasks, SubmittedIsRecorded, ClosedWasTold, InSubmission, Rewrites
<1>4. submission' \in [Submissions -> SessionStates]
    BY DEF CompletionOK, Rewrites
<1> QED BY <1>1, <1>2, <1>3, <1>4 DEF CompletionOK

LEMMA CommitFailureStep ==
    ASSUME CompletionOK, NEW s \in Submissions, CommitFailure(s)
    PROVE  CompletionOK'
<1>0. /\ SessionOK(s) /\ submission \in [Submissions -> SessionStates]
      /\ unheard \in BOOLEAN /\ completions \in {0, 1}
    BY DEF CompletionOK
<1>1. CASE Commit(s) /\ ReleaseLock(s) /\ Becomes(s, [Idle0 EXCEPT !.pc = "committed"]) /\ UNCHANGED told
    <2>1. submission[s].done /\ (submission[s].event <=> completions = 0) /\ submission[s].status = "error"
        BY <1>0 DEF CommitFailure, InSubmission, SessionOK, Working
    <2>2. completions + (IF submission[s].event THEN 1 ELSE 0) = 1
        <3>1. CASE completions = 0
            BY <2>1, <3>1
        <3>2. CASE completions = 1
            BY <2>1, <3>2
        <3> QED BY <1>0, <3>1, <3>2
    <2>3. Rewrites(s, "committed", FALSE, FALSE, "unchanged", 0)
        <3>1. DEFINE r == [Idle0 EXCEPT !.pc = "committed"]
        <3>2. /\ r \in SessionStates /\ r.pc = "committed" /\ r.done = FALSE
              /\ r.event = FALSE /\ r.status = "unchanged" /\ r.code = 0
            BY DEF Idle0, SessionStates
        <3> HIDE DEF r
        <3> QED BY <1>0, <1>1, <3>2, SessionBecomes DEF r
    <2> QED BY <1>1, <2>1, <2>2, <2>3, CommitStep DEF CommitFailure
<1>2. CASE Answers(s, submission[s], 500, "failed") /\ UNCHANGED <<storedTask, rowLock>>
    <2>1. /\ Rewrites(s, "closing", submission[s].done, submission[s].event,
                       submission[s].status, 500)
          /\ told' = told \cup {"failed"}
        BY <1>0, <1>2, SessionAnswers
    <2>2. SessionOK(s)' /\ ("submitted" \in told' => "submitted" \in told)
        BY <1>0, <1>2, <2>1 DEF Rewrites, SessionOK, storedTask, Working
    <2>3. submission[s].pc # "committed" /\ UNCHANGED unheard
        BY DEF CommitFailure, InSubmission
    <2> QED BY <1>0, <1>2, <2>1, <2>2, <2>3, TaskKept DEF Rewrites
<1> QED BY <1>1, <1>2 DEF CommitFailure

\* What a request that fails has written is rolled back.
LEMMA CloseSessionStep ==
    ASSUME CompletionOK, NEW s \in Submissions, CloseSession(s)
    PROVE  CompletionOK'
<1>0. /\ SessionOK(s) /\ submission \in [Submissions -> SessionStates]
      /\ unheard \in BOOLEAN /\ completions \in {0, 1}
    BY DEF CompletionOK
<1>1. Rewrites(s, "idle", FALSE, FALSE, "unchanged", 0)
    <2>1. Idle0 \in SessionStates /\ Idle0.pc = "idle" /\ Idle0.done = FALSE
          /\ Idle0.event = FALSE /\ Idle0.status = "unchanged" /\ Idle0.code = 0
        BY DEF Idle0, SessionStates
    <2> QED BY <1>0, <2>1, SessionBecomes DEF CloseSession
<1>2. CASE submission[s].code < 400 /\ Commit(s)
    <2>1. /\ submission[s].done /\ submission[s].event /\ submission[s].status # "unchanged"
          /\ completions = 0 /\ "ok" \in told
        BY <1>0, <1>2 DEF CloseSession, InSubmission, SessionOK
    <2>2. completions + (IF submission[s].event THEN 1 ELSE 0) = 1
        BY <2>1
    <2> QED BY <1>1, <1>2, <2>1, <2>2, CommitStep DEF CloseSession
<1>3. CASE UNCHANGED storedTask
    <2>1. SessionOK(s)'
        BY <1>1 DEF SessionOK, Rewrites, Working
    <2> QED BY <1>0, <1>1, <1>3, <2>1, TaskKept DEF CloseSession, ReleaseLock, InSubmission, Rewrites
<1>4. submission[s].code \in Nat
    BY <1>0 DEF SessionStates
<1>5. (submission[s].code < 400 /\ Commit(s)) \/ UNCHANGED storedTask
    BY <1>4 DEF CloseSession, MarkedForRollback
<1> QED BY <1>2, <1>3, <1>5

(***************************************************************************)
(* Administrators do not touch a row that a session holds.                 *)
(***************************************************************************)
LEMMA AdministratorStep ==
    ASSUME CompletionOK,
           SuspendInstance \/ ResumeInstance \/ TerminateInstance \/ DeleteEndedInstance
    PROVE  CompletionOK'
<1> USE DEF CompletionOK, AnswersMatchTasks, SubmittedIsRecorded, ClosedWasTold, InSubmission
<1>1. CASE SuspendInstance \/ ResumeInstance
    <2>1. \A s \in Submissions : SessionOK(s)'
        BY <1>1 DEF SuspendInstance, ResumeInstance, SessionOK, Working
    <2> QED BY <1>1, <2>1 DEF SuspendInstance, ResumeInstance
<1>2. CASE TerminateInstance
    <2>1. \A s \in Submissions : ~submission[s].done
        BY <1>2, InstanceTasksAssumption DEF TerminateInstance, SessionOK
    <2>2. \A s \in Submissions : SessionOK(s)'
        BY <1>2, <2>1 DEF TerminateInstance, SessionOK, Working, OpenStatuses
    <2> QED BY <1>2, <2>2 DEF TerminateInstance, OpenStatuses
<1>3. CASE DeleteEndedInstance
    <2>1. \A s \in Submissions : ~submission[s].done
        BY <1>3, InstanceTasksAssumption DEF DeleteEndedInstance, SessionOK
    <2>2. \A s \in Submissions : SessionOK(s)'
        BY <1>3, <2>1 DEF DeleteEndedInstance, SessionOK, Working
    <2> QED BY <1>3, <2>2 DEF DeleteEndedInstance
<1> QED BY <1>1, <1>2, <1>3

LEMMA CompletionNext == CompletionOK /\ [InstanceTasksNext]_taskVars => CompletionOK'
<1> SUFFICES ASSUME CompletionOK, [InstanceTasksNext]_taskVars PROVE CompletionOK'
    OBVIOUS
<1>1. CASE UNCHANGED taskVars
    BY <1>1 DEF taskVars, CompletionOK, SessionOK, Working, AnswersMatchTasks,
                SubmittedIsRecorded, ClosedWasTold, InSubmission
<1>2. CASE InstanceTasksNext
    BY <1>2, EngineStep, FailureStep, CommitFailureStep, CloseSessionStep, AdministratorStep
    DEF InstanceTasksNext
<1> QED BY <1>1, <1>2

(***************************************************************************)
(* Whoever completes a task at the same time, whatever fails behind it and *)
(* whenever the instance is suspended, terminated or deleted: a user who   *)
(* was told that the task was submitted finds it completed with one event, *)
(* and a completed task has somebody who was told (complete(),             *)
(* _mark_error_response_for_rollback).                                     *)
(***************************************************************************)
THEOREM AnswersAreTrue == InstanceTasksSpec => []AnswersMatchTasks
<1>1. CompletionOK => AnswersMatchTasks
    BY DEF CompletionOK
<1> QED BY CompletionStart, CompletionNext, <1>1, PTL DEF InstanceTasksSpec

-----------------------------------------------------------------------------
(***************************************************************************)
(* Gallery: the versions of a template, its names and its one page.        *)
(***************************************************************************)
(***************************************************************************)
(* The newest of some versions is one of them, and none is newer.          *)
(***************************************************************************)
LEMMA LeastNumber ==
    ASSUME NEW T \in SUBSET Nat, T # {}
    PROVE  \E m \in T : \A n \in T : m <= n
<1> DEFINE R == OpToRel(<, Nat)
<1>1. PICK m \in T : \A n \in T : ~ (<<n, m>> \in R)
    <2>1. IsWellFoundedOn(R, Nat)
        BY NatLessThanWellFounded
    <2> HIDE DEF R
    <2> QED BY <2>1, WFMin
<1>2. ASSUME NEW n \in T PROVE m <= n
    <2>1. ~(n < m)
        BY <1>1 DEF OpToRel
    <2> QED BY <2>1
<1> QED BY <1>2

\* Some numbers up to a bound have a greatest.
LEMMA GreatestNumber ==
    ASSUME NEW bound \in Nat, NEW vs \in SUBSET (1..bound), vs # {}
    PROVE  \E v \in vs : \A u \in vs : u <= v
<1> DEFINE T == {n \in Nat : bound - n \in vs}
<1>1. \A v \in vs : v \in Nat /\ v <= bound
    OBVIOUS
<1>2. \A v \in vs : bound - v \in T
    <2>1. TAKE v \in vs
    <2>2. bound - v \in Nat /\ bound - (bound - v) = v
        BY <1>1
    <2> QED BY <2>2
<1>3. PICK m \in T : \A n \in T : m <= n
    <2>1. T # {} /\ T \in SUBSET Nat
        BY <1>2
    <2> HIDE DEF T
    <2> QED BY <2>1, LeastNumber
<1>4. bound - m \in vs /\ \A u \in vs : u <= bound - m
    <2>1. m \in Nat /\ bound - m \in vs
        OBVIOUS
    <2>2. ASSUME NEW u \in vs PROVE u <= bound - m
        <3>1. m <= bound - u
            BY <1>2, <1>3
        <3> HIDE DEF T
        <3> QED BY <1>1, <2>1, <3>1
    <2> QED BY <2>1, <2>2
<1> QED BY <1>4

LEMMA NewestIsThere ==
    ASSUME NEW vs \in SUBSET Numbers, vs # {}
    PROVE  NewestOf(vs) \in vs /\ \A u \in vs : u <= NewestOf(vs)
<1>1. MaxRow \in Nat /\ vs \in SUBSET (1..MaxRow)
    BY GalleryAssumption DEF Numbers
<1>2. \E v \in vs : \A u \in vs : u <= v
    BY <1>1, GreatestNumber
<1> QED BY <1>2 DEF NewestOf

(***************************************************************************)
(* Drafts and families: while nothing joined, the live versions are of one *)
(* family and there is one draft at most.                                  *)
(***************************************************************************)
OneLiveFamily ==
    /\ \A u, v \in Numbers : IsLive(u) /\ IsLive(v) => gallery[u].family = gallery[v].family
    /\ \A u, v \in DraftRows : u = v

GalleryIInv == GalleryTypeOK /\ (joined \/ OneLiveFamily)

LEMMA OneDraftCounted == ASSUME \A u, v \in DraftRows : u = v PROVE Cardinality(DraftRows) <= 1
<1>1. CASE DraftRows = {}
    BY <1>1, FS_EmptySet
<1>2. CASE DraftRows # {}
    <2>1. PICK d \in DraftRows : TRUE
        BY <1>2
    <2>2. DraftRows = {d}
        BY <2>1
    <2>3. Cardinality({d}) = 1
        BY FS_Singleton
    <2> QED BY <2>2, <2>3
<1> QED BY <1>1, <1>2

LEMMA RowOfVersion ==
    ASSUME GalleryTypeOK, NEW v \in Numbers
    PROVE  /\ IsRow(v) => gallery[v] \in TemplateRows
           /\ IsLive(v) => IsRow(v)
    BY DEF GalleryTypeOK, IsRow, IsLive, NoTemplate, TemplateRows

LEMMA NextNumberIsFree ==
    ASSUME NextNumber \in Numbers
    PROVE  ~IsRow(NextNumber)
<1> DEFINE there == {v \in Numbers : IsRow(v)}
<1>1. CASE there = {}
    BY <1>1
<1>2. CASE there # {}
    <2>1. NewestOf(there) \in Numbers /\ \A u \in there : u <= NewestOf(there)
        BY <1>2, NewestIsThere
    <2>2. NextNumber = NewestOf(there) + 1
        BY <1>2 DEF NextNumber
    <2>3. NextNumber \notin there
        <3> HIDE DEF there
        <3> QED BY <2>1, <2>2, GalleryAssumption DEF Numbers
    <2> QED BY <2>3
<1> QED BY <1>1, <1>2

LEMMA GalleryStart == GalleryInit => GalleryIInv
<1> SUFFICES ASSUME GalleryInit PROVE GalleryIInv
    OBVIOUS
<1>1. \A v \in Numbers : gallery[v].state = "none"
    BY DEF GalleryInit, NoTemplate
<1> QED BY <1>1 DEF GalleryInit, GalleryIInv, GalleryTypeOK, OneLiveFamily, IsLive, DraftRows

(***************************************************************************)
(* A new version of a name that is free is the only one that is live.      *)
(***************************************************************************)
LEMMA CreateStep ==
    ASSUME GalleryIInv, NEW w \in Viewers, NEW v, NEW visibility \in TemplateVisibility,
           NEW state \in {"draft", "published"}, CreateVersion(w, v, visibility, state),
           joined' \in BOOLEAN, ~joined' => ~joined /\ ~NameIsTaken
    PROVE  GalleryIInv'
<1> DEFINE r == [state |-> state, visibility |-> visibility, created_by |-> w.name, family |-> v]
<1>1. v \in Numbers /\ ~IsRow(v) /\ gallery' = [gallery EXCEPT ![v] = r]
    BY DEF CreateVersion
<1>2. r \in TemplateRows /\ r.state = state
    BY <1>1 DEF TemplateRows
<1> HIDE DEF r
<1>3. GalleryTypeOK'
    BY <1>1, <1>2 DEF GalleryIInv, GalleryTypeOK
<1>4. ASSUME ~joined' PROVE OneLiveFamily'
    <2>1. \A u \in Numbers : IsLive(u)' => u = v
        BY <1>1, <1>4 DEF NameIsTaken, IsLive, GalleryIInv, GalleryTypeOK
    <2> QED BY <2>1 DEF OneLiveFamily, DraftRows, IsLive
<1> QED BY <1>3, <1>4 DEF GalleryIInv

(***************************************************************************)
(* A version that changes and stays of its family, and is a draft only if  *)
(* it was one, changes nothing for the others.                             *)
(***************************************************************************)
LEMMA ChangeStep ==
    ASSUME GalleryIInv, NEW v \in Numbers, NEW r \in TemplateRows \cup {NoTemplate},
           gallery' = [gallery EXCEPT ![v] = r], joined' \in BOOLEAN, joined => joined',
           r.state = "draft" => gallery[v].state = "draft",
           r.state \in {"draft", "published"} =>
                /\ r.family = gallery[v].family
                /\ IsLive(v) \/ joined'
                        \/ \A u \in Numbers : IsLive(u) => gallery[u].family = gallery[v].family
    PROVE  GalleryIInv'
<1>1. GalleryTypeOK'
    BY DEF GalleryIInv, GalleryTypeOK
<1>2. gallery'[v] = r /\ \A u \in Numbers \ {v} : gallery'[u] = gallery[u]
    BY DEF GalleryIInv, GalleryTypeOK
<1>3. ASSUME ~joined' PROVE OneLiveFamily'
    <2>1. OneLiveFamily
        BY <1>3 DEF GalleryIInv
    <2>2. \A u \in Numbers : u \in DraftRows' => u \in DraftRows
        BY <1>2 DEF DraftRows
    <2>3. ASSUME NEW u1 \in Numbers, NEW u2 \in Numbers, IsLive(u1)', IsLive(u2)'
          PROVE  gallery'[u1].family = gallery'[u2].family
        <3>1. CASE u1 # v /\ u2 # v
            BY <1>2, <2>1, <2>3, <3>1 DEF OneLiveFamily, IsLive
        <3>2. CASE u1 = v /\ u2 # v
            BY <1>2, <1>3, <2>1, <2>3, <3>2 DEF OneLiveFamily, IsLive
        <3>3. CASE u1 # v /\ u2 = v
            BY <1>2, <1>3, <2>1, <2>3, <3>3 DEF OneLiveFamily, IsLive
        <3>4. CASE u1 = v /\ u2 = v
            BY <3>4
        <3> QED BY <3>1, <3>2, <3>3, <3>4
    <2> QED BY <2>1, <2>2, <2>3 DEF OneLiveFamily, DraftRows
<1> QED BY <1>1, <1>3 DEF GalleryIInv

(***************************************************************************)
(* An edit of a published version goes into the draft there is, or into a  *)
(* new one of the same family where there was none.                        *)
(***************************************************************************)
LEMMA InOpenDraftStep ==
    ASSUME GalleryIInv, NEW w \in Viewers, NEW v \in Numbers, IsLive(v),
           NEW becomes \in [TemplateVisibility -> TemplateVisibility],
           InOpenDraft(w, v, becomes), UNCHANGED joined
    PROVE  GalleryIInv'
<1>0. GalleryTypeOK /\ joined \in BOOLEAN
    BY DEF GalleryIInv, GalleryTypeOK
<1>1. CASE DraftRows # {}
    <2>1. PICK d \in DraftRows : gallery' = [gallery EXCEPT ![d].visibility = becomes[@]]
        BY <1>1 DEF InOpenDraft
    <2>2. d \in Numbers /\ IsLive(d) /\ gallery[d] \in TemplateRows /\ gallery[d].state = "draft"
        BY <1>0, RowOfVersion DEF DraftRows, IsLive
    <2> DEFINE r == [gallery[d] EXCEPT !.visibility = becomes[@]]
    <2>3. gallery' = [gallery EXCEPT ![d] = r]
        BY <2>1
    <2>4. /\ r \in TemplateRows /\ r.state = gallery[d].state /\ r.family = gallery[d].family
        BY <2>2 DEF TemplateRows
    <2> HIDE DEF r
    <2> QED BY <1>0, <2>2, <2>3, <2>4, ChangeStep
<1>2. CASE DraftRows = {}
    <2> DEFINE r == [gallery[v] EXCEPT !.state = "draft", !.created_by = w.name,
                                       !.visibility = becomes[@]]
               n == NextNumber
    <2>1. n \in Numbers /\ gallery' = [gallery EXCEPT ![n] = r]
        BY <1>2 DEF InOpenDraft
    <2>2. gallery[v] \in TemplateRows
        BY <1>0, RowOfVersion
    <2>3. r \in TemplateRows /\ r.state = "draft" /\ r.family = gallery[v].family
        BY <2>2 DEF TemplateRows
    <2> HIDE DEF r, n
    <2>4. GalleryTypeOK'
        BY <1>0, <2>1, <2>3 DEF GalleryTypeOK
    <2>5. gallery'[n] = r /\ \A u \in Numbers \ {n} : gallery'[u] = gallery[u]
        BY <1>0, <2>1 DEF GalleryTypeOK
    <2>6. ASSUME ~joined PROVE OneLiveFamily'
        <3>1. \A u \in Numbers : IsLive(u) => gallery[u].family = gallery[v].family
            BY <2>6 DEF GalleryIInv, OneLiveFamily
        <3>2. \A u \in Numbers : IsLive(u)' => gallery'[u].family = gallery[v].family
            BY <2>3, <2>5, <3>1 DEF IsLive
        <3>3. \A u \in Numbers : u \in DraftRows' => u = n
            BY <1>2, <2>5 DEF DraftRows
        <3> QED BY <3>2, <3>3 DEF OneLiveFamily, DraftRows
    <2> QED BY <2>4, <2>6 DEF GalleryIInv
<1> QED BY <1>1, <1>2

LEMMA GalleryStep == GalleryIInv /\ [GalleryNext]_galleryVars => GalleryIInv'
<1> SUFFICES ASSUME GalleryIInv, [GalleryNext]_galleryVars PROVE GalleryIInv'
    OBVIOUS
<1>0. GalleryTypeOK /\ joined \in BOOLEAN
    BY DEF GalleryIInv, GalleryTypeOK
<1>1. CASE UNCHANGED galleryVars
    BY <1>1 DEF galleryVars, GalleryIInv, GalleryTypeOK, OneLiveFamily, IsLive, DraftRows
<1>2. ASSUME NEW w \in Viewers, NEW visibility \in TemplateVisibility,
             NEW state \in {"draft", "published"},
             create_template_with_files(w, visibility, state)
      PROVE  GalleryIInv'
    BY <1>0, <1>2, CreateStep DEF create_template_with_files
<1>3. ASSUME NEW w \in Viewers, NEW visibility \in TemplateVisibility, NEW v \in Numbers,
             NEW state \in {"draft", "published"}, CreateNumbered(w, v, visibility, state)
      PROVE  GalleryIInv'
    <2>1. joined' \in BOOLEAN /\ (~joined' => ~joined /\ ~NameIsTaken)
        BY <1>0, <1>3 DEF CreateNumbered
    <2> QED BY <1>3, <2>1, CreateStep DEF CreateNumbered
<1>4. ASSUME NEW w \in Viewers, NEW visibility \in TemplateVisibility, NEW v \in Numbers,
             NEW publish \in BOOLEAN, EditDraft(w, v, visibility, publish)
      PROVE  GalleryIInv'
    <2>1. IsLive(v) /\ gallery[v] \in TemplateRows /\ gallery[v].state = "draft"
        BY <1>0, <1>4, RowOfVersion DEF EditDraft, Opens
    <2> DEFINE r == [gallery[v] EXCEPT !.visibility = visibility,
                                       !.state = IF publish THEN "published" ELSE "draft"]
    <2>2. gallery' = [gallery EXCEPT ![v] = r]
        BY <1>0, <1>4 DEF EditDraft, GalleryTypeOK
    <2>3. r \in TemplateRows /\ r.family = gallery[v].family
        BY <2>1 DEF TemplateRows
    <2> HIDE DEF r
    <2> QED BY <1>0, <1>4, <2>1, <2>2, <2>3, ChangeStep DEF EditDraft
<1>5. ASSUME NEW w \in Viewers, NEW visibility \in TemplateVisibility, NEW v \in Numbers,
             EditPublished(w, v, visibility)
      PROVE  GalleryIInv'
    <2> DEFINE asked == [old \in TemplateVisibility |-> visibility]
    <2>1. asked \in [TemplateVisibility -> TemplateVisibility]
        OBVIOUS
    <2>2. IsLive(v) /\ InOpenDraft(w, v, asked) /\ UNCHANGED joined
        BY <1>5 DEF EditPublished, Opens
    <2> HIDE DEF asked
    <2> QED BY <2>1, <2>2, InOpenDraftStep
<1>6. ASSUME NEW w \in Viewers, NEW v \in Numbers, ChangeFile(w, v) PROVE GalleryIInv'
    <2> DEFINE kept == [old \in TemplateVisibility |-> old]
    <2>1. kept \in [TemplateVisibility -> TemplateVisibility]
        OBVIOUS
    <2>2. /\ IsLive(v) /\ UNCHANGED joined
          /\ InOpenDraft(w, v, kept) \/ UNCHANGED gallery
        BY <1>6 DEF ChangeFile, Opens
    <2>3. CASE UNCHANGED gallery
        BY <2>2, <2>3 DEF GalleryIInv, GalleryTypeOK, OneLiveFamily, IsLive, DraftRows
    <2>4. CASE InOpenDraft(w, v, kept)
        <3> HIDE DEF kept
        <3> QED BY <2>1, <2>2, <2>4, InOpenDraftStep
    <2> QED BY <2>2, <2>3, <2>4
<1>7. ASSUME NEW w \in Viewers, NEW v \in Numbers, SoftDelete(w, v) PROVE GalleryIInv'
    <2>1. gallery[v] \in TemplateRows
        BY <1>0, <1>7, RowOfVersion DEF SoftDelete, Opens
    <2> DEFINE r == [gallery[v] EXCEPT !.state = "deleted"]
    <2>2. gallery' = [gallery EXCEPT ![v] = r] /\ UNCHANGED joined
        BY <1>0, <1>7 DEF SoftDelete, GalleryTypeOK
    <2>3. r \in TemplateRows /\ r.state = "deleted"
        BY <2>1 DEF TemplateRows
    <2> HIDE DEF r
    <2> QED BY <1>0, <2>2, <2>3, ChangeStep
<1>8. ASSUME NEW w \in Viewers, NEW v \in Numbers, HardDelete(w, v) PROVE GalleryIInv'
    <2>1. NoTemplate.state = "none"
        BY DEF NoTemplate
    <2> QED BY <1>0, <1>8, <2>1, ChangeStep DEF HardDelete
<1>9. ASSUME NEW w \in Viewers, NEW v \in Numbers, RestoreVersion(w, v) PROVE GalleryIInv'
    <2>1. gallery[v] \in TemplateRows
        BY <1>0, <1>9, RowOfVersion DEF RestoreVersion, Opens
    <2> DEFINE r == [gallery[v] EXCEPT !.state = "published"]
    <2>2. gallery' = [gallery EXCEPT ![v] = r]
        BY <1>0, <1>9 DEF RestoreVersion, GalleryTypeOK
    <2>3. r \in TemplateRows /\ r.state = "published" /\ r.family = gallery[v].family
        BY <2>1 DEF TemplateRows
    <2>4. /\ joined' \in BOOLEAN /\ (joined => joined')
          /\ joined' \/ \A u \in Numbers : IsLive(u) => gallery[u].family = gallery[v].family
        BY <1>0, <1>9 DEF RestoreVersion
    <2> HIDE DEF r
    <2> QED BY <2>2, <2>3, <2>4, ChangeStep
<1> QED BY <1>1, <1>2, <1>3, <1>4, <1>5, <1>6, <1>7, <1>8, <1>9 DEF GalleryNext

(***************************************************************************)
(* Whatever the order of creations, edits, publications and deletions, a   *)
(* key stands for one template: its live versions come from one creation   *)
(* and share one draft, unless somebody joined two (_next_version,         *)
(* _get_or_create_draft_version, name_taken).                              *)
(***************************************************************************)
THEOREM NamesApart == GallerySpec => []NamesStayApart
<1>1. GalleryIInv => NamesStayApart
    BY OneDraftCounted DEF GalleryIInv, OneLiveFamily, NamesStayApart
<1> QED BY GalleryStart, GalleryStep, <1>1, PTL DEF GallerySpec

(***************************************************************************)
(* Without a tenant asked for, what the query finds of a row is what       *)
(* opening it allows.                                                      *)
(***************************************************************************)
LEMMA FilterIsView ==
    ASSUME NEW w \in Viewers, NEW r \in TemplateRows
    PROVE  /\ filter_query_by_visibility(w, r) /\ Scoped(w, NoTenant, r) <=> can_view(w, r)
           /\ filter_query_by_visibility(w, r) => can_view(w, r)
    BY GalleryAssumption
    DEF filter_query_by_visibility, Scoped, can_view, IsSuper, IsOwnerTenant,
        has_admin_permission, TemplateRows, TemplateVisibility

LEMMA PageShows ==
    ASSUME GalleryTypeOK, NEW v \in Numbers, IsRow(v), NEW w \in Viewers
    PROVE  /\ \A deleted \in BOOLEAN :
                v \in list_templates(w, NoTenant, deleted, FALSE, FALSE) <=> Opens(w, v, deleted)
           /\ \A published \in BOOLEAN :
                Opens(w, v, FALSE) /\ (published => gallery[v].state = "published") =>
                    \E u \in list_templates(w, NoTenant, FALSE, published, TRUE) : u >= v
           /\ \A asked \in {NoTenant, OwnerTenant} :
                v \in list_templates(w, asked, FALSE, TRUE, TRUE) =>
                    Opens(w, v, FALSE) /\ gallery[v].state = "published"
<1>0. gallery[v] \in TemplateRows
    BY RowOfVersion
<1>1. ASSUME NEW deleted \in BOOLEAN
      PROVE  v \in list_templates(w, NoTenant, deleted, FALSE, FALSE) <=> Opens(w, v, deleted)
    BY <1>0, FilterIsView DEF list_templates, Found, Opens
<1>2. ASSUME NEW published \in BOOLEAN, Opens(w, v, FALSE),
             published => gallery[v].state = "published"
      PROVE  \E u \in list_templates(w, NoTenant, FALSE, published, TRUE) : u >= v
    <2> DEFINE found == Found(w, NoTenant, FALSE, published)
    <2>1. v \in found /\ found \in SUBSET Numbers
        BY <1>0, <1>2, FilterIsView DEF Found, Opens, IsLive
    <2>2. list_templates(w, NoTenant, FALSE, published, TRUE) = {NewestOf(found)}
        BY <2>1 DEF list_templates, LatestOf
    <2> HIDE DEF found
    <2>3. v <= NewestOf(found) /\ NewestOf(found) \in Numbers
        BY <2>1, NewestIsThere
    <2>4. NewestOf(found) >= v
        BY <2>3, GalleryAssumption DEF Numbers
    <2> QED BY <2>2, <2>4
<1>3. ASSUME NEW asked \in {NoTenant, OwnerTenant},
             v \in list_templates(w, asked, FALSE, TRUE, TRUE)
      PROVE  Opens(w, v, FALSE) /\ gallery[v].state = "published"
    <2> DEFINE found == Found(w, asked, FALSE, TRUE)
    <2>1. found \in SUBSET Numbers
        BY DEF Found
    <2>2. v \in LatestOf(found)
        BY <1>3 DEF list_templates
    <2>3. v \in found
        <3> HIDE DEF found
        <3> QED BY <2>1, <2>2, NewestIsThere DEF LatestOf
    <2>4. IsLive(v) /\ can_view(w, gallery[v]) /\ gallery[v].state # "draft"
        BY <1>0, <2>3, FilterIsView DEF Found
    <2> QED BY <2>4 DEF Opens, IsLive
<1> QED BY <1>1, <1>2, <1>3

(***************************************************************************)
(* Two pieces of code with rules of their own, the query behind the page   *)
(* and the check behind a version, agree for every user and every set of   *)
(* versions; and the newest version that is listed stands for all that     *)
(* open (list_templates, filter_query_by_visibility, can_view).            *)
(***************************************************************************)
THEOREM PageAndRoutesAgree == GallerySpec => []PageIsWhatOpens
<1>1. GalleryIInv => PageIsWhatOpens
    BY PageShows DEF GalleryIInv, PageIsWhatOpens
<1> QED BY GalleryStart, GalleryStep, <1>1, PTL DEF GallerySpec

-----------------------------------------------------------------------------
(***************************************************************************)
(* Connectors: a profile and the secrets its fields name.                  *)
(***************************************************************************)
(***************************************************************************)
(* One request at a time is what the property speaks of: a second request  *)
(* on a profile marks its id both ways, and it stays marked.               *)
(***************************************************************************)
ProfileFrames == [
    pc : {"idle", "insert", "secrets", "compensate", "commit"},
    op : {"none", "create", "update", "delete"},
    id : Ids, refs : SUBSET Fields, toSet : SUBSET Fields, toClear : SUBSET Fields,
    written : SUBSET Fields, cleared : SUBSET Fields]

Marked(i) == i \in leftover /\ i \in halfCleared
AtWork(c) == profileCall[c].pc # "idle" /\ profileCall[c].id # 0

\* What a request sees under the key of a field of its profile
Finds(c, n) ==
    LET f == profileCall[c] IN
    IF backend = "vault" THEN <<f.id, n>> \in secrets
    ELSE (<<f.id, n>> \in secrets \/ n \in f.written) /\ n \notin f.cleared

FrameOK(c) ==
    LET f == profileCall[c] IN
    /\ f.id <= nextProfile
    /\ f.pc = "insert" => f.op = "create" /\ f.id = 0 /\ f.refs = {}
    /\ f.pc \in {"secrets", "compensate", "commit"} => f.id # 0 /\ f.op # "none"
    /\ f.pc = "compensate" => f.op = "create"
    /\ f.cleared # {} => f.toSet = {}
    /\ f.op = "create" => f.cleared = {} /\ f.toClear = {}
    /\ f.op = "delete" => f.written = {} /\ f.toSet = {} /\ f.toClear = f.refs
    /\ f.op = "delete" /\ f.pc = "secrets" => f.cleared = {}
    /\ f.written \subseteq f.refs

\* Two requests share an id only when it is marked; one insert at a time is not committed.
PairsOK == \A c, d \in ProfileCalls :
    AtWork(c) /\ AtWork(d) /\ c # d =>
        /\ profileCall[c].id = profileCall[d].id => Marked(profileCall[c].id)
        /\ profileCall[c].op # "create" \/ profileCall[d].op # "create"

\* What a request on its own knows of the row
KnowsOK(c) ==
    LET f == profileCall[c] IN
    /\ f.op = "create" => profile.id = 0
    /\ f.op # "create" /\ ~Marked(f.id) => profile.id = f.id
    /\ f.op = "delete" /\ ~Marked(f.id) => profile.refs = f.refs

\* What it knows of the secrets: its refs have one each, no others are there, and what
\* would stay if it left now are secrets of the profile or writes of its own.
SeenOK(c) ==
    LET f == profileCall[c] IN
    \A n \in Fields :
        /\ f.id \notin halfCleared /\ f.op # "delete" /\ n \in f.refs =>
                Finds(c, n) \/ <<f.id, n>> \in outside
        /\ f.id \notin leftover /\ <<f.id, n>> \notin outside =>
            /\ Finds(c, n) => n \in f.refs /\ ~(f.op = "delete" /\ f.pc = "commit")
            /\ <<f.id, n>> \in secrets =>
                    \/ profile.id = f.id /\ n \in profile.refs
                    \/ backend = "vault" /\ n \in f.written

IdsOK ==
    /\ profile.id <= nextProfile
    /\ \A i \in 1..MaxProfile, n \in Fields : <<i, n>> \in secrets \cup outside => i <= nextProfile
    /\ \A i \in leftover \cup halfCleared : i <= nextProfile

\* SecretsMatchProfile, key by key
HasSecrets == profile.id # 0 /\ profile.id \notin halfCleared =>
    \A n \in profile.refs :
        \/ <<profile.id, n>> \in secrets \cup outside
        \/ \E c \in OnProfile(profile.id) : n \in profileCall[c].cleared
HasOwner == \A i \in 1..MaxProfile, n \in Fields :
    <<i, n>> \in secrets \ outside =>
        \/ i \in leftover
        \/ i = profile.id /\ n \in profile.refs
        \/ OnProfile(i) # {}

ProfileOK ==
    /\ ConnectorsTypeOK /\ IdsOK /\ PairsOK
    /\ \A c \in ProfileCalls : FrameOK(c) /\ (AtWork(c) => KnowsOK(c) /\ SeenOK(c))
    /\ HasSecrets /\ HasOwner

LEMMA EmptyFrame ==
    /\ NoProfileCall \in ProfileFrames /\ NoProfileCall.pc = "idle" /\ NoProfileCall.op = "none"
    /\ NoProfileCall.id = 0 /\ NoProfileCall.refs = {} /\ NoProfileCall.toSet = {}
    /\ NoProfileCall.toClear = {} /\ NoProfileCall.written = {} /\ NoProfileCall.cleared = {}
    BY ConnectorsAssumption DEF NoProfileCall, ProfileFrames, Ids

LEMMA FrameTypes ==
    ASSUME ProfileOK, NEW c \in ProfileCalls
    PROVE  /\ profileCall \in [ProfileCalls -> ProfileFrames] /\ profileCall[c] \in ProfileFrames
           /\ profileCall[c].id \in 0..MaxProfile
           /\ AtWork(c) => profileCall[c].id \in 1..MaxProfile
    BY ConnectorsAssumption DEF ProfileOK, ConnectorsTypeOK, ProfileFrames, Ids, AtWork

LEMMA WorkFrame ==
    ASSUME ProfileOK, NEW c \in ProfileCalls,
           profileCall[c].pc \in {"secrets", "compensate", "commit"}
    PROVE  AtWork(c) /\ KnowsOK(c) /\ SeenOK(c) /\ profileCall[c].op \in {"create", "update", "delete"}
    BY FrameTypes DEF ProfileOK, FrameOK, AtWork, ProfileFrames

(***************************************************************************)
(* Sees, key by key                                                        *)
(***************************************************************************)
LEMMA SeesKeys ==
    ASSUME ProfileOK, NEW c \in ProfileCalls, AtWork(c)
    PROVE  /\ \A n \in Fields : <<profileCall[c].id, n>> \in Sees(c) <=> Finds(c, n)
           /\ \A j \in 1..MaxProfile, n \in Fields :
                j # profileCall[c].id => (<<j, n>> \in Sees(c) <=> <<j, n>> \in secrets)
           /\ Sees(c) \subseteq Keys
<1> DEFINE f == profileCall[c]
<1>1. f.written \subseteq Fields /\ f.cleared \subseteq Fields /\ f.id \in 1..MaxProfile
    BY FrameTypes DEF ProfileFrames
<1>2. secrets \subseteq Keys
    BY DEF ProfileOK, ConnectorsTypeOK
<1> HIDE DEF f
<1>3. CASE backend = "vault"
    BY <1>2, <1>3 DEF Sees, Finds, f
<1>4. CASE backend # "vault"
    <2>1. Sees(c) = (secrets \cup ({f.id} \X f.written)) \ ({f.id} \X f.cleared)
        BY <1>4 DEF Sees, f
    <2>2. \A n : Finds(c, n) <=> (<<f.id, n>> \in secrets \/ n \in f.written) /\ n \notin f.cleared
        BY <1>4 DEF Finds, f
    <2>3. Sees(c) \subseteq Keys
        BY <1>1, <1>2, <2>1 DEF Keys
    <2> QED BY <2>1, <2>2, <2>3 DEF f
<1> QED BY <1>3, <1>4

\* Before a step, for a request on its own
LEMMA RefsHad ==
    ASSUME ProfileOK, NEW c \in ProfileCalls, AtWork(c), profile.id = profileCall[c].id,
           profile.id \notin halfCleared, NEW n \in profile.refs
    PROVE  <<profile.id, n>> \in secrets \cup outside \/ n \in profileCall[c].cleared
<1>1. \A d \in OnProfile(profile.id) : d = c
    BY DEF ProfileOK, PairsOK, OnProfile, AtWork, Marked
<1>2. profile.id # 0
    BY DEF AtWork
<1> QED BY <1>1, <1>2 DEF ProfileOK, HasSecrets

(***************************************************************************)
(* What a request does to the secrets of its own id is no matter to the    *)
(* others: those with the same id are marked.                              *)
(***************************************************************************)
LEMMA Elsewhere ==
    ASSUME ProfileOK, NEW c \in ProfileCalls, AtWork(c), NEW d \in ProfileCalls \ {c}, AtWork(d),
           profileCall'[d] = profileCall[d], UNCHANGED <<backend, profile, outside>>,
           leftover \subseteq leftover', halfCleared \subseteq halfCleared',
           \A j \in 1..MaxProfile, n \in Fields :
                j # profileCall[c].id => (<<j, n>> \in secrets' <=> <<j, n>> \in secrets)
    PROVE  KnowsOK(d)' /\ SeenOK(d)'
<1>1. KnowsOK(d) /\ SeenOK(d)
    BY DEF ProfileOK
<1>2. KnowsOK(d)'
    BY <1>1 DEF KnowsOK, Marked
<1>3. CASE profileCall[d].id = profileCall[c].id
    <2>1. Marked(profileCall[d].id)
        BY <1>3 DEF ProfileOK, PairsOK
    <2> QED BY <1>2, <2>1 DEF SeenOK, Marked
<1>4. CASE profileCall[d].id # profileCall[c].id
    <2>1. \A n \in Fields : <<profileCall[d].id, n>> \in secrets' <=> <<profileCall[d].id, n>> \in secrets
        BY <1>4, FrameTypes
    <2>2. \A n \in Fields : Finds(d, n)' <=> Finds(d, n)
        BY <2>1 DEF Finds
    <2> QED BY <1>1, <1>2, <2>1, <2>2 DEF SeenOK
<1> QED BY <1>3, <1>4

(***************************************************************************)
(* A step of a request on its way, or one that leaves without a commit     *)
(***************************************************************************)
LEMMA OwnStep ==
    ASSUME ProfileOK, NEW c \in ProfileCalls, AtWork(c),
           NEW i, i = profileCall[c].id, NEW r \in ProfileFrames, Proceed(c, r),
           \/ r = NoProfileCall
           \/ /\ r.pc # "idle" /\ r.id = i /\ r.op = profileCall[c].op
              /\ r.op = "delete" => r.refs = profileCall[c].refs
              /\ FrameOK(c)' /\ SeenOK(c)',
           UNCHANGED <<backend, profile, nextProfile, outside>>,
           secrets' \subseteq Keys,
           \A j \in 1..MaxProfile, n \in Fields :
                j # i => (<<j, n>> \in secrets' <=> <<j, n>> \in secrets),
           leftover' = leftover \/ leftover' = leftover \cup {i},
           halfCleared' = halfCleared \/ halfCleared' = halfCleared \cup {i},
           profile.id = i /\ i \notin halfCleared' =>
                \A n \in profile.refs : \/ <<i, n>> \in secrets' \cup outside
                                        \/ r # NoProfileCall /\ n \in r.cleared,
           r = NoProfileCall /\ i \notin leftover' =>
                \A n \in Fields : <<i, n>> \in secrets' \ outside => i = profile.id /\ n \in profile.refs
    PROVE  ProfileOK'
<1>1. /\ profileCall' = [profileCall EXCEPT ![c] = r] /\ profileCall'[c] = r
      /\ \A d \in ProfileCalls \ {c} : profileCall'[d] = profileCall[d]
      /\ profileCall' \in [ProfileCalls -> ProfileFrames]
    BY FrameTypes DEF Proceed
<1>2. i \in 1..MaxProfile /\ i <= nextProfile /\ i \in Ids
    BY FrameTypes DEF ProfileOK, FrameOK, Ids
<1>3. ConnectorsTypeOK'
    BY <1>1, <1>2 DEF ProfileOK, ConnectorsTypeOK, ProfileFrames
<1>4. IdsOK'
    BY <1>2 DEF ProfileOK, IdsOK
<1>5. PairsOK'
    <2>1. \A d \in ProfileCalls : AtWork(d)' =>
            AtWork(d) /\ profileCall'[d].id = profileCall[d].id /\ profileCall'[d].op = profileCall[d].op
        BY <1>1, EmptyFrame DEF AtWork
    <2>2. \A j : Marked(j) => Marked(j)'
        BY DEF Marked
    <2>3. SUFFICES ASSUME NEW c1 \in ProfileCalls, NEW c2 \in ProfileCalls,
                          AtWork(c1)', AtWork(c2)', c1 # c2
                   PROVE  /\ profileCall'[c1].id = profileCall'[c2].id => Marked(profileCall[c1].id)'
                          /\ profileCall'[c1].op # "create" \/ profileCall'[c2].op # "create"
        BY <2>1 DEF PairsOK, Marked
    <2>4. /\ profileCall[c1].id = profileCall[c2].id => Marked(profileCall[c1].id)
          /\ profileCall[c1].op # "create" \/ profileCall[c2].op # "create"
        BY <2>1, <2>3 DEF ProfileOK, PairsOK
    <2> QED BY <2>1, <2>2, <2>3, <2>4
<1>6. \A d \in ProfileCalls : FrameOK(d)' /\ (AtWork(d)' => KnowsOK(d)' /\ SeenOK(d)')
    <2>1. TAKE d \in ProfileCalls
    <2>2. CASE d # c
        <3>1. FrameOK(d)' /\ (AtWork(d)' => AtWork(d))
            BY <1>1, <2>2 DEF ProfileOK, FrameOK, AtWork
        <3> QED BY <1>1, <2>2, <3>1, Elsewhere
    <2>3. CASE d = c /\ r = NoProfileCall
        <3>1. nextProfile' \in Nat
            BY <1>3, ConnectorsAssumption DEF ConnectorsTypeOK, Ids
        <3>2. profileCall'[d] = NoProfileCall
            BY <1>1, <2>3
        <3> QED BY <3>1, <3>2, EmptyFrame DEF FrameOK, AtWork
    <2>4. CASE d = c /\ r # NoProfileCall
        <3>1. KnowsOK(c)'
            BY <1>1, <2>4 DEF ProfileOK, KnowsOK, Marked
        <3> QED BY <2>4, <3>1
    <2> QED BY <2>2, <2>3, <2>4
<1>7. HasSecrets'
    <2>1. SUFFICES ASSUME profile.id # 0, profile.id \notin halfCleared', NEW n \in profile.refs
                   PROVE  \/ <<profile.id, n>> \in secrets' \cup outside
                          \/ \E d \in OnProfile(profile.id)' : n \in profileCall'[d].cleared
        BY DEF HasSecrets, OnProfile
    <2>2. n \in Fields /\ profile.id \in 1..MaxProfile
        BY <2>1, ConnectorsAssumption DEF ProfileOK, ConnectorsTypeOK, Ids
    <2>3. CASE profile.id = i
        <3>1. \/ <<i, n>> \in secrets' \cup outside
              \/ r # NoProfileCall /\ n \in r.cleared
            BY <2>1, <2>3
        <3> QED BY <1>1, <2>3, <3>1 DEF OnProfile
    <2>4. CASE profile.id # i
        <3>1. \/ <<profile.id, n>> \in secrets \cup outside
              \/ \E d \in OnProfile(profile.id) : n \in profileCall[d].cleared
            BY <2>1 DEF ProfileOK, HasSecrets
        <3>2. <<profile.id, n>> \in secrets => <<profile.id, n>> \in secrets'
            BY <2>2, <2>4
        <3>3. \A d \in OnProfile(profile.id) : d \in OnProfile(profile.id)' /\ profileCall'[d] = profileCall[d]
            BY <1>1, <2>4 DEF OnProfile
        <3> QED BY <3>1, <3>2, <3>3
    <2> QED BY <2>3, <2>4
<1>8. HasOwner'
    <2>1. SUFFICES ASSUME NEW j \in 1..MaxProfile, NEW n \in Fields, <<j, n>> \in secrets' \ outside,
                          j \notin leftover', ~(j = profile.id /\ n \in profile.refs)
                   PROVE  OnProfile(j)' # {}
        BY DEF HasOwner
    <2>2. CASE j = i
        <3>1. r # NoProfileCall
            BY <2>1, <2>2
        <3> QED BY <1>1, <2>2, <3>1 DEF OnProfile
    <2>3. CASE j # i
        <3>1. OnProfile(j) # {}
            BY <2>1, <2>3 DEF ProfileOK, HasOwner
        <3> QED BY <1>1, <2>3, <3>1 DEF OnProfile
    <2> QED BY <2>2, <2>3
<1> QED BY <1>3, <1>4, <1>5, <1>6, <1>7, <1>8 DEF ProfileOK

LEMMA ProfileStart == ConnectorsInit => ProfileOK
<1> SUFFICES ASSUME ConnectorsInit PROVE ProfileOK
    OBVIOUS
<1>1. /\ NoProfile.id = 0 /\ NoProfile \in [id : Ids, active : BOOLEAN, refs : SUBSET Fields]
    BY ConnectorsAssumption DEF NoProfile, Ids
<1>2. ConnectorsTypeOK
    BY <1>1, EmptyFrame, ConnectorsAssumption DEF ConnectorsInit, ConnectorsTypeOK, ProfileFrames, Ids
<1>3. \A c \in ProfileCalls : FrameOK(c) /\ ~AtWork(c)
    BY EmptyFrame DEF ConnectorsInit, FrameOK, AtWork
<1> QED BY <1>1, <1>2, <1>3 DEF ConnectorsInit, ProfileOK, IdsOK, PairsOK, HasSecrets, HasOwner

(***************************************************************************)
(* create_profile: the secrets of an id nobody else works on               *)
(***************************************************************************)
LEMMA AddSecretStep ==
    ASSUME ProfileOK, NEW c \in ProfileCalls, Doing(c, "create") \/ Doing(c, "update"),
           NEW n \in profileCall[c].toSet, <<profileCall[c].id, n>> \notin Sees(c),
           AddSecret(c, n), UNCHANGED <<backend, profile, nextProfile, connectorsHistory>>
    PROVE  ProfileOK'
<1> DEFINE f == profileCall[c]
           i == f.id
           r == [f EXCEPT !.toSet = @ \ {n}, !.refs = @ \cup {n}, !.written = @ \cup {n},
                          !.cleared = @ \ {n}]
<1>1. AtWork(c) /\ KnowsOK(c) /\ SeenOK(c) /\ FrameOK(c) /\ f.op \in {"create", "update"} /\ f.pc = "secrets"
    BY WorkFrame DEF Doing, ProfileOK
<1>2. f \in ProfileFrames /\ i \in 1..MaxProfile /\ n \in Fields
    BY <1>1, FrameTypes DEF ProfileFrames
<1>3. /\ r \in ProfileFrames /\ r.pc = f.pc /\ r.op = f.op /\ r.id = i
      /\ r.toSet = f.toSet \ {n} /\ r.refs = f.refs \cup {n} /\ r.written = f.written \cup {n}
      /\ r.cleared = f.cleared \ {n} /\ r.toClear = f.toClear
    BY <1>2 DEF ProfileFrames
<1>4. Proceed(c, r) /\ secrets' = IF backend = "vault" THEN secrets \cup {<<i, n>>} ELSE secrets
    BY DEF AddSecret
<1>5. f.cleared = {}
    BY <1>1 DEF FrameOK
<1> HIDE DEF r
<1>6. profileCall'[c] = r
    BY <1>4, FrameTypes DEF Proceed
<1>7. secrets' \subseteq Keys /\ secrets \subseteq secrets' /\
      \A j \in 1..MaxProfile, m \in Fields :
            <<j, m>> # <<i, n>> => (<<j, m>> \in secrets' <=> <<j, m>> \in secrets)
    BY <1>2, <1>4 DEF ProfileOK, ConnectorsTypeOK, Keys
<1>8. FrameOK(c)'
    BY <1>1, <1>3, <1>5, <1>6 DEF FrameOK
<1>9. \A m \in Fields : Finds(c, m)' <=> Finds(c, m) \/ m = n
    BY <1>2, <1>3, <1>4, <1>5, <1>6, <1>7 DEF Finds
<1>10. SeenOK(c)'
    <2>1. SUFFICES ASSUME NEW m \in Fields
          PROVE  /\ i \notin halfCleared /\ m \in r.refs => Finds(c, m)' \/ <<i, m>> \in outside
                 /\ i \notin leftover /\ <<i, m>> \notin outside =>
                        /\ Finds(c, m)' => m \in r.refs
                        /\ <<i, m>> \in secrets' => \/ profile.id = i /\ m \in profile.refs
                                                    \/ backend = "vault" /\ m \in r.written
        BY <1>1, <1>3, <1>6 DEF SeenOK, connectorsHistory
    <2>2. CASE m = n
        <3>1. <<i, n>> \in secrets' => backend = "vault" \/ <<i, n>> \in secrets
            BY <1>4
        <3>2. n \notin f.cleared
            BY <1>5
        <3>3. ~Finds(c, n)
            BY <1>1, <1>2, SeesKeys
        <3>4. backend # "vault" => <<i, n>> \notin secrets
            BY <3>2, <3>3 DEF Finds
        <3> QED BY <1>3, <1>9, <2>2, <3>1, <3>4
    <2>3. CASE m # n
        <3>1. <<i, m>> \in secrets' <=> <<i, m>> \in secrets
            BY <1>2, <1>7, <2>3
        <3> QED BY <1>1, <1>3, <1>9, <2>3, <3>1 DEF SeenOK
    <2> QED BY <2>2, <2>3
<1>11. ASSUME profile.id = i, i \notin halfCleared', NEW m \in profile.refs
       PROVE  <<i, m>> \in secrets' \cup outside
    BY <1>1, <1>5, <1>7, <1>11, RefsHad DEF connectorsHistory
<1> DEFINE j == i
<1>12. r # NoProfileCall /\ r.pc # "idle" /\ r.op # "delete"
    BY <1>1, <1>3, EmptyFrame
<1> QED BY <1>1, <1>3, <1>4, <1>7, <1>8, <1>10, <1>11, <1>12, OwnStep DEF connectorsHistory

LEMMA WriteSecretStep ==
    ASSUME ProfileOK, NEW c \in ProfileCalls, WriteSecret(c)
    PROVE  ProfileOK'
<1>1. PICK n \in profileCall[c].toSet :
        \/ <<profileCall[c].id, n>> \notin Sees(c) /\ AddSecret(c, n)
        \/ Proceed(c, [profileCall[c] EXCEPT !.pc = "compensate"]) /\ UNCHANGED secrets
    BY DEF WriteSecret
<1>2. CASE <<profileCall[c].id, n>> \notin Sees(c) /\ AddSecret(c, n)
    BY <1>2, AddSecretStep DEF WriteSecret
<1>3. CASE Proceed(c, [profileCall[c] EXCEPT !.pc = "compensate"]) /\ UNCHANGED secrets
    <2> DEFINE f == profileCall[c]
               i == f.id
               r == [f EXCEPT !.pc = "compensate"]
    <2>1. AtWork(c) /\ KnowsOK(c) /\ SeenOK(c) /\ FrameOK(c) /\ f.op = "create"
        BY WorkFrame DEF WriteSecret, Doing, ProfileOK
    <2>2. f \in ProfileFrames /\ i \in 1..MaxProfile
        BY <2>1, FrameTypes
    <2>3. /\ r \in ProfileFrames /\ r.pc = "compensate" /\ r.op = f.op /\ r.id = i
          /\ r.toSet = f.toSet /\ r.refs = f.refs /\ r.written = f.written
          /\ r.cleared = f.cleared /\ r.toClear = f.toClear
        BY <2>2 DEF ProfileFrames
    <2>4. /\ Proceed(c, r) /\ UNCHANGED <<secrets, backend, profile, nextProfile, outside,
                                          leftover, halfCleared>>
        BY <1>3 DEF WriteSecret, connectorsHistory
    <2> HIDE DEF r
    <2>5. profileCall'[c] = r
        BY <2>4, FrameTypes DEF Proceed
    <2>6. FrameOK(c)' /\ SeenOK(c)'
        BY <2>1, <2>2, <2>3, <2>4, <2>5 DEF FrameOK, SeenOK, Finds
    <2>7. r # NoProfileCall /\ profile.id # i
        BY <2>1, <2>2, <2>3, EmptyFrame DEF KnowsOK
    <2>8. secrets' \subseteq Keys
        BY <2>4 DEF ProfileOK, ConnectorsTypeOK
    <2> QED BY <2>1, <2>3, <2>4, <2>6, <2>7, <2>8, OwnStep
<1> QED BY <1>1, <1>2, <1>3

\* A request that leaves with what it wrote taken back, or marked
LEMMA CompensateStep ==
    ASSUME ProfileOK, NEW c \in ProfileCalls, Compensate(c)
    PROVE  ProfileOK'
<1> DEFINE f == profileCall[c]
           i == f.id
<1>1. AtWork(c) /\ KnowsOK(c) /\ SeenOK(c) /\ FrameOK(c) /\ f.op = "create" /\ i \in 1..MaxProfile
    BY WorkFrame, FrameTypes DEF Compensate, FrameOK, ProfileOK
<1>2. profile.id # i
    BY <1>1 DEF KnowsOK
<1>3. PICK done \in IF backend = "vault" THEN SUBSET ToCompensate(f) ELSE {{}} :
        /\ secrets' = secrets \ done
        /\ leftover' = IF done = ToCompensate(f) THEN leftover ELSE leftover \cup {i}
    BY DEF Compensate
<1>4. done \subseteq {i} \X f.written
    BY <1>3 DEF ToCompensate
<1>5. /\ secrets' \subseteq Keys
      /\ \A j \in 1..MaxProfile, n \in Fields :
            j # i => (<<j, n>> \in secrets' <=> <<j, n>> \in secrets)
    BY <1>3, <1>4 DEF ProfileOK, ConnectorsTypeOK
<1>6. ASSUME i \notin leftover', NEW n \in Fields, <<i, n>> \in secrets' \ outside PROVE FALSE
    <2>1. done = {i} \X f.written /\ i \notin leftover
        BY <1>3, <1>6 DEF ToCompensate
    <2>2. <<i, n>> \in secrets /\ n \notin f.written
        BY <1>3, <1>6, <2>1
    <2> QED BY <1>1, <1>2, <1>6, <2>1, <2>2 DEF SeenOK
<1>7. Proceed(c, NoProfileCall) /\ UNCHANGED <<backend, profile, nextProfile, outside, halfCleared>>
    BY DEF Compensate, Leave
<1> QED BY <1>1, <1>2, <1>3, <1>5, <1>6, <1>7, EmptyFrame, OwnStep

(***************************************************************************)
(* update_profile: writes come before deletes, so nothing is gone before   *)
(* the last write is done.                                                 *)
(***************************************************************************)
LEMMA SetFieldStep ==
    ASSUME ProfileOK, NEW c \in ProfileCalls, NEW n \in Fields, SetField(c, n)
    PROVE  ProfileOK'
<1>1. CASE Known(c, n)
    <2> DEFINE f == profileCall[c]
               i == f.id
               r == [f EXCEPT !.toSet = @ \ {n}]
    <2>1. AtWork(c) /\ KnowsOK(c) /\ SeenOK(c) /\ FrameOK(c) /\ f.op = "update" /\ f.pc = "secrets"
        BY WorkFrame DEF SetField, Doing, ProfileOK
    <2>2. f \in ProfileFrames /\ i \in 1..MaxProfile
        BY <2>1, FrameTypes
    <2>3. /\ r \in ProfileFrames /\ r.pc = f.pc /\ r.op = f.op /\ r.id = i
          /\ r.toSet = f.toSet \ {n} /\ r.refs = f.refs /\ r.written = f.written
          /\ r.cleared = f.cleared /\ r.toClear = f.toClear
        BY <2>2 DEF ProfileFrames
    <2>4. /\ Proceed(c, r) /\ UNCHANGED <<secrets, backend, profile, nextProfile, outside,
                                          leftover, halfCleared>>
        BY <1>1 DEF SetField, connectorsHistory
    <2> HIDE DEF r
    <2>5. profileCall'[c] = r
        BY <2>4, FrameTypes DEF Proceed
    <2>6. FrameOK(c)' /\ SeenOK(c)'
        BY <2>1, <2>2, <2>3, <2>4, <2>5 DEF FrameOK, SeenOK, Finds
    <2>7. r # NoProfileCall /\ r.pc # "idle" /\ r.op # "delete"
        BY <2>1, <2>3, EmptyFrame
    <2>8. secrets' \subseteq Keys
        BY <2>4 DEF ProfileOK, ConnectorsTypeOK
    <2>9. ASSUME profile.id = i, i \notin halfCleared, NEW m \in profile.refs
          PROVE  <<i, m>> \in secrets' \cup outside \/ m \in r.cleared
        BY <2>1, <2>3, <2>4, <2>9, RefsHad
    <2> QED BY <2>1, <2>3, <2>4, <2>6, <2>7, <2>8, <2>9, OwnStep
<1>2. CASE <<profileCall[c].id, n>> \notin Sees(c) /\ AddSecret(c, n)
    BY <1>2, AddSecretStep DEF SetField
<1> QED BY <1>1, <1>2 DEF SetField

LEMMA SetFieldRefusedStep ==
    ASSUME ProfileOK, NEW c \in ProfileCalls, NEW n \in Fields, SetFieldRefused(c, n)
    PROVE  ProfileOK'
<1> DEFINE f == profileCall[c]
           i == f.id
<1>1. AtWork(c) /\ SeenOK(c) /\ FrameOK(c) /\ f.op = "update" /\ i \in 1..MaxProfile
    BY WorkFrame, FrameTypes DEF SetFieldRefused, Doing, ProfileOK
<1>2. f.cleared = {}
    BY <1>1 DEF FrameOK, SetFieldRefused
<1>3. /\ Proceed(c, NoProfileCall)
      /\ leftover' = IF f.written = {} THEN leftover ELSE leftover \cup {i}
      /\ UNCHANGED <<backend, profile, nextProfile, secrets, outside, halfCleared>>
    BY DEF SetFieldRefused, Leave
<1>4. secrets' \subseteq Keys
    BY <1>3 DEF ProfileOK, ConnectorsTypeOK
<1>5. ASSUME i \notin leftover', NEW m \in Fields, <<i, m>> \in secrets' \ outside
      PROVE  i = profile.id /\ m \in profile.refs
    BY <1>1, <1>3, <1>5 DEF SeenOK
<1>6. ASSUME profile.id = i, i \notin halfCleared', NEW m \in profile.refs
      PROVE  <<i, m>> \in secrets' \cup outside
    BY <1>1, <1>2, <1>3, <1>6, RefsHad
<1> QED BY <1>1, <1>3, <1>4, <1>5, <1>6, EmptyFrame, OwnStep

LEMMA ClearFieldStep ==
    ASSUME ProfileOK, NEW c \in ProfileCalls, NEW n \in Fields, ClearField(c, n)
    PROVE  ProfileOK'
<1> DEFINE f == profileCall[c]
           i == f.id
           known == n \in f.refs
           r == [f EXCEPT !.toClear = @ \ {n}, !.refs = @ \ {n}, !.written = @ \ {n},
                          !.cleared = IF known THEN @ \cup {n} ELSE @]
<1>1. AtWork(c) /\ KnowsOK(c) /\ SeenOK(c) /\ FrameOK(c) /\ f.op = "update" /\ f.pc = "secrets"
      /\ f.toSet = {}
    BY WorkFrame DEF ClearField, Doing, ProfileOK, ClearsReady
<1>2. f \in ProfileFrames /\ i \in 1..MaxProfile
    BY <1>1, FrameTypes
<1>3. /\ r \in ProfileFrames /\ r.pc = f.pc /\ r.op = f.op /\ r.id = i
      /\ r.toSet = f.toSet /\ r.refs = f.refs \ {n} /\ r.written = f.written \ {n}
      /\ r.cleared = (IF known THEN f.cleared \cup {n} ELSE f.cleared)
      /\ r.toClear = f.toClear \ {n}
    BY <1>2 DEF ProfileFrames
<1>4. /\ Proceed(c, r)
      /\ secrets' = IF backend = "vault" /\ known THEN secrets \ {<<i, n>>} ELSE secrets
      /\ UNCHANGED <<backend, profile, nextProfile, outside, leftover, halfCleared>>
    BY DEF ClearField, connectorsHistory
<1> HIDE DEF r
<1>5. profileCall'[c] = r
    BY <1>4, FrameTypes DEF Proceed
<1>6. secrets' \subseteq Keys /\
      \A j \in 1..MaxProfile, m \in Fields :
            <<j, m>> # <<i, n>> => (<<j, m>> \in secrets' <=> <<j, m>> \in secrets)
    BY <1>4 DEF ProfileOK, ConnectorsTypeOK
<1>7. FrameOK(c)'
    BY <1>1, <1>3, <1>4, <1>5 DEF FrameOK
<1>8. \A m \in Fields \ {n} : (Finds(c, m)' <=> Finds(c, m)) /\ (<<i, m>> \in secrets' <=> <<i, m>> \in secrets)
    BY <1>2, <1>3, <1>4, <1>5, <1>6 DEF Finds
<1>9. known => ~Finds(c, n)'
    BY <1>3, <1>4, <1>5 DEF Finds
<1>10. ~known => (Finds(c, n)' => Finds(c, n)) /\ n \notin f.written /\ secrets' = secrets
    BY <1>1, <1>3, <1>4, <1>5 DEF Finds, FrameOK
<1>11. SeenOK(c)'
    <2>1. SUFFICES ASSUME NEW m \in Fields
          PROVE  /\ i \notin halfCleared /\ m \in r.refs => Finds(c, m)' \/ <<i, m>> \in outside
                 /\ i \notin leftover /\ <<i, m>> \notin outside =>
                        /\ Finds(c, m)' => m \in r.refs
                        /\ <<i, m>> \in secrets' => \/ profile.id = i /\ m \in profile.refs
                                                    \/ backend = "vault" /\ m \in r.written
        BY <1>1, <1>3, <1>4, <1>5 DEF SeenOK
    <2>2. CASE m # n
        BY <1>1, <1>3, <1>8, <2>2 DEF SeenOK
    <2>3. CASE m = n /\ known
        BY <1>1, <1>3, <1>4, <1>9, <2>3 DEF SeenOK
    <2>4. CASE m = n /\ ~known
        BY <1>1, <1>3, <1>10, <2>4 DEF SeenOK
    <2> QED BY <2>2, <2>3, <2>4
<1>12. ASSUME profile.id = i, i \notin halfCleared, NEW m \in profile.refs
       PROVE  <<i, m>> \in secrets' \cup outside \/ m \in r.cleared
    <2>1. <<i, m>> \in secrets \cup outside \/ m \in f.cleared
        BY <1>1, <1>12, RefsHad
    <2>2. CASE m = n /\ known
        BY <1>3, <2>2
    <2>3. CASE m # n \/ ~known
        BY <1>3, <1>4, <2>1, <2>3
    <2> QED BY <2>2, <2>3
<1>13. r # NoProfileCall /\ r.pc # "idle" /\ r.op # "delete"
    BY <1>1, <1>3, EmptyFrame
<1> QED BY <1>1, <1>3, <1>4, <1>6, <1>7, <1>11, <1>12, <1>13, OwnStep

LEMMA SecretsDoneStep ==
    ASSUME ProfileOK, NEW c \in ProfileCalls, SecretsDone(c)
    PROVE  ProfileOK'
<1> DEFINE f == profileCall[c]
           i == f.id
           r == [f EXCEPT !.pc = "commit"]
<1>1. AtWork(c) /\ KnowsOK(c) /\ SeenOK(c) /\ FrameOK(c) /\ f.op \in {"create", "update"} /\ f.pc = "secrets"
    BY WorkFrame DEF SecretsDone, ProfileOK
<1>2. f \in ProfileFrames /\ i \in 1..MaxProfile
    BY <1>1, FrameTypes
<1>3. /\ r \in ProfileFrames /\ r.pc = "commit" /\ r.op = f.op /\ r.id = i
      /\ r.toSet = f.toSet /\ r.refs = f.refs /\ r.written = f.written
      /\ r.cleared = f.cleared /\ r.toClear = f.toClear
    BY <1>2 DEF ProfileFrames
<1>4. /\ Proceed(c, r) /\ UNCHANGED <<secrets, backend, profile, nextProfile, outside,
                                      leftover, halfCleared>>
    BY DEF SecretsDone, connectorsHistory
<1> HIDE DEF r
<1>5. profileCall'[c] = r
    BY <1>4, FrameTypes DEF Proceed
<1>6. FrameOK(c)' /\ SeenOK(c)'
    BY <1>1, <1>2, <1>3, <1>4, <1>5 DEF FrameOK, SeenOK, Finds
<1>7. r # NoProfileCall /\ r.pc # "idle" /\ r.op # "delete"
    BY <1>1, <1>3, EmptyFrame
<1>8. secrets' \subseteq Keys
    BY <1>4 DEF ProfileOK, ConnectorsTypeOK
<1>9. ASSUME profile.id = i, i \notin halfCleared, NEW m \in profile.refs
      PROVE  <<i, m>> \in secrets' \cup outside \/ m \in r.cleared
    BY <1>1, <1>3, <1>4, <1>9, RefsHad
<1> QED BY <1>1, <1>3, <1>4, <1>6, <1>7, <1>8, <1>9, OwnStep

(***************************************************************************)
(* delete_profile: what is removed is counted, what stays is marked.       *)
(***************************************************************************)
LEMMA DeleteSecretsStep ==
    ASSUME ProfileOK, NEW c \in ProfileCalls, DeleteSecrets(c)
    PROVE  ProfileOK'
<1> DEFINE f == profileCall[c]
           i == f.id
<1>1. AtWork(c) /\ KnowsOK(c) /\ SeenOK(c) /\ FrameOK(c) /\ f.op = "delete" /\ f.pc = "secrets"
    BY WorkFrame DEF DeleteSecrets, Doing, ProfileOK
<1>2. f \in ProfileFrames /\ i \in 1..MaxProfile /\ f.toClear \subseteq Fields
    BY <1>1, FrameTypes DEF ProfileFrames
<1>3. f.cleared = {} /\ f.written = {} /\ f.toSet = {} /\ f.toClear = f.refs
    BY <1>1 DEF FrameOK
<1>4. PICK gone \in IF backend = "vault" THEN SUBSET f.toClear ELSE {f.toClear} :
        /\ secrets' = IF backend = "vault" THEN secrets \ ({i} \X gone) ELSE secrets
        /\ Proceed(c, [f EXCEPT !.pc = "commit", !.cleared = gone])
        /\ leftover' = IF gone = f.toClear THEN leftover ELSE leftover \cup {i}
    BY DEF DeleteSecrets
<1> DEFINE r == [f EXCEPT !.pc = "commit", !.cleared = gone]
<1>5. gone \subseteq f.toClear
    BY <1>4
<1>6. /\ r \in ProfileFrames /\ r.pc = "commit" /\ r.op = "delete" /\ r.id = i
      /\ r.toSet = f.toSet /\ r.refs = f.refs /\ r.written = f.written
      /\ r.cleared = gone /\ r.toClear = f.toClear
    BY <1>1, <1>2, <1>5 DEF ProfileFrames
<1>7. Proceed(c, r) /\ UNCHANGED <<backend, profile, nextProfile, outside, halfCleared>>
    BY <1>4 DEF DeleteSecrets
<1> HIDE DEF r
<1>8. profileCall'[c] = r
    BY <1>7, FrameTypes DEF Proceed
<1>9. secrets' \subseteq Keys /\
      \A j \in 1..MaxProfile, m \in Fields :
            j # i => (<<j, m>> \in secrets' <=> <<j, m>> \in secrets)
    BY <1>4 DEF ProfileOK, ConnectorsTypeOK
<1>10. FrameOK(c)'
    BY <1>1, <1>3, <1>6, <1>7, <1>8 DEF FrameOK
<1>11. SeenOK(c)'
    <2>1. SUFFICES ASSUME i \notin leftover', NEW m \in Fields, <<i, m>> \notin outside
          PROVE  /\ ~Finds(c, m)'
                 /\ <<i, m>> \in secrets' => profile.id = i /\ m \in profile.refs
        BY <1>6, <1>7, <1>8 DEF SeenOK
    <2>2. gone = f.refs /\ i \notin leftover
        BY <1>3, <1>4, <2>1
    <2>3. (<<i, m>> \in secrets => profile.id = i /\ m \in profile.refs) /\ (Finds(c, m) => m \in f.refs)
        BY <1>1, <1>3, <2>1, <2>2 DEF SeenOK
    <2>4. <<i, m>> \in secrets => m \in f.refs
        BY <1>1, <2>2, <2>3 DEF KnowsOK, Marked
    <2>5. CASE backend = "vault"
        BY <1>4, <1>6, <1>7, <1>8, <2>2, <2>3, <2>4, <2>5 DEF Finds
    <2>6. CASE backend # "vault"
        BY <1>3, <1>4, <1>6, <1>7, <1>8, <2>2, <2>3, <2>4, <2>6 DEF Finds
    <2> QED BY <2>5, <2>6
<1>12. ASSUME profile.id = i, i \notin halfCleared, NEW m \in profile.refs
       PROVE  <<i, m>> \in secrets' \cup outside \/ m \in r.cleared
    <2>1. <<i, m>> \in secrets \cup outside
        BY <1>1, <1>3, <1>12, RefsHad
    <2> QED BY <1>4, <1>6, <2>1
<1>13. r # NoProfileCall /\ r.pc # "idle"
    BY <1>6, EmptyFrame
<1> QED BY <1>1, <1>3, <1>4, <1>6, <1>7, <1>9, <1>10, <1>11, <1>12, <1>13, OwnStep

(***************************************************************************)
(* A request that is cut short                                             *)
(***************************************************************************)
LEMMA AbandonStep ==
    ASSUME ProfileOK, NEW c \in ProfileCalls, Abandon(c), profileCall[c].id # 0
    PROVE  ProfileOK'
<1> DEFINE f == profileCall[c]
           i == f.id
<1>1. AtWork(c) /\ SeenOK(c) /\ FrameOK(c) /\ i \in 1..MaxProfile
    BY FrameTypes DEF Abandon, AtWork, ProfileOK
<1>2. /\ Proceed(c, NoProfileCall)
      /\ leftover' = IF f.written # {} THEN leftover \cup {i} ELSE leftover
      /\ halfCleared' = IF f.cleared # {} /\ f.toSet = {} THEN halfCleared \cup {i} ELSE halfCleared
      /\ UNCHANGED <<backend, profile, nextProfile, secrets, outside>>
    BY DEF Abandon, Leave
<1>3. secrets' \subseteq Keys
    BY <1>2 DEF ProfileOK, ConnectorsTypeOK
<1>4. ASSUME i \notin leftover', NEW m \in Fields, <<i, m>> \in secrets' \ outside
      PROVE  i = profile.id /\ m \in profile.refs
    BY <1>1, <1>2, <1>4 DEF SeenOK
<1>5. ASSUME profile.id = i, i \notin halfCleared', NEW m \in profile.refs
      PROVE  <<i, m>> \in secrets' \cup outside
    <2>1. f.cleared = {} /\ i \notin halfCleared
        BY <1>1, <1>2, <1>5 DEF FrameOK
    <2> QED BY <1>1, <1>2, <1>5, <2>1, RefsHad
<1> QED BY <1>1, <1>2, <1>3, <1>4, <1>5, EmptyFrame, OwnStep

(***************************************************************************)
(* A request that has no id yet, or none any more                          *)
(***************************************************************************)
LEMMA NoIdStep ==
    ASSUME ProfileOK, NEW c \in ProfileCalls, ~AtWork(c), NEW r \in ProfileFrames, Proceed(c, r),
           r.id = 0 /\ r.refs = {} /\ r.written = {} /\ r.cleared = {} /\ r.toClear = {},
           \/ r.pc = "idle" /\ r.op = "none"
           \/ r.pc = "insert" /\ r.op = "create",
           UNCHANGED <<backend, profile, nextProfile, secrets, connectorsHistory>>
    PROVE  ProfileOK'
<1>1. /\ profileCall'[c] = r /\ \A d \in ProfileCalls \ {c} : profileCall'[d] = profileCall[d]
      /\ profileCall' \in [ProfileCalls -> ProfileFrames]
    BY FrameTypes DEF Proceed
<1>2. ConnectorsTypeOK' /\ IdsOK' /\ nextProfile \in Nat
    BY <1>1, ConnectorsAssumption
    DEF ProfileOK, ConnectorsTypeOK, ProfileFrames, IdsOK, connectorsHistory, Ids
<1>3. /\ ~AtWork(c)'
      /\ \A d \in ProfileCalls \ {c} : AtWork(d)' => AtWork(d)
    BY <1>1 DEF AtWork
<1>4. PairsOK'
    BY <1>1, <1>3 DEF ProfileOK, PairsOK, Marked, connectorsHistory
<1>5. \A d \in ProfileCalls : FrameOK(d)' /\ (AtWork(d)' => KnowsOK(d)' /\ SeenOK(d)')
    <2>1. FrameOK(c)'
        BY <1>1, <1>2 DEF FrameOK
    <2>2. ASSUME NEW d \in ProfileCalls \ {c} PROVE FrameOK(d)' /\ (AtWork(d)' => KnowsOK(d)' /\ SeenOK(d)')
        BY <1>1, <1>3 DEF ProfileOK, FrameOK, KnowsOK, SeenOK, Marked, Finds, connectorsHistory
    <2> QED BY <1>3, <2>1, <2>2
<1>6. \A j : j # 0 => \A d \in OnProfile(j) : d \in OnProfile(j)' /\ profileCall'[d] = profileCall[d]
    BY <1>1 DEF OnProfile, AtWork
<1>7. HasSecrets'
    <2>1. SUFFICES ASSUME profile.id # 0, profile.id \notin halfCleared, NEW n \in profile.refs
                   PROVE  \/ <<profile.id, n>> \in secrets \cup outside
                          \/ \E d \in OnProfile(profile.id)' : n \in profileCall'[d].cleared
        BY DEF HasSecrets, OnProfile, connectorsHistory
    <2> QED BY <1>6, <2>1 DEF ProfileOK, HasSecrets
<1>8. HasOwner'
    <2>1. SUFFICES ASSUME NEW j \in 1..MaxProfile, NEW n \in Fields, <<j, n>> \in secrets \ outside,
                          j \notin leftover, ~(j = profile.id /\ n \in profile.refs)
                   PROVE  OnProfile(j)' # {}
        BY DEF HasOwner, connectorsHistory
    <2>2. OnProfile(j) # {} /\ j # 0
        BY <2>1 DEF ProfileOK, HasOwner
    <2> QED BY <1>6, <2>2
<1> QED BY <1>2, <1>4, <1>5, <1>7, <1>8 DEF ProfileOK

(***************************************************************************)
(* A request joins those on a profile: it finds what the property says, or *)
(* all are marked.                                                         *)
(***************************************************************************)
LEMMA JoinStep ==
    ASSUME ProfileOK, NEW c \in ProfileCalls, ~AtWork(c), NEW r \in ProfileFrames, Proceed(c, r),
           r.pc = "secrets", r.id \in 1..MaxProfile, FrameOK(c)', KnowsOK(c)', SeenOK(c)',
           nextProfile' \in Ids, nextProfile <= nextProfile',
           UNCHANGED <<backend, profile, secrets, outside>>,
           leftover' \subseteq Ids, leftover \subseteq leftover',
           halfCleared' \subseteq Ids, halfCleared \subseteq halfCleared',
           \A i \in leftover' \cup halfCleared' : i <= nextProfile',
           OnProfile(r.id) # {} => r.id \in leftover' /\ r.id \in halfCleared',
           r.op = "create" => \A d \in ProfileCalls : AtWork(d) => profileCall[d].op # "create"
    PROVE  ProfileOK'
<1>1. /\ profileCall'[c] = r /\ \A d \in ProfileCalls \ {c} : profileCall'[d] = profileCall[d]
      /\ profileCall' \in [ProfileCalls -> ProfileFrames]
    BY FrameTypes DEF Proceed
<1>2. ConnectorsTypeOK'
    BY <1>1 DEF ProfileOK, ConnectorsTypeOK, ProfileFrames
<1>3. IdsOK'
    <2>1. /\ profile.id \in Nat /\ nextProfile \in Nat /\ nextProfile' \in Nat
        BY ConnectorsAssumption DEF ProfileOK, ConnectorsTypeOK, Ids
    <2> QED BY <2>1 DEF ProfileOK, IdsOK
<1>4. \A d \in ProfileCalls \ {c} : AtWork(d)' => AtWork(d)
    BY <1>1 DEF AtWork
<1>5. PairsOK'
    <2>1. \A j : Marked(j) => Marked(j)'
        BY DEF Marked
    <2>2. \A d \in ProfileCalls \ {c} : AtWork(d)' /\ profileCall[d].id = r.id =>
            r.id \in leftover' /\ r.id \in halfCleared'
        BY <1>4 DEF OnProfile, AtWork
    <2>3. SUFFICES ASSUME NEW c1 \in ProfileCalls, NEW c2 \in ProfileCalls,
                          AtWork(c1)', AtWork(c2)', c1 # c2
                   PROVE  /\ profileCall'[c1].id = profileCall'[c2].id =>
                                profileCall'[c1].id \in leftover' /\ profileCall'[c1].id \in halfCleared'
                          /\ profileCall'[c1].op # "create" \/ profileCall'[c2].op # "create"
        BY DEF PairsOK, Marked
    <2>4. CASE c1 # c /\ c2 # c
        <3>1. AtWork(c1) /\ AtWork(c2) /\ profileCall'[c1] = profileCall[c1] /\ profileCall'[c2] = profileCall[c2]
            BY <1>1, <1>4, <2>3, <2>4
        <3>2. /\ profileCall[c1].id = profileCall[c2].id => Marked(profileCall[c1].id)
              /\ profileCall[c1].op # "create" \/ profileCall[c2].op # "create"
            BY <2>3, <3>1 DEF ProfileOK, PairsOK
        <3>3. Marked(profileCall[c1].id) => profileCall[c1].id \in leftover' /\ profileCall[c1].id \in halfCleared'
            BY DEF Marked
        <3> QED BY <3>1, <3>2, <3>3
    <2>5. CASE c1 = c
        <3>1. AtWork(c2) /\ profileCall'[c2] = profileCall[c2] /\ profileCall'[c1] = r
            BY <1>1, <1>4, <2>3, <2>5
        <3>2. r.id = profileCall[c2].id => r.id \in leftover' /\ r.id \in halfCleared'
            BY <2>2, <2>3, <2>5, <3>1
        <3> QED BY <3>1, <3>2
    <2>6. CASE c2 = c
        <3>1. AtWork(c1) /\ profileCall'[c1] = profileCall[c1] /\ profileCall'[c2] = r
            BY <1>1, <1>4, <2>3, <2>6
        <3>2. r.id = profileCall[c1].id => r.id \in leftover' /\ r.id \in halfCleared'
            BY <2>2, <2>3, <2>6, <3>1
        <3> QED BY <3>1, <3>2
    <2> QED BY <2>4, <2>5, <2>6
<1>6. \A d \in ProfileCalls : FrameOK(d)' /\ (AtWork(d)' => KnowsOK(d)' /\ SeenOK(d)')
    <2>1. ASSUME NEW d \in ProfileCalls \ {c} PROVE FrameOK(d)'
        <3>1. FrameOK(d) /\ profileCall'[d] = profileCall[d]
            BY <1>1 DEF ProfileOK
        <3>2. profileCall[d].id \in Nat /\ nextProfile \in Nat /\ nextProfile' \in Nat
            BY FrameTypes, ConnectorsAssumption DEF ProfileOK, ConnectorsTypeOK, Ids
        <3> QED BY <3>1, <3>2 DEF FrameOK
    <2>2. ASSUME NEW d \in ProfileCalls \ {c}, AtWork(d)' PROVE KnowsOK(d)' /\ SeenOK(d)'
        BY <1>1, <1>4, <2>2 DEF ProfileOK, KnowsOK, SeenOK, Marked, Finds
    <2> QED BY <2>1, <2>2
<1>7. \A j : \A d \in OnProfile(j) : j # 0 => d \in OnProfile(j)' /\ profileCall'[d] = profileCall[d]
    BY <1>1 DEF OnProfile, AtWork
<1>8. HasSecrets'
    <2>1. SUFFICES ASSUME profile.id # 0, profile.id \notin halfCleared', NEW n \in profile.refs
                   PROVE  \/ <<profile.id, n>> \in secrets \cup outside
                          \/ \E d \in OnProfile(profile.id)' : n \in profileCall'[d].cleared
        BY DEF HasSecrets, OnProfile
    <2> QED BY <1>7, <2>1 DEF ProfileOK, HasSecrets
<1>9. HasOwner'
    <2>1. SUFFICES ASSUME NEW j \in 1..MaxProfile, NEW n \in Fields, <<j, n>> \in secrets \ outside,
                          j \notin leftover', ~(j = profile.id /\ n \in profile.refs)
                   PROVE  OnProfile(j)' # {}
        BY DEF HasOwner
    <2>2. OnProfile(j) # {} /\ j # 0
        BY <2>1 DEF ProfileOK, HasOwner
    <2> QED BY <1>7, <2>2
<1> QED BY <1>2, <1>3, <1>5, <1>6, <1>8, <1>9 DEF ProfileOK

LEMMA StartOnStep ==
    ASSUME ProfileOK, NEW c \in ProfileCalls, NEW op \in {"update", "delete"},
           NEW toSet \in SUBSET Fields, NEW toClear \in SUBSET Fields,
           op = "delete" => toSet = {} /\ toClear = profile.refs,
           StartOn(c, op, toSet, toClear)
    PROVE  ProfileOK'
<1> DEFINE i == profile.id
           r == [NoProfileCall EXCEPT !.pc = "secrets", !.op = op, !.id = i,
                                      !.refs = profile.refs, !.toSet = toSet, !.toClear = toClear]
<1>1. /\ i \in Ids /\ i # 0 /\ profile.refs \subseteq Fields /\ i <= nextProfile /\ i \in 1..MaxProfile
      /\ nextProfile \in Ids /\ nextProfile \in Nat
    BY ConnectorsAssumption DEF StartOn, ProfileOK, ConnectorsTypeOK, IdsOK, Ids
<1>2. /\ r \in ProfileFrames /\ r.pc = "secrets" /\ r.op = op /\ r.id = i /\ r.refs = profile.refs
      /\ r.toSet = toSet /\ r.toClear = toClear /\ r.written = {} /\ r.cleared = {}
    BY <1>1 DEF NoProfileCall, ProfileFrames
<1>3. Proceed(c, r) /\ ~AtWork(c) /\ UNCHANGED <<backend, profile, nextProfile, secrets, outside>>
    BY DEF StartOn, AtWork
<1> HIDE DEF r
<1>4. profileCall'[c] = r
    BY <1>3, FrameTypes DEF Proceed
<1>5. FrameOK(c)' /\ KnowsOK(c)'
    BY <1>1, <1>2, <1>3, <1>4 DEF FrameOK, KnowsOK, Marked
<1>6. /\ leftover \subseteq leftover' /\ halfCleared \subseteq halfCleared'
      /\ leftover' \subseteq Ids /\ halfCleared' \subseteq Ids
      /\ \A j \in leftover' \cup halfCleared' : j <= nextProfile
      /\ OnProfile(i) # {} => i \in leftover' /\ i \in halfCleared'
    BY <1>1 DEF StartOn, ProfileOK, ConnectorsTypeOK, IdsOK
<1>7. SeenOK(c)'
    <2>1. CASE OnProfile(i) = {}
        <3>1. \A n \in Fields : Finds(c, n)' <=> <<i, n>> \in secrets
            BY <1>2, <1>3, <1>4 DEF Finds
        <3>2. i \notin halfCleared => \A n \in profile.refs : <<i, n>> \in secrets \cup outside
            BY <1>1, <2>1 DEF ProfileOK, HasSecrets
        <3>3. i \notin leftover => \A n \in Fields : <<i, n>> \in secrets \ outside => n \in profile.refs
            BY <1>1, <2>1 DEF ProfileOK, HasOwner
        <3> QED BY <1>2, <1>3, <1>4, <1>6, <3>1, <3>2, <3>3 DEF SeenOK
    <2>2. CASE OnProfile(i) # {}
        BY <1>2, <1>4, <1>6, <2>2 DEF SeenOK
    <2> QED BY <2>1, <2>2
<1> QED BY <1>1, <1>2, <1>3, <1>5, <1>6, <1>7, JoinStep

LEMMA InsertProfileStep ==
    ASSUME ProfileOK, NEW c \in ProfileCalls, InsertProfile(c)
    PROVE  ProfileOK'
<1> DEFINE f == profileCall[c]
<1>1. FrameOK(c) /\ f.pc = "insert" /\ f \in ProfileFrames
    BY FrameTypes DEF InsertProfile, ProfileOK
<1>2. f.id = 0 /\ f.op = "create" /\ f.refs = {} /\ f.written = {} /\ f.cleared = {} /\ f.toClear = {}
    BY <1>1 DEF FrameOK
<1>3. ~AtWork(c)
    BY <1>2 DEF AtWork
<1>4. CASE Leave(c) /\ UNCHANGED nextProfile
    BY <1>3, <1>4, EmptyFrame, NoIdStep DEF InsertProfile, Leave
<1>5. CASE /\ profile.id = 0 /\ nextProfile < MaxProfile
           /\ nextProfile' = nextProfile + 1
           /\ Proceed(c, [f EXCEPT !.pc = "secrets", !.id = nextProfile'])
    <2> DEFINE i == nextProfile'
               r == [f EXCEPT !.pc = "secrets", !.id = i]
    <2>1. /\ i \in Ids /\ i \in 1..MaxProfile /\ nextProfile \in Nat /\ nextProfile <= i /\ nextProfile < i
        BY <1>5, ConnectorsAssumption DEF ProfileOK, ConnectorsTypeOK, Ids
    <2> HIDE DEF i
    <2>2. /\ r \in ProfileFrames /\ r.pc = "secrets" /\ r.op = "create" /\ r.id = i /\ r.refs = {}
          /\ r.toSet = f.toSet /\ r.toClear = {} /\ r.written = {} /\ r.cleared = {}
        BY <1>1, <1>2, <2>1 DEF ProfileFrames
    <2>3. /\ Proceed(c, r) /\ nextProfile' = i
          /\ UNCHANGED <<backend, profile, secrets, outside, leftover, halfCleared>>
        BY <1>5 DEF InsertProfile, i, connectorsHistory
    <2> HIDE DEF r
    <2>4. profileCall'[c] = r
        BY <2>3, FrameTypes DEF Proceed
    <2>5. FrameOK(c)' /\ KnowsOK(c)'
        BY <1>5, <2>1, <2>2, <2>3, <2>4 DEF FrameOK, KnowsOK
    <2>6. /\ \A n \in Fields : <<i, n>> \notin secrets \cup outside
          /\ \A j \in leftover \cup halfCleared : j \in Nat /\ j <= nextProfile
        BY <2>1, ConnectorsAssumption DEF ProfileOK, IdsOK, ConnectorsTypeOK, Ids
    <2>7. SeenOK(c)'
        BY <2>2, <2>3, <2>4, <2>6 DEF SeenOK, Finds
    <2>8. OnProfile(i) = {}
        <3>1. \A d \in ProfileCalls : profileCall[d].id \in Nat /\ profileCall[d].id <= nextProfile
            BY FrameTypes DEF ProfileOK, FrameOK
        <3> QED BY <2>1, <3>1 DEF OnProfile
    <2>9. \A d \in ProfileCalls : AtWork(d) => profileCall[d].op # "create"
        BY DEF InsertProfile, AtWork
    <2>10. \A j \in leftover' \cup halfCleared' : j <= nextProfile'
        BY <2>1, <2>3, <2>6
    <2>11. leftover' \subseteq Ids /\ halfCleared' \subseteq Ids
        BY <2>3 DEF ProfileOK, ConnectorsTypeOK
    <2> QED BY <1>3, <2>1, <2>2, <2>3, <2>5, <2>7, <2>8, <2>9, <2>10, <2>11, JoinStep
<1> QED BY <1>4, <1>5 DEF InsertProfile

LEMMA StartCreateProfileStep ==
    ASSUME ProfileOK, NEW c \in ProfileCalls, StartCreateProfile(c)
    PROVE  ProfileOK'
<1>1. PICK fs \in SUBSET Fields :
        Proceed(c, [NoProfileCall EXCEPT !.pc = "insert", !.op = "create", !.toSet = fs])
    BY DEF StartCreateProfile
<1> DEFINE r == [NoProfileCall EXCEPT !.pc = "insert", !.op = "create", !.toSet = fs]
<1>2. /\ r \in ProfileFrames /\ r.pc = "insert" /\ r.op = "create" /\ r.id = 0 /\ r.refs = {}
      /\ r.written = {} /\ r.cleared = {} /\ r.toClear = {}
    BY EmptyFrame DEF ProfileFrames
<1>3. Proceed(c, r)
    BY <1>1
<1> HIDE DEF r
<1>4. ~AtWork(c)
    BY DEF StartCreateProfile, AtWork
<1> QED BY <1>2, <1>3, <1>4, NoIdStep DEF StartCreateProfile

LEMMA AbandonInsertStep ==
    ASSUME ProfileOK, NEW c \in ProfileCalls, Abandon(c), profileCall[c].id = 0
    PROVE  ProfileOK'
<1>1. profileCall[c].written = {} /\ profileCall[c].cleared = {} /\ ~AtWork(c)
    BY FrameTypes DEF Abandon, ProfileOK, FrameOK, AtWork, ProfileFrames
<1>2. UNCHANGED <<backend, profile, nextProfile, secrets, connectorsHistory>> /\ Proceed(c, NoProfileCall)
    BY <1>1 DEF Abandon, Leave, connectorsHistory
<1> QED BY <1>1, <1>2, EmptyFrame, NoIdStep

(***************************************************************************)
(* A commit: whoever else is at work is on a profile that is gone, or on   *)
(* one that is marked.                                                     *)
(***************************************************************************)
LEMMA CommitProfileStep ==
    ASSUME ProfileOK, NEW c \in ProfileCalls, CommitProfile(c)
    PROVE  ProfileOK'
<1> DEFINE f == profileCall[c]
           i == f.id
           p == IF f.op = "delete" THEN NoProfile
                ELSE [id |-> i, active |-> f.op = "create" \/ profile.active, refs |-> f.refs]
<1>1. AtWork(c) /\ KnowsOK(c) /\ SeenOK(c) /\ FrameOK(c) /\ f.op \in {"create", "update", "delete"}
    BY WorkFrame DEF CommitProfile, ProfileOK
<1>2. f \in ProfileFrames /\ i \in 1..MaxProfile /\ i \in Ids /\ i <= nextProfile /\ f.refs \subseteq Fields
    BY <1>1, FrameTypes DEF FrameOK, ProfileFrames, Ids
<1>3. /\ f.pc = "commit" /\ profile.id = (IF f.op = "create" THEN 0 ELSE i)
      /\ profile' = p /\ secrets' = Sees(c) /\ Proceed(c, NoProfileCall)
      /\ UNCHANGED <<backend, nextProfile, outside, leftover, halfCleared>>
    BY DEF CommitProfile, Leave, connectorsHistory
<1>4. /\ p \in [id : Ids, active : BOOLEAN, refs : SUBSET Fields]
      /\ f.op = "delete" => p.id = 0
      /\ f.op # "delete" => p.id = i /\ p.refs = f.refs
    <2>1. profile.active \in BOOLEAN
        BY DEF ProfileOK, ConnectorsTypeOK
    <2>2. 0 \in Ids
        BY ConnectorsAssumption DEF Ids
    <2>3. CASE f.op = "delete"
        BY <2>2, <2>3 DEF NoProfile
    <2>4. CASE f.op # "delete"
        BY <1>2, <2>1, <2>4
    <2> QED BY <2>3, <2>4
<1> HIDE DEF p
<1>5. /\ profileCall'[c] = NoProfileCall
      /\ \A d \in ProfileCalls \ {c} : profileCall'[d] = profileCall[d]
      /\ profileCall' \in [ProfileCalls -> ProfileFrames]
    BY <1>3, EmptyFrame, FrameTypes DEF Proceed
<1>6. /\ Sees(c) \subseteq Keys
      /\ \A n \in Fields : <<i, n>> \in secrets' <=> Finds(c, n)
      /\ \A j \in 1..MaxProfile, n \in Fields : j # i => (<<j, n>> \in secrets' <=> <<j, n>> \in secrets)
    BY <1>1, <1>3, SeesKeys
<1>7. ConnectorsTypeOK'
    BY <1>3, <1>4, <1>5, <1>6 DEF ProfileOK, ConnectorsTypeOK, ProfileFrames
<1>8. IdsOK'
    <2>1. profile'.id <= nextProfile'
        BY <1>1, <1>2, <1>3, <1>4, ConnectorsAssumption DEF ProfileOK, ConnectorsTypeOK, Ids
    <2>2. ASSUME NEW j \in 1..MaxProfile, NEW n \in Fields, <<j, n>> \in secrets' \cup outside'
          PROVE  j <= nextProfile'
        BY <1>2, <1>3, <1>6, <2>2 DEF ProfileOK, IdsOK
    <2>3. \A j \in leftover' \cup halfCleared' : j <= nextProfile'
        BY <1>3 DEF ProfileOK, IdsOK
    <2> QED BY <2>1, <2>2, <2>3 DEF IdsOK
<1>9. \A d \in ProfileCalls : AtWork(d)' => d # c /\ AtWork(d) /\ profileCall'[d] = profileCall[d]
    BY <1>5, EmptyFrame DEF AtWork
<1>10. PairsOK'
    BY <1>3, <1>9 DEF ProfileOK, PairsOK, Marked
<1>11. ASSUME NEW d \in ProfileCalls \ {c}, AtWork(d)
       PROVE  Marked(profileCall[d].id) /\ profileCall[d].op # "create"
    <2>1. /\ profileCall[d].id = i => Marked(i)
          /\ profileCall[d].op # "create" \/ f.op # "create"
        BY <1>1, <1>11 DEF ProfileOK, PairsOK
    <2>2. KnowsOK(d) /\ profileCall[d].id # 0
        BY <1>11 DEF ProfileOK, AtWork
    <2>3. profileCall[d].op # "create"
        BY <1>2, <1>3, <2>1, <2>2 DEF KnowsOK
    <2>4. ~Marked(profileCall[d].id) => profile.id = profileCall[d].id
        BY <2>2, <2>3 DEF KnowsOK
    <2> QED BY <1>3, <2>1, <2>2, <2>3, <2>4
<1>12. \A d \in ProfileCalls : FrameOK(d)' /\ (AtWork(d)' => KnowsOK(d)' /\ SeenOK(d)')
    <2>1. ASSUME NEW d \in ProfileCalls PROVE FrameOK(d)'
        <3>1. nextProfile \in Nat
            BY ConnectorsAssumption DEF ProfileOK, ConnectorsTypeOK, Ids
        <3>2. CASE d = c
            BY <1>3, <1>5, <3>1, <3>2, EmptyFrame DEF FrameOK
        <3>3. CASE d # c
            BY <1>3, <1>5, <3>3 DEF ProfileOK, FrameOK
        <3> QED BY <3>2, <3>3
    <2>2. ASSUME NEW d \in ProfileCalls, AtWork(d)' PROVE KnowsOK(d)' /\ SeenOK(d)'
        <3>1. /\ profileCall'[d] = profileCall[d] /\ profileCall[d].op # "create"
              /\ profileCall[d].id \in leftover' /\ profileCall[d].id \in halfCleared'
            BY <1>3, <1>9, <1>11, <2>2 DEF Marked
        <3> QED BY <3>1 DEF KnowsOK, SeenOK, Marked
    <2> QED BY <2>1, <2>2
<1>13. HasSecrets'
    <2>1. SUFFICES ASSUME p.id # 0, p.id \notin halfCleared, NEW n \in p.refs
                   PROVE  <<p.id, n>> \in secrets' \cup outside
        BY <1>3 DEF HasSecrets, OnProfile
    <2>2. p.id = i /\ n \in f.refs /\ n \in Fields /\ f.op # "delete"
        BY <1>2, <1>4, <2>1
    <2>3. Finds(c, n) \/ <<i, n>> \in outside
        BY <1>1, <2>1, <2>2 DEF SeenOK
    <2> QED BY <1>6, <2>2, <2>3
<1>14. HasOwner'
    <2>1. SUFFICES ASSUME NEW j \in 1..MaxProfile, NEW n \in Fields, <<j, n>> \in secrets', <<j, n>> \notin outside,
                          j \notin leftover
                   PROVE  (j = p.id /\ n \in p.refs) \/ OnProfile(j)' # {}
        BY <1>3 DEF HasOwner, OnProfile
    <2>2. CASE j = i
        <3>1. n \in f.refs /\ f.op # "delete"
            BY <1>1, <1>3, <1>6, <2>1, <2>2 DEF SeenOK
        <3> QED BY <1>4, <2>2, <3>1
    <2>3. CASE j # i
        <3>1. <<j, n>> \in secrets \ outside /\ j # 0 /\ j # profile.id
            BY <1>3, <1>6, <2>1, <2>3
        <3>2. OnProfile(j) # {}
            BY <2>1, <3>1 DEF ProfileOK, HasOwner
        <3> QED BY <1>5, <2>3, <3>2 DEF OnProfile
    <2> QED BY <2>2, <2>3
<1> QED BY <1>7, <1>8, <1>10, <1>12, <1>13, <1>14 DEF ProfileOK

LEMMA SetActiveStep ==
    ASSUME ProfileOK, NEW active \in BOOLEAN, SetActive(active)
    PROVE  ProfileOK'
<1>1. /\ profile'.id = profile.id /\ profile'.refs = profile.refs
      /\ profile' \in [id : Ids, active : BOOLEAN, refs : SUBSET Fields]
    BY DEF SetActive, ProfileOK, ConnectorsTypeOK
<1>2. ConnectorsTypeOK' /\ IdsOK' /\ PairsOK'
    BY <1>1 DEF SetActive, ProfileOK, ConnectorsTypeOK, IdsOK, PairsOK, Marked, AtWork, connectorsHistory
<1>3. \A d \in ProfileCalls : FrameOK(d)' /\ (AtWork(d)' => KnowsOK(d)' /\ SeenOK(d)')
    BY <1>1 DEF SetActive, ProfileOK, FrameOK, KnowsOK, SeenOK, Marked, Finds, AtWork, connectorsHistory
<1>4. HasSecrets' /\ HasOwner'
    BY <1>1 DEF SetActive, ProfileOK, HasSecrets, HasOwner, OnProfile, connectorsHistory
<1> QED BY <1>2, <1>3, <1>4 DEF ProfileOK

\* A key that the Secrets API touched is nobody's matter any more.
LEMMA SecretsApiStep ==
    ASSUME ProfileOK, NEW key \in Keys, key[1] <= nextProfile, SecretsApi(key)
    PROVE  ProfileOK'
<1>1. PICK i \in 1..MaxProfile, m \in Fields : key = <<i, m>>
    BY DEF Keys
<1>2. /\ secrets' \in {secrets \cup {key}, secrets \ {key}} /\ outside' = outside \cup {key}
      /\ UNCHANGED <<backend, profile, nextProfile, profileCall, leftover, halfCleared>>
    BY DEF SecretsApi
<1>3. \A j \in 1..MaxProfile, n \in Fields :
        \/ j = i /\ n = m
        \/ /\ <<j, n>> # key
           /\ <<j, n>> \in secrets' <=> <<j, n>> \in secrets
           /\ <<j, n>> \in outside' <=> <<j, n>> \in outside
    BY <1>1, <1>2
<1>4. <<i, m>> \in outside' /\ i <= nextProfile
    BY <1>1, <1>2
<1>5. ConnectorsTypeOK' /\ IdsOK' /\ PairsOK'
    <2>1. ConnectorsTypeOK'
        BY <1>2 DEF ProfileOK, ConnectorsTypeOK
    <2>2. IdsOK'
        BY <1>2, <1>3, <1>4 DEF ProfileOK, IdsOK
    <2> QED BY <1>2, <2>1, <2>2 DEF ProfileOK, PairsOK, Marked, AtWork
<1>6. ASSUME NEW d \in ProfileCalls, AtWork(d) PROVE SeenOK(d)'
    <2> DEFINE j == profileCall[d].id
    <2>1. SeenOK(d) /\ j \in 1..MaxProfile /\ profileCall' = profileCall
        BY <1>2, <1>6, FrameTypes DEF ProfileOK
    <2>2. ASSUME NEW n \in Fields
          PROVE  \/ <<j, n>> \in outside'
                 \/ /\ <<j, n>> \in secrets' <=> <<j, n>> \in secrets
                    /\ <<j, n>> \in outside' <=> <<j, n>> \in outside
                    /\ Finds(d, n)' <=> Finds(d, n)
        <3>1. CASE j = i /\ n = m
            BY <1>4, <3>1
        <3>2. CASE ~(j = i /\ n = m)
            <4>1. /\ <<j, n>> \in secrets' <=> <<j, n>> \in secrets
                  /\ <<j, n>> \in outside' <=> <<j, n>> \in outside
                BY <1>3, <2>1, <3>2
            <4> QED BY <1>2, <2>1, <4>1 DEF Finds
        <3> QED BY <3>1, <3>2
    <2> QED BY <1>2, <2>1, <2>2 DEF SeenOK
<1>7. \A d \in ProfileCalls : FrameOK(d)' /\ (AtWork(d)' => KnowsOK(d)' /\ SeenOK(d)')
    BY <1>2, <1>6 DEF ProfileOK, FrameOK, KnowsOK, AtWork, Marked
<1>8. HasSecrets'
    <2>1. SUFFICES ASSUME profile.id # 0, profile.id \notin halfCleared, NEW n \in profile.refs
                   PROVE  \/ <<profile.id, n>> \in secrets' \cup outside'
                          \/ \E d \in OnProfile(profile.id) : n \in profileCall[d].cleared
        BY <1>2 DEF HasSecrets, OnProfile
    <2>2. n \in Fields /\ profile.id \in 1..MaxProfile
        BY <2>1, ConnectorsAssumption DEF ProfileOK, ConnectorsTypeOK, Ids
    <2>3. \/ <<profile.id, n>> \in secrets \cup outside
          \/ \E d \in OnProfile(profile.id) : n \in profileCall[d].cleared
        BY <2>1 DEF ProfileOK, HasSecrets
    <2> QED BY <1>3, <1>4, <2>2, <2>3
<1>9. HasOwner'
    <2>1. SUFFICES ASSUME NEW j \in 1..MaxProfile, NEW n \in Fields, <<j, n>> \in secrets', <<j, n>> \notin outside'
                   PROVE  j \in leftover \/ (j = profile.id /\ n \in profile.refs) \/ OnProfile(j) # {}
        BY <1>2 DEF HasOwner, OnProfile
    <2>2. <<j, n>> \in secrets \ outside
        <3>1. ~(j = i /\ n = m)
            BY <1>4, <2>1
        <3>2. <<j, n>> \in secrets' <=> <<j, n>> \in secrets
            BY <1>3, <3>1
        <3>3. <<j, n>> \in outside' <=> <<j, n>> \in outside
            BY <1>3, <3>1
        <3> QED BY <2>1, <3>2, <3>3
    <2> QED BY <2>2 DEF ProfileOK, HasOwner
<1> QED BY <1>5, <1>7, <1>8, <1>9 DEF ProfileOK

LEMMA ProfileNext == ProfileOK /\ [ConnectorsNext]_connectorsVars => ProfileOK'
<1> SUFFICES ASSUME ProfileOK, [ConnectorsNext]_connectorsVars PROVE ProfileOK'
    OBVIOUS
<1>1. CASE UNCHANGED connectorsVars
    BY <1>1 DEF connectorsVars, connectorsHistory, ProfileOK, ConnectorsTypeOK, IdsOK, PairsOK,
                FrameOK, KnowsOK, SeenOK, Marked, Finds, AtWork, HasSecrets, HasOwner, OnProfile
<1>2. ASSUME NEW c \in ProfileCalls,
             \/ StartCreateProfile(c) \/ InsertProfile(c) \/ WriteSecret(c) \/ Compensate(c)
             \/ SecretsDone(c) \/ DeleteSecrets(c) \/ CommitProfile(c)
      PROVE  ProfileOK'
    BY <1>2, StartCreateProfileStep, InsertProfileStep, WriteSecretStep, CompensateStep,
       SecretsDoneStep, DeleteSecretsStep, CommitProfileStep
<1>3. ASSUME NEW c \in ProfileCalls, NEW n \in Fields,
             SetField(c, n) \/ SetFieldRefused(c, n) \/ ClearField(c, n)
      PROVE  ProfileOK'
    BY <1>3, SetFieldStep, SetFieldRefusedStep, ClearFieldStep
<1>4. ASSUME NEW c \in ProfileCalls, StartUpdateProfile(c) PROVE ProfileOK'
    BY <1>4, StartOnStep DEF StartUpdateProfile
<1>5. ASSUME NEW c \in ProfileCalls, StartDeleteProfile(c) PROVE ProfileOK'
    <2>1. profile.refs \in SUBSET Fields
        BY DEF ProfileOK, ConnectorsTypeOK
    <2> QED BY <1>5, <2>1, StartOnStep DEF StartDeleteProfile
<1>6. ASSUME NEW c \in ProfileCalls, Abandon(c) PROVE ProfileOK'
    BY <1>6, AbandonStep, AbandonInsertStep
<1>7. ASSUME NEW active \in BOOLEAN, SetActive(active) PROVE ProfileOK'
    BY <1>7, SetActiveStep
<1>8. ASSUME NEW key \in {k \in Keys : k[1] <= nextProfile}, SecretsApi(key) PROVE ProfileOK'
    BY <1>8, SecretsApiStep
<1> QED BY <1>1, <1>2, <1>3, <1>4, <1>5, <1>6, <1>7, <1>8 DEF ConnectorsNext

(***************************************************************************)
(* Secrets and profile match for any number of fields, requests and        *)
(* profiles made one after another, with both stores: a field has its      *)
(* stored value and a stored value its field, unless requests overlapped,  *)
(* were cut short after a write, or the Secrets API was used on the key    *)
(* (create_profile, _update_secrets, delete_profile).                      *)
(***************************************************************************)
THEOREM SecretsMatch == ConnectorsSpec => []SecretsMatchProfile
<1>1. ProfileOK => SecretsMatchProfile
    <2>1. SUFFICES ASSUME ProfileOK PROVE SecretsMatchProfile
        OBVIOUS
    <2>2. ASSUME NEW key \in secrets \ outside
          PROVE  \/ key[1] \in leftover
                 \/ key[1] = profile.id /\ key[2] \in profile.refs
                 \/ OnProfile(key[1]) # {}
        <3>1. key \in Keys
            BY <2>1 DEF ProfileOK, ConnectorsTypeOK
        <3>2. PICK i \in 1..MaxProfile, n \in Fields : key = <<i, n>>
            BY <3>1 DEF Keys
        <3> QED BY <2>1, <3>2 DEF ProfileOK, HasOwner
    <2> QED BY <2>1, <2>2 DEF SecretsMatchProfile, ProfileOK, HasSecrets
<1> QED BY ProfileStart, ProfileNext, <1>1, PTL DEF ConnectorsSpec

-----------------------------------------------------------------------------
(***************************************************************************)
(* Templates: what was published stays, edits share one draft.             *)
(***************************************************************************)
EditFrames ==
    [pc : {"idle", "versioning", "copying", "inserting", "writing", "committing", "erasing",
           "instantiating"},
     op : {"none", "create", "add", "edit", "publish", "delete", "restore", "instantiate"},
     from : 0..MaxVersion, version : 0..MaxVersion, content : FileContents]

Acting(e) == edit[e].pc # "idle"
On(e, v) == Acting(e) /\ v \in {edit[e].version, edit[e].from}
RequestsApart == \A d, e \in Editors, v \in Versions :
    d # e /\ On(d, v) /\ On(e, v) => v \in muddled

EditOK(e) ==
    LET f == edit[e]
        v == f.version
        w == f.from
    IN
    /\ f.pc = "idle" => f = NoEdit
    /\ f.pc = "versioning" => f.op = "edit" /\ v = 0
    /\ f.pc \in {"copying", "inserting"} =>
            f.op = "edit" /\ v # 0 /\ (v \in muddled \/ (row[v] = "none" /\ w # v))
    /\ f.pc = "writing" => f.op \in {"create", "add", "edit"}
    /\ f.pc \in {"versioning", "copying", "inserting", "writing"} => f.content # Absent
    /\ f.pc = "writing" \/ (f.pc = "committing" /\ f.op \in {"create", "add", "edit"}) =>
            /\ v # 0
            /\ v \in muddled \/ f.op = "add" \/ (row[v] = "draft" /\ f.op = "edit") \/ (row[v] = "none" /\ w # v)
    /\ f.pc = "erasing" =>
            f.op = "delete" /\ v # 0 /\ w = 0 /\ (v \in muddled \/ row[v] = "draft")
    /\ f.pc = "instantiating" => f.op = "instantiate" /\ v # 0 /\ w = 0
    /\ f.pc = "instantiating" /\ v \notin muddled =>
            row[v] = "published" /\ f.content = stored[v]
    /\ f.pc = "committing" =>
            /\ f.op \in {"create", "add", "edit", "publish", "delete"} /\ v # 0
            /\ v \in muddled \/
                \/ f.op \in {"create", "add", "edit"} /\ stored[v] # Absent
                \/ f.op = "publish" /\ w = 0 /\ row[v] = "draft"
                \/ f.op = "delete" /\ w = v /\ row[v] = "draft"
                \/ f.op = "delete" /\ w = 0 /\ row[v] = "published"
    /\ f.op \in {"create", "add"} => w = 0
    /\ f.op = "edit" => w # 0 /\ (w \in muddled \/ Live(w))

Erased(v) == \E e \in Editors :
    edit[e].op = "delete" /\ edit[e].pc = "committing" /\ edit[e].version = v /\ edit[e].from = v
VersionOK(v) ==
    /\ row[v] \in {"published", "deleted"} => stored[v] = frozen[v] /\ stored[v] # Absent
    /\ row[v] = "draft" => stored[v] # Absent \/ Erased(v)
CopiesOK == \A p \in copied : p[1] \in muddled \cup overwritten \/
    (row[p[1]] \in {"published", "deleted"} /\ p[2] = frozen[p[1]])

Makes(e) == MakesDraft(e)
DraftsOK ==
    /\ \A v, w \in Versions \ named : row[v] = "draft" /\ row[w] = "draft" => v = w
    /\ \A d, e \in Editors : Makes(d) /\ Makes(e) => d = e
    /\ \A e \in Editors, v \in Versions \ named : Makes(e) => row[v] # "draft"
TemplatesIInv ==
    /\ TemplatesTypeOK
    /\ RequestsApart
    /\ \A e \in Editors : EditOK(e)
    /\ \A v \in Versions \ (muddled \cup overwritten) : VersionOK(v)
    /\ CopiesOK
    /\ muddled # {} \/ DraftsOK

LEMMA NewestDraft ==
    ASSUME TemplatesTypeOK
    PROVE  /\ OpenDraft = 0 <=> \A v \in Versions : row[v] # "draft"
           /\ OpenDraft # 0 => OpenDraft \in Versions /\ row[OpenDraft] = "draft"
<1> DEFINE open == {v \in Versions : row[v] = "draft"}
           newest == CHOOSE v \in open : \A w \in open : w <= v
<1>1. ASSUME open # {} PROVE newest \in open
    <2>1. open \in SUBSET (1..MaxVersion) /\ MaxVersion \in Nat
        BY TemplatesAssumption DEF Versions
    <2> HIDE DEF open
    <2>2. \E v \in open : \A w \in open : w <= v
        BY <1>1, <2>1, GreatestNumber
    <2> QED BY <2>2
<1>2. OpenDraft = IF open = {} THEN 0 ELSE newest
    BY DEF OpenDraft
<1>3. 0 \notin Versions
    BY DEF Versions
<1> HIDE DEF newest
<1> QED BY <1>1, <1>2, <1>3

LEMMA NextIsFree ==
    ASSUME TemplatesTypeOK, NextVersion \in Versions
    PROVE  row[NextVersion] = "none"
<1> DEFINE used == {v \in Versions : row[v] # "none"}
           last == CHOOSE v \in used : \A w \in used : w <= v
<1>1. ASSUME used # {} PROVE last \in used /\ \A w \in used : w <= last
    <2>1. used \in SUBSET (1..MaxVersion) /\ MaxVersion \in Nat
        BY TemplatesAssumption DEF Versions
    <2> HIDE DEF used
    <2>2. \E v \in used : \A w \in used : w <= v
        BY <1>1, <2>1, GreatestNumber
    <2> QED BY <2>2
<1>2. NextVersion = 1 + (IF used = {} THEN 0 ELSE last)
    BY DEF NextVersion
<1>3. ASSUME row[NextVersion] # "none" PROVE FALSE
    <2>1. NextVersion \in used
        BY <1>3
    <2>2. NextVersion <= last /\ NextVersion = 1 + last /\ last \in Nat
        BY <1>1, <1>2, <2>1 DEF Versions
    <2> HIDE DEF last
    <2> QED BY <2>2
<1> QED BY <1>3

\* A request moves: those of others are on other versions, or what they are on is muddled.
LEMMA OneMoves ==
    ASSUME TemplatesIInv, NEW e \in Editors, NEW f \in EditFrames,
           edit' = [edit EXCEPT ![e] = f], muddled \subseteq muddled',
           \A v \in Versions : v # edit[e].version => row'[v] = row[v] /\ stored'[v] = stored[v],
           Acting(e) \/ (row' = row /\ stored' = stored),
           f.pc # "idle" => \A v \in Versions : v \in {f.version, f.from} =>
                On(e, v) \/ Others(e, v) = {} \/ v \in muddled'
    PROVE  /\ RequestsApart'
           /\ \A d \in Editors \ {e} : EditOK(d)'
           /\ edit'[e] = f /\ \A d \in Editors \ {e} : edit'[d] = edit[d]
           /\ muddled' = {} => \A d \in Editors \ {e} : Makes(d)' <=> Makes(d)
<1>0. edit'[e] = f /\ \A d \in Editors \ {e} : edit'[d] = edit[d] /\ edit[d] \in EditFrames
    BY DEF TemplatesIInv, TemplatesTypeOK, EditFrames
<1>1. RequestsApart'
    <2>1. ASSUME NEW d \in Editors, NEW v \in Versions, d # e, On(d, v)', On(e, v)'
          PROVE  v \in muddled'
        <3>1. On(d, v) /\ f.pc # "idle" /\ v \in {f.version, f.from}
            BY <1>0, <2>1 DEF On, Acting
        <3>2. On(e, v) \/ Others(e, v) = {} \/ v \in muddled'
            BY <3>1
        <3>3. d \in Others(e, v)
            BY <2>1, <3>1 DEF Others, On, Acting
        <3> QED BY <2>1, <3>1, <3>2, <3>3 DEF TemplatesIInv, RequestsApart
    <2>2. ASSUME NEW c \in Editors, NEW d \in Editors, NEW v \in Versions, c # d,
                 c # e, d # e, On(c, v)', On(d, v)'
          PROVE  v \in muddled'
        <3>1. On(c, v) /\ On(d, v)
            BY <1>0, <2>2 DEF On, Acting
        <3> QED BY <2>2, <3>1 DEF TemplatesIInv, RequestsApart
    <2> QED BY <2>1, <2>2 DEF RequestsApart
<1>2. ASSUME NEW d \in Editors \ {e}, NEW v \in Versions, v \in {edit[d].version, edit[d].from},
             Acting(d), v \notin muddled'
      PROVE  row'[v] = row[v] /\ stored'[v] = stored[v]
    <2>1. v \notin muddled /\ On(d, v)
        BY <1>2 DEF On
    <2>2. ~On(e, v)
        BY <2>1 DEF TemplatesIInv, RequestsApart
    <2> QED BY <2>2 DEF On
<1>3. ASSUME NEW d \in Editors \ {e} PROVE EditOK(d)'
    <2> DEFINE g == edit[d]
    <2>0. g \in EditFrames /\ edit'[d] = g /\ EditOK(d)
        BY <1>0 DEF TemplatesIInv
    <2>1. CASE g.pc = "idle"
        BY <2>0, <2>1 DEF EditOK, NoEdit
    <2>2. CASE g.pc # "idle"
        <3>1. \A v \in Versions : v \in {g.version, g.from} =>
                v \in muddled' \/ (row'[v] = row[v] /\ stored'[v] = stored[v])
            BY <1>2, <2>2 DEF Acting
        <3>2. \A v \in 0..MaxVersion : v # 0 => v \in Versions
            BY DEF Versions
        <3>3. /\ g.version # 0 => g.version \in Versions
              /\ g.from # 0 => g.from \in Versions
            BY <2>0, <3>2 DEF EditFrames
        <3> HIDE DEF g
        <3>4. edit[d] = g
            BY DEF g
        <3>5. /\ g.version # 0 => g.version \in muddled' \/
                    (row'[g.version] = row[g.version] /\ stored'[g.version] = stored[g.version])
              /\ g.from # 0 => g.from \in muddled' \/ row'[g.from] = row[g.from]
            BY <3>1, <3>3
        <3> QED BY <2>0, <2>2, <3>4, <3>5 DEF EditOK, Live, NoEdit, Absent
    <2> QED BY <2>1, <2>2
<1>4. ASSUME muddled' = {}, NEW d \in Editors \ {e} PROVE Makes(d)' <=> Makes(d)
    <2>0. edit[d] \in EditFrames /\ edit'[d] = edit[d] /\ EditOK(d)
        BY <1>0 DEF TemplatesIInv
    <2>1. CASE ~Acting(d)
        BY <2>0, <2>1 DEF Makes, MakesDraft, EditOK, NoEdit, Acting
    <2>2. CASE Acting(d)
        <3>1. edit[d].version = 0 \/ edit[d].version \in Versions
            BY <2>0 DEF EditFrames, Versions
        <3>2. edit[d].version = 0 \/ row'[edit[d].version] = row[edit[d].version]
            BY <1>2, <1>4, <2>2, <3>1
        <3> QED BY <2>0, <3>2 DEF Makes, MakesDraft
    <2> QED BY <2>1, <2>2
<1> QED BY <1>0, <1>1, <1>3, <1>4

LEMMA DraftsStay ==
    ASSUME TemplatesIInv, muddled = {}, NEW e \in Editors, named \subseteq named',
           \A v \in Versions \ named' : row'[v] = "draft" => row[v] = "draft",
           \A d \in Editors : Makes(d)' => Makes(d)
    PROVE  DraftsOK'
    BY DEF TemplatesIInv, DraftsOK

\* The files and states of versions stay as they are.
LEMMA VersionsStay ==
    ASSUME TemplatesIInv, NEW e \in Editors, NEW f, edit' = [edit EXCEPT ![e] = f],
           row' = row, stored' = stored, frozen' = frozen, copied' = copied,
           muddled \subseteq muddled', overwritten' = overwritten,
           edit[e].op = "delete" /\ edit[e].pc = "committing" => edit[e].version \in muddled'
    PROVE  (\A v \in Versions \ (muddled \cup overwritten) : VersionOK(v))' /\ CopiesOK'
<1>1. ASSUME NEW v \in Versions, v \notin (muddled \cup overwritten)' PROVE VersionOK(v)'
    <2>1. VersionOK(v)
        BY <1>1 DEF TemplatesIInv
    <2>2. ASSUME Erased(v) PROVE Erased(v)'
        <3>1. PICK d \in Editors : edit[d].op = "delete" /\ edit[d].pc = "committing" /\
                                   edit[d].version = v /\ edit[d].from = v
            BY <2>2 DEF Erased
        <3>2. d # e
            BY <1>1, <3>1
        <3>3. edit'[d] = edit[d]
            BY <3>2 DEF TemplatesIInv, TemplatesTypeOK
        <3> QED BY <3>1, <3>3 DEF Erased
    <2> QED BY <2>1, <2>2 DEF VersionOK
<1>2. CopiesOK'
    BY DEF TemplatesIInv, CopiesOK
<1> QED BY <1>1, <1>2

\* A request that changes neither rows nor files.
LEMMA QuietMove ==
    ASSUME TemplatesIInv, NEW e \in Editors, NEW f \in EditFrames,
           edit' = [edit EXCEPT ![e] = f],
           row' = row, stored' = stored, frozen' = frozen, copied' = copied,
           named' = named, overwritten' = overwritten,
           drafts' \in FileContents, muddled \subseteq muddled', muddled' \subseteq Versions,
           edit[e].op = "delete" /\ edit[e].pc = "committing" => edit[e].version \in muddled',
           f.pc # "idle" => \A v \in Versions : v \in {f.version, f.from} =>
                On(e, v) \/ Others(e, v) = {} \/ v \in muddled',
           EditOK(e)', muddled' = {} => DraftsOK'
    PROVE  TemplatesIInv'
<1>1. TemplatesTypeOK'
    BY DEF TemplatesIInv, TemplatesTypeOK, EditFrames
<1>2. RequestsApart' /\ (\A d \in Editors : EditOK(d))'
    BY OneMoves
<1>3. (\A v \in Versions \ (muddled \cup overwritten) : VersionOK(v))' /\ CopiesOK'
    BY VersionsStay
<1> QED BY <1>1, <1>2, <1>3 DEF TemplatesIInv

LEMMA QuietDrafts ==
    ASSUME TemplatesIInv, muddled = {}, muddled' = {}, NEW e \in Editors, NEW f \in EditFrames,
           edit' = [edit EXCEPT ![e] = f], row' = row, stored' = stored, named' = named,
           f.pc # "idle" => \A v \in Versions : v \in {f.version, f.from} =>
                On(e, v) \/ Others(e, v) = {} \/ v \in muddled',
           Makes(e)' => Makes(e)
    PROVE  DraftsOK'
<1>1. \A d \in Editors \ {e} : Makes(d)' <=> Makes(d)
    BY OneMoves
<1> QED BY <1>1, DraftsStay

LEMMA Idle == ASSUME TemplatesIInv, NEW e \in Editors, EditAt(e, "idle")
              PROVE  edit[e] = NoEdit /\ edit[e].op = "none" /\ ~Acting(e) /\ ~Makes(e)
    BY DEF TemplatesIInv, EditOK, EditAt, NoEdit, Acting, Makes, MakesDraft

EditPcs == {"idle", "versioning", "copying", "inserting", "writing", "committing", "erasing",
            "instantiating"}
EditOps == {"none", "create", "add", "edit", "publish", "delete", "restore", "instantiate"}

\* What a request becomes when it starts and when it goes on.
LEMMA FrameIn ==
    ASSUME NEW g \in EditFrames, NEW p \in EditPcs, NEW o \in EditOps,
           NEW v \in 0..MaxVersion, NEW c \in FileContents
    PROVE  /\ [g EXCEPT !.pc = p, !.op = o, !.version = v, !.content = c] \in EditFrames
           /\ \A w \in 0..MaxVersion :
                [g EXCEPT !.pc = p, !.op = o, !.from = w, !.version = v, !.content = c] \in EditFrames
    BY DEF EditFrames, EditPcs, EditOps

LEMMA FrameOn ==
    ASSUME NEW g \in EditFrames, NEW p \in EditPcs, NEW v \in 0..MaxVersion
    PROVE  /\ \A o \in EditOps : [g EXCEPT !.pc = p, !.op = o, !.version = v] \in EditFrames
           /\ [g EXCEPT !.pc = p, !.version = v] \in EditFrames
           /\ [g EXCEPT !.pc = p, !.from = v] \in EditFrames
           /\ [g EXCEPT !.pc = p] \in EditFrames
    BY DEF EditFrames, EditPcs, EditOps

LEMMA NoEditIn == NoEdit \in EditFrames
    BY TemplatesAssumption DEF NoEdit, EditFrames, FileContents, Absent

\* A new template's row is to come.
LEMMA StartNew ==
    ASSUME TemplatesIInv, NEW e \in Editors, EditAt(e, "idle"), NewContent,
           NEW v \in Versions, NEW o \in {"create", "add"},
           edit' = [edit EXCEPT ![e] =
                [NoEdit EXCEPT !.pc = "writing", !.op = o, !.version = v, !.content = drafts + 1]],
           UNCHANGED <<row, stored, copied, frozen, named, overwritten>>,
           muddled' \in {muddled, muddled \cup {v}}, Others(e, v) = {} \/ v \in muddled',
           o = "create" => row[v] = "none",
           o = "create" => v \in muddled' \/ \A d \in Editors : ~Makes(d),
           o = "create" => \A w \in Versions : row[w] # "draft"
    PROVE  TemplatesIInv'
<1> DEFINE f == [NoEdit EXCEPT !.pc = "writing", !.op = o, !.version = v, !.content = drafts + 1]
<1>1. drafts' = drafts + 1 /\ drafts' \in FileContents /\ drafts' # 0
    BY TemplatesAssumption DEF NewContent, TemplatesIInv, TemplatesTypeOK, FileContents
<1>2. f.pc = "writing" /\ f.op = o /\ f.from = 0 /\ f.version = v /\ f.content = drafts'
    BY <1>1 DEF NoEdit
<1>3. f \in EditFrames
    <2>1. v \in 0..MaxVersion /\ drafts + 1 \in FileContents /\ o \in EditOps
        BY <1>1 DEF Versions, EditOps
    <2> QED BY <2>1, FrameIn, NoEditIn DEF EditPcs
<1>4. edit[e].op = "none" /\ ~Acting(e) /\ ~Makes(e) /\ edit' = [edit EXCEPT ![e] = f]
    BY Idle
<1>5. edit'[e] = f /\ \A d \in Editors \ {e} : edit'[d] = edit[d]
    BY DEF TemplatesIInv, TemplatesTypeOK
<1> HIDE DEF f
<1>6. EditOK(e)'
    <2>1. v # 0 /\ (o = "create" => row'[v] = "none")
        BY DEF Versions
    <2> QED BY <1>1, <1>2, <1>5, <2>1 DEF EditOK, Absent
<1>7. \A w \in Versions : w \in {f.version, f.from} => Others(e, w) = {} \/ w \in muddled'
    BY <1>2 DEF Versions
<1>8. muddled \subseteq muddled' /\ muddled' \subseteq Versions
    BY DEF TemplatesIInv, TemplatesTypeOK
<1>9. ASSUME muddled' = {} PROVE DraftsOK'
    <2>1. muddled = {} /\ DraftsOK
        BY <1>8, <1>9 DEF TemplatesIInv
    <2>2. CASE o = "add"
        <3>1. ~Makes(e)'
            BY <1>2, <1>5, <2>2 DEF Makes, MakesDraft
        <3> QED BY <1>3, <1>4, <1>7, <1>9, <2>1, <3>1, QuietDrafts
    <2>3. CASE o = "create"
        <3>1. \A d \in Editors \ {e} : ~Makes(d)'
            BY <1>5, <1>9, <2>3 DEF Makes, MakesDraft
        <3> QED BY <2>3, <3>1 DEF DraftsOK
    <2> QED BY <2>2, <2>3
<1> QED BY <1>1, <1>3, <1>4, <1>6, <1>7, <1>8, <1>9, QuietMove

LEMMA StartCreateStep == ASSUME TemplatesIInv, NEW e \in Editors, StartCreate(e) PROVE TemplatesIInv'
<1> DEFINE v == NextVersion
<1>1. /\ v \in Versions /\ row[v] = "none" /\ EditAt(e, "idle") /\ NewContent
      /\ edit' = [edit EXCEPT ![e] = [NoEdit EXCEPT !.pc = "writing", !.op = "create",
                                                   !.version = v, !.content = drafts + 1]]
      /\ muddled' = IF Others(e, v) # {} \/ \E d \in Editors : MakesDraft(d)
                    THEN muddled \cup {v} ELSE muddled
      /\ UNCHANGED <<row, stored, copied, frozen, named, overwritten>>
      /\ \A w \in Versions : row[w] # "draft"
    BY NextIsFree DEF StartCreate, Become, TemplatesIInv, Live
<1> HIDE DEF v
<1>2. v \in muddled' \/ \A d \in Editors : ~Makes(d)
    BY <1>1 DEF Makes
<1> QED BY <1>1, <1>2, StartNew

LEMMA StartCreateVersionStep ==
    ASSUME TemplatesIInv, NEW e \in Editors, StartCreateVersion(e) PROVE TemplatesIInv'
<1>1. PICK v \in Versions :
        /\ Become(e, [NoEdit EXCEPT !.pc = "writing", !.op = "add", !.version = v,
                                    !.content = drafts + 1])
        /\ Touch(e, v)
    BY DEF StartCreateVersion
<1> QED BY <1>1, StartNew DEF StartCreateVersion, Become, Touch

LEMMA StartEditStep == ASSUME TemplatesIInv, NEW e \in Editors, StartEdit(e) PROVE TemplatesIInv'
<1> PICK v \in Versions :
        LET target == IF row[v] = "draft" THEN v ELSE OpenDraft
            twice == target = 0 /\ \E d \in Editors : MakesDraft(d)
        IN  /\ Live(v)
            /\ Become(e, [NoEdit EXCEPT !.pc = IF target = 0 THEN "versioning" ELSE "writing",
                                        !.op = "edit", !.from = v, !.version = target,
                                        !.content = drafts + 1])
            /\ muddled' = muddled \cup {w \in {v, target} \ {0} : Others(e, w) # {} \/ twice}
    BY DEF StartEdit
<1> DEFINE target == IF row[v] = "draft" THEN v ELSE OpenDraft
           twice == target = 0 /\ \E d \in Editors : MakesDraft(d)
           f == [NoEdit EXCEPT !.pc = IF target = 0 THEN "versioning" ELSE "writing",
                               !.op = "edit", !.from = v, !.version = target,
                               !.content = drafts + 1]
<1>0. /\ edit' = [edit EXCEPT ![e] = f] /\ Live(v)
      /\ drafts' = drafts + 1 /\ drafts < MaxContent
      /\ muddled' = muddled \cup {w \in {v, target} \ {0} : Others(e, w) # {} \/ twice}
      /\ UNCHANGED <<row, stored, copied, frozen, named, overwritten>>
    BY DEF StartEdit, Become, NewContent
<1>1. drafts \in Nat /\ MaxContent \in Nat /\ drafts' \in FileContents /\ drafts' # 0
    BY <1>0, TemplatesAssumption DEF TemplatesIInv, TemplatesTypeOK, FileContents
<1>2. /\ f.pc = (IF target = 0 THEN "versioning" ELSE "writing") /\ f.op = "edit" /\ f.from = v
      /\ f.version = target /\ f.content = drafts'
    BY <1>0 DEF NoEdit
<1>3. /\ target = 0 => \A w \in Versions : row[w] # "draft"
      /\ target # 0 => target \in Versions /\ row[target] = "draft"
    <2>1. v # 0
        BY DEF Versions
    <2> QED BY <2>1, NewestDraft DEF TemplatesIInv
<1> HIDE DEF target
<1>4. f \in EditFrames
    <2>1. target \in 0..MaxVersion /\ v \in 0..MaxVersion /\ drafts + 1 \in FileContents
        BY <1>0, <1>1, <1>3, TemplatesAssumption DEF Versions
    <2> DEFINE p == IF target = 0 THEN "versioning" ELSE "writing"
    <2>2. p \in {"versioning", "writing"}
        OBVIOUS
    <2> HIDE DEF p
    <2>3. [NoEdit EXCEPT !.pc = p, !.op = "edit", !.from = v, !.version = target,
                         !.content = drafts + 1] \in EditFrames
        BY <2>1, <2>2, FrameIn, NoEditIn DEF EditPcs, EditOps
    <2> QED BY <2>3 DEF p
<1>5. edit[e].op = "none" /\ ~Acting(e) /\ ~Makes(e)
    BY Idle DEF StartEdit
<1>6. edit'[e] = f /\ \A d \in Editors \ {e} : edit'[d] = edit[d]
    BY <1>0 DEF TemplatesIInv, TemplatesTypeOK
<1> HIDE DEF f
<1>7. EditOK(e)'
    <2>1. v # 0 /\ Live(v)' /\ row' = row
        BY <1>0 DEF Versions, Live
    <2> QED BY <1>1, <1>2, <1>3, <1>6, <2>1, <1>0 DEF EditOK, Absent
<1>8. \A w \in Versions : w \in {f.version, f.from} => Others(e, w) = {} \/ w \in muddled'
    <2>1. ASSUME NEW w \in Versions, w \in {f.version, f.from}, Others(e, w) # {}
          PROVE  w \in muddled'
        <3>1. w \in {v, target} \ {0}
            BY <1>2, <2>1 DEF Versions
        <3> QED BY <1>0, <2>1, <3>1
    <2> QED BY <2>1
<1>9. muddled \subseteq muddled' /\ muddled' \subseteq Versions
    BY <1>0, <1>3 DEF TemplatesIInv, TemplatesTypeOK
<1>10. ASSUME muddled' = {} PROVE DraftsOK'
    <2>1. muddled = {} /\ DraftsOK /\ ~twice
        <3>1. ASSUME twice PROVE FALSE
            <4>1. v \in {w \in {v, target} \ {0} : Others(e, w) # {} \/ twice}
                BY <3>1 DEF Versions
            <4> QED BY <1>0, <1>10, <4>1
        <3> QED BY <1>0, <1>10, <3>1 DEF TemplatesIInv
    <2>3. \A d \in Editors \ {e} : Makes(d)' <=> MakesDraft(d)
        BY <1>0, <1>6 DEF Makes, MakesDraft
    <2>5. CASE target = 0
        <3>1. \A d \in Editors \ {e} : ~Makes(d)'
            BY <2>1, <2>3, <2>5
        <3>2. \A w \in Versions : row'[w] # "draft"
            BY <1>0, <1>3, <2>5
        <3> QED BY <3>1, <3>2 DEF DraftsOK
    <2>6. CASE target # 0
        <3>1. ~Makes(e)'
            BY <1>0, <1>2, <1>3, <1>6, <2>6 DEF Makes, MakesDraft
        <3>2. \A d \in Editors : Makes(d)' => Makes(d)
            BY <2>3, <3>1 DEF Makes
        <3> QED BY <1>0, <2>1, <3>2, DraftsStay
    <2> QED BY <2>5, <2>6
<1> QED BY <1>0, <1>1, <1>4, <1>5, <1>7, <1>8, <1>9, <1>10, QuietMove

\* A request on one live version begins.
LEMMA StartOnVersion ==
    ASSUME TemplatesIInv, NEW e \in Editors, EditAt(e, "idle"), NEW v \in Versions, Live(v),
           NEW f \in EditFrames, edit' = [edit EXCEPT ![e] = f], Touch(e, v),
           UNCHANGED <<row, stored, copied, drafts, frozen, named, overwritten>>,
           f.op \in {"publish", "delete", "instantiate"}, f.from = 0, f.version = v,
           f.pc \in {"committing", "erasing", "instantiating"}, EditOK(e)'
    PROVE  TemplatesIInv'
<1>1. edit[e].op = "none" /\ ~Acting(e) /\ ~Makes(e)
    BY Idle
<1>2. /\ muddled' = IF Others(e, v) # {} THEN muddled \cup {v} ELSE muddled
      /\ drafts' \in FileContents /\ row' = row /\ stored' = stored /\ frozen' = frozen
      /\ copied' = copied /\ muddled \subseteq Versions
    BY DEF Touch, TemplatesIInv, TemplatesTypeOK
<1>3. muddled \subseteq muddled' /\ muddled' \subseteq Versions
    BY <1>2
<1>4. \A w \in Versions : w \in {f.version, f.from} => Others(e, w) = {} \/ w \in muddled'
    BY <1>2 DEF Versions
<1>5. edit'[e] = f
    BY DEF TemplatesIInv, TemplatesTypeOK
<1>6. ~Makes(e)'
    BY <1>5 DEF Makes, MakesDraft
<1>7. muddled' = {} => DraftsOK'
    BY <1>2, <1>3, <1>4, <1>6, QuietDrafts
<1> QED BY <1>1, <1>2, <1>3, <1>4, <1>7, QuietMove

LEMMA StartPublishStep == ASSUME TemplatesIInv, NEW e \in Editors, StartPublish(e) PROVE TemplatesIInv'
<1> PICK v \in Versions :
        /\ row[v] = "draft"
        /\ Become(e, [NoEdit EXCEPT !.pc = "committing", !.op = "publish", !.version = v])
        /\ Touch(e, v)
    BY DEF StartPublish
<1> DEFINE f == [NoEdit EXCEPT !.pc = "committing", !.op = "publish", !.version = v]
<1>1. /\ edit' = [edit EXCEPT ![e] = f] /\ row[v] = "draft" /\ Live(v)
      /\ UNCHANGED <<row, stored, copied, drafts, frozen, named, overwritten>> /\ EditAt(e, "idle")
    BY DEF StartPublish, Become, Live
<1>2. f.pc = "committing" /\ f.op = "publish" /\ f.from = 0 /\ f.version = v
    BY DEF NoEdit
<1>3. f \in EditFrames
    <2>1. v \in 0..MaxVersion
        BY DEF Versions
    <2> QED BY <2>1, FrameOn, NoEditIn DEF EditPcs, EditOps
<1>4. edit'[e] = f
    BY <1>1 DEF TemplatesIInv, TemplatesTypeOK
<1> HIDE DEF f
<1>5. EditOK(e)'
    BY <1>1, <1>2, <1>4 DEF EditOK, Versions
<1> QED BY <1>1, <1>2, <1>3, <1>5, StartOnVersion

LEMMA StartDeleteStep == ASSUME TemplatesIInv, NEW e \in Editors, StartDelete(e) PROVE TemplatesIInv'
<1> PICK v \in Versions :
        /\ Live(v)
        /\ Become(e, [NoEdit EXCEPT !.pc = IF row[v] = "draft" THEN "erasing" ELSE "committing",
                                    !.op = "delete", !.version = v])
        /\ Touch(e, v)
    BY DEF StartDelete
<1> DEFINE p == IF row[v] = "draft" THEN "erasing" ELSE "committing"
           f == [NoEdit EXCEPT !.pc = p, !.op = "delete", !.version = v]
<1>1. /\ edit' = [edit EXCEPT ![e] = f] /\ Live(v)
      /\ UNCHANGED <<row, stored, copied, drafts, frozen, named, overwritten>> /\ EditAt(e, "idle")
    BY DEF StartDelete, Become
<1>2. f.pc = p /\ f.op = "delete" /\ f.from = 0 /\ f.version = v
    BY DEF NoEdit
<1>3. f \in EditFrames
    <2>1. v \in 0..MaxVersion /\ p \in {"erasing", "committing"}
        BY DEF Versions
    <2> HIDE DEF p
    <2> QED BY <2>1, FrameOn, NoEditIn DEF EditPcs, EditOps
<1>4. edit'[e] = f
    BY <1>1 DEF TemplatesIInv, TemplatesTypeOK
<1> HIDE DEF f
<1>5. EditOK(e)'
    BY <1>1, <1>2, <1>4 DEF EditOK, Versions, Live
<1> QED BY <1>1, <1>2, <1>3, <1>5, StartOnVersion

LEMMA StartInstantiateStep ==
    ASSUME TemplatesIInv, NEW e \in Editors, StartInstantiate(e) PROVE TemplatesIInv'
<1> PICK v \in Versions :
        /\ Instantiable(v)
        /\ stored[v] # Absent
        /\ Become(e, [NoEdit EXCEPT !.pc = "instantiating", !.op = "instantiate",
                                    !.version = v, !.content = stored[v]])
        /\ Touch(e, v)
    BY DEF StartInstantiate
<1> DEFINE f == [NoEdit EXCEPT !.pc = "instantiating", !.op = "instantiate",
                               !.version = v, !.content = stored[v]]
<1>1. /\ edit' = [edit EXCEPT ![e] = f] /\ Live(v) /\ row[v] = "published"
      /\ UNCHANGED <<row, stored, copied, drafts, frozen, named, overwritten>> /\ EditAt(e, "idle")
    BY DEF StartInstantiate, Become, Instantiable, Live
<1>2. f.pc = "instantiating" /\ f.op = "instantiate" /\ f.from = 0 /\ f.version = v
      /\ f.content = stored[v]
    BY DEF NoEdit
<1>3. f \in EditFrames
    <2>1. v \in 0..MaxVersion /\ stored[v] \in FileContents
        BY DEF Versions, TemplatesIInv, TemplatesTypeOK
    <2> QED BY <2>1, FrameIn, NoEditIn DEF EditPcs, EditOps
<1>4. edit'[e] = f
    BY <1>1 DEF TemplatesIInv, TemplatesTypeOK
<1> HIDE DEF f
<1>5. EditOK(e)'
    BY <1>1, <1>2, <1>4 DEF EditOK, Versions
<1> QED BY <1>1, <1>2, <1>3, <1>5, StartOnVersion

LEMMA ChooseVersionStep == ASSUME TemplatesIInv, NEW e \in Editors, ChooseVersion(e) PROVE TemplatesIInv'
<1> DEFINE v == NextVersion
           f == [edit[e] EXCEPT !.pc = "copying", !.version = v]
<1>0. /\ edit' = [edit EXCEPT ![e] = f] /\ v \in Versions /\ row[v] = "none"
      /\ muddled' = IF Others(e, v) # {} THEN muddled \cup {v} ELSE muddled
      /\ UNCHANGED <<row, stored, copied, drafts, frozen, named, overwritten>> /\ edit[e].pc = "versioning"
    BY NextIsFree DEF ChooseVersion, Become, Touch, TemplatesIInv, EditAt
<1> HIDE DEF v
<1>1. edit[e] \in EditFrames /\ EditOK(e) /\ edit[e].op = "edit" /\ Acting(e)
    BY <1>0 DEF TemplatesIInv, TemplatesTypeOK, EditFrames, EditOK, Acting
<1>2. /\ f.pc = "copying" /\ f.op = "edit" /\ f.from = edit[e].from /\ f.version = v
      /\ f.content = edit[e].content
    BY <1>1 DEF EditFrames
<1>3. f \in EditFrames
    <2>1. v \in 0..MaxVersion
        BY <1>0 DEF Versions
    <2> QED BY <1>1, <2>1, FrameOn DEF EditPcs
<1>4. edit'[e] = f
    BY <1>0 DEF TemplatesIInv, TemplatesTypeOK
<1> HIDE DEF f
<1>5. EditOK(e)'
    <2>1. v # 0 /\ row' = row /\ muddled \subseteq muddled'
        BY <1>0 DEF Versions
    <2>2. edit[e].content # Absent /\ edit[e].from # 0
          /\ (edit[e].from \in muddled \/ Live(edit[e].from))
        BY <1>0, <1>1 DEF EditOK
    <2>3. v \in muddled \/ edit[e].from # v
        BY <1>0, <2>2 DEF Live
    <2> QED BY <1>0, <1>2, <1>4, <2>1, <2>2, <2>3 DEF EditOK, Live
<1>6. \A w \in Versions : w \in {f.version, f.from} =>
            On(e, w) \/ Others(e, w) = {} \/ w \in muddled'
    BY <1>0, <1>1, <1>2 DEF On
<1>7. muddled \subseteq muddled' /\ muddled' \subseteq Versions /\ drafts' \in FileContents
    BY <1>0 DEF TemplatesIInv, TemplatesTypeOK
<1>8. Makes(e)
    BY <1>0, <1>1 DEF Makes, MakesDraft, EditOK
<1>9. muddled' = {} => DraftsOK'
    BY <1>0, <1>1, <1>2, <1>3, <1>6, <1>7, <1>8, QuietDrafts
<1> QED BY <1>0, <1>3, <1>5, <1>6, <1>7, <1>9, QuietMove

\* A request ends without a change.
LEMMA EndsStep ==
    ASSUME TemplatesIInv, NEW e \in Editors, Acting(e), edit' = [edit EXCEPT ![e] = NoEdit],
           UNCHANGED <<row, stored, copied, drafts, frozen, named, overwritten>>,
           muddled \subseteq muddled', muddled' \subseteq Versions,
           edit[e].op = "delete" => edit[e].version \in muddled'
    PROVE  TemplatesIInv'
<1>1. edit'[e] = NoEdit /\ NoEdit \in EditFrames /\ drafts' \in FileContents
    BY NoEditIn DEF TemplatesIInv, TemplatesTypeOK
<1>2. EditOK(e)' /\ ~Makes(e)'
    BY <1>1 DEF EditOK, NoEdit, Makes, MakesDraft
<1>3. NoEdit.pc = "idle" /\ NoEdit.op = "none"
    BY DEF NoEdit
<1>4. muddled' = {} => DraftsOK'
    BY <1>1, <1>2, <1>3, QuietDrafts
<1> QED BY <1>1, <1>2, <1>3, <1>4, QuietMove

LEMMA EditFailsStep == ASSUME TemplatesIInv, NEW e \in Editors, EditFails(e) PROVE TemplatesIInv'
<1>1. Acting(e) /\ edit[e] \in EditFrames /\ EditOK(e) /\ muddled \subseteq Versions
    BY DEF EditFails, EditAt, Acting, TemplatesIInv, TemplatesTypeOK, EditFrames
<1>2. edit[e].op = "delete" => edit[e].version \in Versions
    BY <1>1 DEF EditOK, EditFrames, Versions, Acting
<1> QED BY <1>1, <1>2, EndsStep DEF EditFails, Become

LEMMA InsertDraftStep == ASSUME TemplatesIInv, NEW e \in Editors, InsertDraft(e) PROVE TemplatesIInv'
<1>0. /\ edit[e].pc = "inserting" /\ UNCHANGED <<row, stored, copied, drafts, frozen, muddled, named, overwritten>>
      /\ edit[e] \in EditFrames /\ EditOK(e) /\ edit[e].op = "edit" /\ Acting(e)
    BY DEF InsertDraft, EditAt, TemplatesIInv, TemplatesTypeOK, EditFrames, EditOK, Acting
<1>1. CASE row[edit[e].version] # "none"
    <2>1. edit' = [edit EXCEPT ![e] = NoEdit] /\ muddled \subseteq Versions
        BY <1>1 DEF InsertDraft, Become, TemplatesIInv, TemplatesTypeOK
    <2> QED BY <1>0, <2>1, EndsStep
<1>2. CASE row[edit[e].version] = "none"
    <2> DEFINE f == [edit[e] EXCEPT !.pc = "writing"]
    <2>1. edit' = [edit EXCEPT ![e] = f]
        BY <1>2 DEF InsertDraft, Become
    <2>2. /\ f.pc = "writing" /\ f.op = "edit" /\ f.from = edit[e].from
          /\ f.version = edit[e].version /\ f.content = edit[e].content
        BY <1>0 DEF EditFrames
    <2>3. f \in EditFrames
        <3>1. edit[e].version \in 0..MaxVersion
            BY <1>0 DEF EditFrames
        <3> QED BY <1>0, <3>1, FrameOn DEF EditPcs
    <2>4. edit'[e] = f
        BY <2>1 DEF TemplatesIInv, TemplatesTypeOK
    <2> HIDE DEF f
    <2>5. EditOK(e)'
        BY <1>0, <1>2, <2>2, <2>4 DEF EditOK, Live
    <2>6. \A w \in Versions : w \in {f.version, f.from} => On(e, w)
        BY <1>0, <2>2 DEF On
    <2>7. muddled \subseteq Versions /\ drafts' \in FileContents /\ Makes(e)
        BY <1>0, <1>2 DEF TemplatesIInv, TemplatesTypeOK, Makes, MakesDraft
    <2>8. muddled' = {} => DraftsOK'
        BY <1>0, <2>1, <2>2, <2>3, <2>6, <2>7, QuietDrafts
    <2> QED BY <1>0, <2>1, <2>3, <2>5, <2>6, <2>7, <2>8, QuietMove
<1> QED BY <1>1, <1>2

\* A file of the version that a request is at work on is written or erased.
LEMMA StoreStep ==
    ASSUME TemplatesIInv, NEW e \in Editors, Acting(e), edit[e].pc # "committing",
           NEW v \in Versions, v = edit[e].version, NEW c \in FileContents,
           NEW f \in EditFrames, edit' = [edit EXCEPT ![e] = f],
           f.op = edit[e].op, f.version = v, f.from \in {edit[e].from, v},
           stored' = [stored EXCEPT ![v] = c],
           UNCHANGED <<row, copied, drafts, frozen, muddled, named>>,
           overwritten \subseteq overwritten', overwritten' \subseteq Versions,
           v \in (muddled \cup overwritten)' \/ row[v] \in {"none", "draft"},
           row[v] = "draft" => c # Absent \/ Erased(v)',
           EditOK(e)'
    PROVE  TemplatesIInv'
<1>1. TemplatesTypeOK'
    BY DEF TemplatesIInv, TemplatesTypeOK, EditFrames
<1>2. /\ stored'[v] = c /\ \A w \in Versions : w # v => stored'[w] = stored[w]
      /\ edit'[e] = f /\ \A d \in Editors \ {e} : edit'[d] = edit[d]
    BY DEF TemplatesIInv, TemplatesTypeOK
<1>3. \A w \in Versions : w \in {f.version, f.from} => On(e, w)
    BY DEF On
<1>4. /\ RequestsApart' /\ \A d \in Editors \ {e} : EditOK(d)'
      /\ muddled' = {} => \A d \in Editors \ {e} : Makes(d)' <=> Makes(d)
    BY <1>2, <1>3, OneMoves
<1>5. Makes(e)' <=> Makes(e)
    BY <1>2 DEF Makes, MakesDraft
<1>6. ASSUME muddled' = {} PROVE DraftsOK'
    BY <1>2, <1>4, <1>5, <1>6, DraftsStay
<1>7. ASSUME NEW w \in Versions, w \notin (muddled \cup overwritten)' PROVE VersionOK(w)'
    <2>1. VersionOK(w)
        BY <1>7 DEF TemplatesIInv
    <2>2. ASSUME Erased(w) PROVE Erased(w)'
        <3>1. PICK d \in Editors : edit[d].op = "delete" /\ edit[d].pc = "committing" /\
                                   edit[d].version = w /\ edit[d].from = w
            BY <2>2 DEF Erased
        <3>2. edit'[d] = edit[d]
            BY <1>2, <3>1
        <3> QED BY <3>1, <3>2 DEF Erased
    <2>3. CASE w = v
        BY <1>2, <1>7, <2>3 DEF VersionOK
    <2>4. CASE w # v
        BY <1>2, <2>1, <2>2, <2>4 DEF VersionOK
    <2> QED BY <2>3, <2>4
<1>8. CopiesOK'
    BY DEF TemplatesIInv, CopiesOK
<1> QED BY <1>1, <1>4, <1>6, <1>7, <1>8 DEF TemplatesIInv

LEMMA CopyFileStep == ASSUME TemplatesIInv, NEW e \in Editors, CopyFile(e) PROVE TemplatesIInv'
<1> DEFINE f == [edit[e] EXCEPT !.pc = "inserting"]
           v == edit[e].version
           c == stored[edit[e].from]
<1>0. /\ edit[e].pc = "copying"
      /\ UNCHANGED <<row, copied, drafts, frozen, muddled, named, overwritten>>
      /\ overwritten \subseteq Versions
      /\ edit[e] \in EditFrames /\ EditOK(e) /\ Acting(e)
      /\ stored' = [stored EXCEPT ![v] = c] /\ edit' = [edit EXCEPT ![e] = f]
    BY DEF CopyFile, EditAt, Become, TemplatesIInv, TemplatesTypeOK, EditFrames, EditOK, Acting
<1>1. /\ edit[e].op = "edit" /\ v \in Versions /\ edit[e].from \in Versions
      /\ v \in muddled \/ (row[v] = "none" /\ edit[e].from # v)
    BY <1>0 DEF EditOK, EditFrames, Versions
<1>2. /\ f.pc = "inserting" /\ f.op = "edit" /\ f.from = edit[e].from /\ f.version = v
      /\ f.content = edit[e].content
    BY <1>0, <1>1 DEF EditFrames
<1>3. f \in EditFrames
    <2>1. v \in 0..MaxVersion
        BY <1>1 DEF Versions
    <2> QED BY <1>0, <2>1, FrameOn DEF EditPcs
<1>4. c \in FileContents /\ (c # Absent)
    BY <1>1 DEF TemplatesIInv, TemplatesTypeOK, CopyFile
<1>5. edit'[e] = f
    BY <1>0 DEF TemplatesIInv, TemplatesTypeOK
<1> HIDE DEF f
<1>6. EditOK(e)'
    BY <1>0, <1>1, <1>2, <1>5 DEF EditOK, Live
<1> HIDE DEF c
<1> QED BY <1>0, <1>1, <1>2, <1>3, <1>4, <1>6, StoreStep

LEMMA WriteFileStep == ASSUME TemplatesIInv, NEW e \in Editors, WriteFile(e) PROVE TemplatesIInv'
<1> DEFINE f == [edit[e] EXCEPT !.pc = "committing"]
           v == edit[e].version
           c == edit[e].content
<1>0. /\ edit[e].pc = "writing" /\ UNCHANGED <<row, copied, drafts, frozen, muddled, named>>
      /\ edit[e] \in EditFrames /\ EditOK(e) /\ Acting(e)
      /\ stored' = [stored EXCEPT ![v] = c] /\ edit' = [edit EXCEPT ![e] = f]
      /\ overwritten' = overwritten \cup StoredOver(e) /\ overwritten \subseteq Versions
    BY DEF WriteFile, EditAt, Become, TemplatesIInv, TemplatesTypeOK, EditFrames, EditOK, Acting
<1>1. /\ edit[e].op \in {"create", "add", "edit"} /\ v \in Versions
      /\ c # Absent /\ c \in FileContents
      /\ v \in muddled \/ edit[e].op = "add" \/ (row[v] = "draft" /\ edit[e].op = "edit")
                       \/ (row[v] = "none" /\ edit[e].from # v)
    BY <1>0 DEF EditOK, EditFrames, Versions
<1>2. /\ f.pc = "committing" /\ f.op = edit[e].op /\ f.from = edit[e].from /\ f.version = v
      /\ f.content = c
    BY <1>0 DEF EditFrames
<1>3. f \in EditFrames
    <2>1. v \in 0..MaxVersion
        BY <1>1 DEF Versions
    <2> QED BY <1>0, <2>1, FrameOn DEF EditPcs
<1>4. overwritten \subseteq overwritten' /\ overwritten' \subseteq Versions
    BY <1>0, <1>1 DEF StoredOver
<1>5. edit'[e] = f /\ stored'[v] = c
    BY <1>0, <1>1 DEF TemplatesIInv, TemplatesTypeOK
<1>7. v \in (muddled \cup overwritten)' \/ row[v] \in {"none", "draft"}
    <2>1. row[v] \in RowStates
        BY <1>1 DEF TemplatesIInv, TemplatesTypeOK
    <2> QED BY <1>0, <1>1, <2>1 DEF StoredOver, RowStates
<1> HIDE DEF f
<1>6. EditOK(e)'
    BY <1>0, <1>1, <1>2, <1>5 DEF EditOK, Live
<1> HIDE DEF c
<1> QED BY <1>0, <1>1, <1>2, <1>3, <1>4, <1>6, <1>7, StoreStep

LEMMA EraseFileStep == ASSUME TemplatesIInv, NEW e \in Editors, EraseFile(e) PROVE TemplatesIInv'
<1> DEFINE v == edit[e].version
           f == [edit[e] EXCEPT !.pc = "committing", !.from = v]
<1>0. /\ edit[e].pc = "erasing"
      /\ UNCHANGED <<row, copied, drafts, frozen, muddled, named, overwritten>>
      /\ overwritten \subseteq Versions
      /\ edit[e] \in EditFrames /\ EditOK(e) /\ Acting(e)
      /\ stored' \in {stored, [stored EXCEPT ![v] = Absent]} /\ edit' = [edit EXCEPT ![e] = f]
    BY DEF EraseFile, EditAt, Become, TemplatesIInv, TemplatesTypeOK, EditFrames, EditOK, Acting
<1>1. /\ edit[e].op = "delete" /\ v \in Versions /\ v # 0
      /\ v \in muddled \/ row[v] = "draft"
    BY <1>0 DEF EditOK, EditFrames, Versions
<1>2. f.pc = "committing" /\ f.op = "delete" /\ f.from = v /\ f.version = v
    BY <1>0, <1>1 DEF EditFrames
<1>3. f \in EditFrames
    <2>1. v \in 0..MaxVersion
        BY <1>1 DEF Versions
    <2> QED BY <1>0, <2>1, FrameOn DEF EditPcs
<1>4. PICK c \in FileContents : stored' = [stored EXCEPT ![v] = c]
    <2>1. stored[v] \in FileContents /\ Absent \in FileContents
          /\ stored = [stored EXCEPT ![v] = stored[v]]
        BY <1>1, TemplatesAssumption DEF TemplatesIInv, TemplatesTypeOK, FileContents, Absent
    <2> QED BY <1>0, <2>1
<1>5. edit'[e] = f
    BY <1>0 DEF TemplatesIInv, TemplatesTypeOK
<1> HIDE DEF f
<1>6. EditOK(e)'
    BY <1>0, <1>1, <1>2, <1>5 DEF EditOK
<1>7. PICK u \in Versions : u = v
    BY <1>1
<1>8. Erased(u)'
    BY <1>2, <1>5, <1>7 DEF Erased
<1> HIDE DEF v
<1>9. v = edit[e].version
    BY DEF v
<1> QED BY <1>0, <1>1, <1>2, <1>3, <1>4, <1>6, <1>7, <1>8, <1>9, StoreStep

\* A request ends with what it does to the row of its version.
LEMMA CommitRow ==
    ASSUME TemplatesIInv, NEW e \in Editors, edit[e].pc = "committing",
           NEW v \in Versions, v = edit[e].version, NEW state \in RowStates,
           edit' = [edit EXCEPT ![e] = NoEdit], row' = [row EXCEPT ![v] = state],
           UNCHANGED <<stored, drafts, muddled, overwritten>>,
           named' \in {named, named \cup {v}, named \ {v}},
           v \in named /\ v \notin named' => Makes(e),
           frozen' \in [Versions -> FileContents], copied' \subseteq copied,
           \A w \in Versions : w # v => frozen'[w] = frozen[w],
           state = "draft" => row[v] = "draft" \/ Makes(e) \/ v \in muddled \cup named',
           v \in muddled \cup overwritten \/ VersionOK(v)',
           v \in muddled \cup overwritten \/ \A p \in copied' : p[1] = v =>
                state \in {"published", "deleted"} /\ p[2] = frozen'[v]
    PROVE  TemplatesIInv'
<1>0. /\ edit'[e] = NoEdit /\ \A d \in Editors \ {e} : edit'[d] = edit[d]
      /\ row'[v] = state /\ \A w \in Versions : w # v => row'[w] = row[w]
    BY DEF TemplatesIInv, TemplatesTypeOK
<1>1. TemplatesTypeOK'
    BY NoEditIn DEF TemplatesIInv, TemplatesTypeOK, EditFrames
<1>2. Acting(e) /\ NoEdit \in EditFrames /\ NoEdit.pc = "idle" /\ NoEdit.op = "none"
    BY NoEditIn DEF Acting, NoEdit
<1>3. /\ RequestsApart' /\ \A d \in Editors \ {e} : EditOK(d)'
      /\ muddled' = {} => \A d \in Editors \ {e} : Makes(d)' <=> Makes(d)
    BY <1>0, <1>2, OneMoves
<1>4. EditOK(e)' /\ ~Makes(e)'
    BY <1>0 DEF EditOK, NoEdit, Makes, MakesDraft
<1>5. ASSUME muddled' = {} PROVE DraftsOK'
    <2>0. muddled = {} /\ DraftsOK
        BY <1>5 DEF TemplatesIInv
    <2>1. \A w \in Versions \ named' : w # v => w \notin named /\ row'[w] = row[w]
        BY <1>0
    <2>2. CASE Makes(e)
        <3>1. \A w \in Versions \ named' : row'[w] = "draft" => w = v
            BY <2>0, <2>1, <2>2 DEF DraftsOK
        <3>2. \A d \in Editors : ~Makes(d)'
            BY <1>3, <1>4, <1>5, <2>0, <2>2 DEF DraftsOK
        <3> QED BY <3>1, <3>2 DEF DraftsOK
    <2>3. CASE ~Makes(e)
        <3>1. \A w \in Versions \ named' : row'[w] = "draft" => row[w] = "draft"
            BY <1>0, <2>0, <2>1, <2>3
        <3>2. \A d \in Editors : Makes(d)' => Makes(d)
            BY <1>3, <1>4, <1>5
        <3>3. named \subseteq named'
            BY <2>3
        <3> QED BY <2>0, <3>1, <3>2, <3>3, DraftsStay
    <2> QED BY <2>2, <2>3
<1>6. ASSUME NEW w \in Versions, w \notin (muddled \cup overwritten)' PROVE VersionOK(w)'
    <2>1. CASE w = v
        BY <1>6, <2>1
    <2>2. CASE w # v
        <3>1. VersionOK(w)
            BY <1>6 DEF TemplatesIInv
        <3>2. ASSUME Erased(w) PROVE Erased(w)'
            <4>1. PICK d \in Editors : edit[d].op = "delete" /\ edit[d].pc = "committing" /\
                                       edit[d].version = w /\ edit[d].from = w
                BY <3>2 DEF Erased
            <4>2. edit'[d] = edit[d]
                BY <1>0, <2>2, <4>1
            <4> QED BY <4>1, <4>2 DEF Erased
        <3> QED BY <1>0, <2>2, <3>1, <3>2 DEF VersionOK
    <2> QED BY <2>1, <2>2
<1>7. CopiesOK'
    <2>1. ASSUME NEW p \in copied', p[1] \notin (muddled \cup overwritten)'
          PROVE  row'[p[1]] \in {"published", "deleted"} /\ p[2] = frozen'[p[1]]
        <3>1. p[1] \in Versions
            BY DEF TemplatesIInv, TemplatesTypeOK
        <3>2. CASE p[1] = v
            BY <1>0, <2>1, <3>2
        <3>3. CASE p[1] # v
            <4>1. row[p[1]] \in {"published", "deleted"} /\ p[2] = frozen[p[1]]
                BY <2>1 DEF TemplatesIInv, CopiesOK
            <4> QED BY <1>0, <3>1, <3>3, <4>1
        <3> QED BY <3>2, <3>3
    <2> QED BY <2>1 DEF CopiesOK
<1> QED BY <1>1, <1>3, <1>4, <1>5, <1>6, <1>7 DEF TemplatesIInv

LEMMA CommitCreateStep ==
    ASSUME TemplatesIInv, NEW e \in Editors, CommitCreate(e) PROVE TemplatesIInv'
<1>1. PICK v \in Versions : v = edit[e].version
    BY DEF CommitCreate, EditAt, TemplatesIInv, EditOK, TemplatesTypeOK, Versions
<1>2. /\ edit[e].pc = "committing" /\ edit[e].op \in {"create", "add"} /\ EditOK(e) /\ Acting(e)
      /\ edit' = [edit EXCEPT ![e] = NoEdit]
      /\ UNCHANGED <<stored, copied, drafts, muddled, overwritten>> /\ muddled \subseteq Versions
    BY DEF CommitCreate, EditAt, Become, TemplatesIInv, TemplatesTypeOK, Acting
<1>3. CASE row[v] # "none"
    <2>1. UNCHANGED <<row, frozen, named>>
        BY <1>1, <1>3 DEF CommitCreate
    <2> QED BY <1>2, <2>1, EndsStep
<1>4. CASE row[v] = "none"
    <2>1. PICK state \in {"draft", "published"} :
            /\ row' = [row EXCEPT ![v] = state]
            /\ frozen' = IF state = "published" THEN [frozen EXCEPT ![v] = stored[v]] ELSE frozen
        BY <1>1, <1>4 DEF CommitCreate
    <2>2. named' = IF edit[e].op = "add" THEN named \cup {v} ELSE named \ {v}
        BY <1>1, <1>4 DEF CommitCreate
    <2>3. /\ state \in RowStates /\ row'[v] = state /\ frozen' \in [Versions -> FileContents]
          /\ \A w \in Versions : w # v => frozen'[w] = frozen[w]
          /\ state = "published" => frozen'[v] = stored[v]
        BY <2>1 DEF TemplatesIInv, TemplatesTypeOK, RowStates
    <2>4. named' \in {named, named \cup {v}, named \ {v}} /\ (v \in named' \/ Makes(e))
        BY <1>2, <2>2 DEF Makes, MakesDraft
    <2>5. v \in muddled \cup overwritten \/ VersionOK(v)'
        <3>1. v \in muddled \/ stored[v] # Absent
            BY <1>1, <1>2 DEF EditOK
        <3> QED BY <1>2, <2>1, <2>3, <3>1 DEF VersionOK
    <2>6. ASSUME NEW p \in copied', p[1] = v PROVE v \in muddled \cup overwritten
        BY <1>2, <1>4, <2>6 DEF TemplatesIInv, CopiesOK
    <2>7. /\ v \in muddled \cup overwritten \/ \A p \in copied' : p[1] = v =>
                state \in {"published", "deleted"} /\ p[2] = frozen'[v]
          /\ state = "draft" => row[v] = "draft" \/ Makes(e) \/ v \in muddled \cup named'
          /\ v \in named /\ v \notin named' => Makes(e)
        BY <2>4, <2>6
    <2>8. edit[e].pc = "committing" /\ UNCHANGED <<stored, drafts, muddled, overwritten>>
          /\ edit' = [edit EXCEPT ![e] = NoEdit] /\ copied' \subseteq copied
        BY <1>2
    <2> QED BY <1>1, <2>1, <2>3, <2>4, <2>5, <2>7, <2>8, CommitRow
<1> QED BY <1>3, <1>4

LEMMA CommitEditStep == ASSUME TemplatesIInv, NEW e \in Editors, CommitEdit(e) PROVE TemplatesIInv'
<1>1. PICK v \in Versions : v = edit[e].version
    BY DEF CommitEdit, EditAt, TemplatesIInv, EditOK, TemplatesTypeOK, Versions
<1> DEFINE new == row[v] = "none" /\ edit[e].from # v
           state == IF new THEN "draft" ELSE row[v]
<1>2. /\ edit[e].pc = "committing" /\ edit[e].op = "edit" /\ EditOK(e)
      /\ edit' = [edit EXCEPT ![e] = NoEdit]
      /\ UNCHANGED <<stored, copied, drafts, frozen, muddled, overwritten>>
      /\ row' = IF new THEN [row EXCEPT ![v] = "draft"] ELSE row
      /\ named' = IF new THEN named \ {v} ELSE named
    BY <1>1 DEF CommitEdit, EditAt, Become, TemplatesIInv
<1>3. row' = [row EXCEPT ![v] = state] /\ state \in RowStates
    BY <1>2 DEF TemplatesIInv, TemplatesTypeOK, RowStates
<1>4. row'[v] = state /\ edit[e].version # 0
    BY <1>1, <1>3 DEF TemplatesIInv, TemplatesTypeOK, Versions
<1>5. /\ new => Makes(e)
      /\ state = "draft" => row[v] = "draft" \/ Makes(e)
    BY <1>1, <1>2 DEF Makes, MakesDraft
<1>6. ASSUME v \notin muddled PROVE state \in {"draft", "none"} /\ stored[v] # Absent
    BY <1>1, <1>2, <1>6 DEF EditOK
<1>7. v \in muddled \/ VersionOK(v)'
    <2>1. ASSUME v \notin muddled PROVE row'[v] \in {"draft", "none"} /\ stored'[v] # Absent
        BY <1>2, <1>4, <1>6, <2>1
    <2> HIDE DEF state
    <2> QED BY <2>1 DEF VersionOK
<1>8. ASSUME NEW p \in copied', p[1] = v PROVE v \in muddled \cup overwritten
    BY <1>1, <1>2, <1>8 DEF TemplatesIInv, CopiesOK, EditOK
<1>9. /\ frozen' \in [Versions -> FileContents] /\ \A w \in Versions : frozen'[w] = frozen[w]
      /\ named' \in {named, named \cup {v}, named \ {v}}
      /\ v \in named /\ v \notin named' => Makes(e)
    BY <1>2, <1>5 DEF TemplatesIInv, TemplatesTypeOK
<1>10. /\ edit[e].pc = "committing" /\ UNCHANGED <<stored, drafts, muddled, overwritten>>
       /\ edit' = [edit EXCEPT ![e] = NoEdit] /\ copied' \subseteq copied
       /\ state = "draft" => row[v] = "draft" \/ Makes(e) \/ v \in muddled \cup named'
       /\ v \in muddled \cup overwritten \/ VersionOK(v)'
    BY <1>2, <1>5, <1>7
<1>11. v \in muddled \cup overwritten \/ \A p \in copied' : p[1] = v =>
            state \in {"published", "deleted"} /\ p[2] = frozen'[v]
    BY <1>8
<1> HIDE DEF state, new
<1> QED BY <1>1, <1>3, <1>9, <1>10, <1>11, CommitRow

LEMMA CommitPublishStep ==
    ASSUME TemplatesIInv, NEW e \in Editors, CommitPublish(e) PROVE TemplatesIInv'
<1>1. PICK v \in Versions : v = edit[e].version
    BY DEF CommitPublish, EditAt, TemplatesIInv, EditOK, TemplatesTypeOK, Versions
<1> DEFINE state == IF row[v] = "draft" THEN "published" ELSE row[v]
<1>2. /\ edit[e].pc = "committing" /\ edit[e].op = "publish" /\ EditOK(e) /\ On(e, v)
      /\ edit' = [edit EXCEPT ![e] = NoEdit]
      /\ UNCHANGED <<stored, copied, drafts, muddled, named, overwritten>>
      /\ row' = IF row[v] = "draft" THEN [row EXCEPT ![v] = "published"] ELSE row
      /\ frozen' = IF row[v] = "draft" THEN [frozen EXCEPT ![v] = stored[v]] ELSE frozen
    BY <1>1 DEF CommitPublish, EditAt, Become, TemplatesIInv, On, Acting
<1>3. row' = [row EXCEPT ![v] = state] /\ state \in RowStates /\ state # "draft"
    BY <1>2 DEF TemplatesIInv, TemplatesTypeOK, RowStates
<1>4. /\ frozen' \in [Versions -> FileContents]
      /\ \A w \in Versions : w # v => frozen'[w] = frozen[w]
    BY <1>2 DEF TemplatesIInv, TemplatesTypeOK
<1>5. ASSUME v \notin muddled \cup overwritten
      PROVE  row[v] = "draft" /\ frozen'[v] = stored[v] /\ stored[v] # Absent
    <2>1. row[v] = "draft" /\ VersionOK(v)
        BY <1>1, <1>2, <1>5 DEF EditOK, TemplatesIInv
    <2>2. ~Erased(v)
        <3>1. SUFFICES ASSUME NEW d \in Editors, edit[d].op = "delete", edit[d].pc = "committing",
                              edit[d].version = v
                       PROVE  FALSE
            BY DEF Erased
        <3>2. d # e /\ On(d, v)
            BY <1>2, <3>1 DEF On, Acting
        <3> QED BY <1>2, <1>5, <3>2 DEF TemplatesIInv, RequestsApart
    <2> QED BY <1>2, <2>1, <2>2 DEF VersionOK, TemplatesIInv, TemplatesTypeOK
<1>6. v \in muddled \cup overwritten \/ VersionOK(v)'
    BY <1>2, <1>3, <1>5 DEF VersionOK, TemplatesIInv, TemplatesTypeOK
<1>7. ASSUME NEW p \in copied', p[1] = v PROVE v \in muddled \cup overwritten
    BY <1>2, <1>5, <1>7 DEF TemplatesIInv, CopiesOK
<1>8. /\ UNCHANGED <<stored, drafts, muddled, named, overwritten>> /\ copied' \subseteq copied
      /\ edit[e].pc = "committing" /\ edit' = [edit EXCEPT ![e] = NoEdit]
    BY <1>2
<1>9. v \in muddled \cup overwritten \/ \A p \in copied' : p[1] = v =>
            state \in {"published", "deleted"} /\ p[2] = frozen'[v]
    BY <1>7
<1> HIDE DEF state
<1> QED BY <1>1, <1>3, <1>4, <1>6, <1>8, <1>9, CommitRow

LEMMA CommitDeleteStep ==
    ASSUME TemplatesIInv, NEW e \in Editors, CommitDelete(e) PROVE TemplatesIInv'
<1>1. PICK v \in Versions : v = edit[e].version
    BY DEF CommitDelete, EditAt, TemplatesIInv, EditOK, TemplatesTypeOK, Versions
<1> DEFINE gone == edit[e].from # 0
           state == IF row[v] = "none" THEN "none" ELSE IF gone THEN "none" ELSE "deleted"
<1>2. /\ edit[e].pc = "committing" /\ edit[e].op = "delete" /\ EditOK(e)
      /\ edit' = [edit EXCEPT ![e] = NoEdit]
      /\ UNCHANGED <<stored, drafts, frozen, muddled, named, overwritten>>
      /\ row' = [row EXCEPT ![v] = state] /\ state \in RowStates /\ state # "draft"
      /\ copied' = IF gone THEN {p \in copied : p[1] # v} ELSE copied
    BY <1>1 DEF CommitDelete, EditAt, Become, TemplatesIInv, TemplatesTypeOK, Removed, RowStates
<1>3. row'[v] = state /\ frozen' \in [Versions -> FileContents] /\ copied' \subseteq copied
    BY <1>2 DEF TemplatesIInv, TemplatesTypeOK
<1>4. ASSUME v \notin muddled
      PROVE  (gone /\ state = "none") \/ (~gone /\ row[v] = "published" /\ state = "deleted")
    BY <1>1, <1>2, <1>4 DEF EditOK, Versions
<1>5. v \in muddled \cup overwritten \/ VersionOK(v)'
    <2>1. CASE v \notin muddled /\ gone
        BY <1>3, <1>4, <2>1 DEF VersionOK
    <2>2. CASE v \notin muddled \cup overwritten /\ ~gone
        <3>1. VersionOK(v) /\ row[v] = "published" /\ row'[v] = "deleted"
            BY <1>3, <1>4, <2>2 DEF TemplatesIInv
        <3> QED BY <1>2, <3>1 DEF VersionOK
    <2> QED BY <2>1, <2>2
<1>6. ASSUME NEW p \in copied', p[1] = v, v \notin muddled \cup overwritten
      PROVE  state \in {"published", "deleted"} /\ p[2] = frozen'[v]
    <2>1. ~gone /\ p \in copied /\ state = "deleted"
        BY <1>2, <1>3, <1>4, <1>6
    <2> QED BY <1>2, <1>6, <2>1 DEF TemplatesIInv, CopiesOK
<1> HIDE DEF state, gone
<1> QED BY <1>1, <1>2, <1>3, <1>5, <1>6, CommitRow

LEMMA CommitInstantiateStep ==
    ASSUME TemplatesIInv, NEW e \in Editors, CommitInstantiate(e) PROVE TemplatesIInv'
<1>1. PICK v \in Versions : v = edit[e].version
    BY DEF CommitInstantiate, EditAt, TemplatesIInv, EditOK, TemplatesTypeOK, Versions
<1>2. /\ edit[e].pc = "instantiating" /\ edit[e].op = "instantiate" /\ EditOK(e) /\ Acting(e)
      /\ edit' = [edit EXCEPT ![e] = NoEdit]
      /\ UNCHANGED <<row, stored, drafts, frozen, muddled, named, overwritten>>
      /\ copied' = IF row[v] = "none" THEN copied ELSE copied \cup {<<v, edit[e].content>>}
    BY <1>1 DEF CommitInstantiate, EditAt, Become, TemplatesIInv, Acting, EditOK
<1>3. edit[e].content \in FileContents
    BY DEF TemplatesIInv, TemplatesTypeOK
<1>4. ASSUME v \notin muddled \cup overwritten
      PROVE  row[v] = "published" /\ edit[e].content = frozen[v]
    BY <1>1, <1>2, <1>4 DEF EditOK, TemplatesIInv, VersionOK
<1>5. CopiesOK'
    <2>1. \A p \in copied : p[1] \in muddled \cup overwritten \/
                (row[p[1]] \in {"published", "deleted"} /\ p[2] = frozen[p[1]])
        BY DEF TemplatesIInv, CopiesOK
    <2> QED BY <1>2, <1>4, <2>1 DEF CopiesOK
<1>6. edit'[e] = NoEdit /\ NoEdit \in EditFrames
    BY <1>2, NoEditIn DEF TemplatesIInv, TemplatesTypeOK
<1>7. NoEdit.pc = "idle" /\ NoEdit.op = "none"
    BY DEF NoEdit
<1>8. EditOK(e)' /\ ~Makes(e)'
    BY <1>6 DEF EditOK, NoEdit, Makes, MakesDraft
<1>9. TemplatesTypeOK'
    BY <1>1, <1>2, <1>3, <1>6 DEF TemplatesIInv, TemplatesTypeOK, EditFrames
<1>10. RequestsApart' /\ \A d \in Editors \ {e} : EditOK(d)'
    BY <1>2, <1>6, <1>7, OneMoves
<1>11. ASSUME NEW w \in Versions, w \notin (muddled \cup overwritten)' PROVE VersionOK(w)'
    <2>1. VersionOK(w)
        BY <1>2, <1>11 DEF TemplatesIInv
    <2>2. ASSUME Erased(w) PROVE Erased(w)'
        <3>1. PICK d \in Editors : edit[d].op = "delete" /\ edit[d].pc = "committing" /\
                                   edit[d].version = w /\ edit[d].from = w
            BY <2>2 DEF Erased
        <3>2. edit'[d] = edit[d]
            BY <1>2, <3>1 DEF TemplatesIInv, TemplatesTypeOK
        <3> QED BY <3>1, <3>2 DEF Erased
    <2> QED BY <1>2, <2>1, <2>2 DEF VersionOK
<1>12. muddled' = {} => DraftsOK'
    BY <1>2, <1>6, <1>7, <1>8, QuietDrafts
<1> QED BY <1>5, <1>8, <1>9, <1>10, <1>11, <1>12 DEF TemplatesIInv

LEMMA RestoreStep == ASSUME TemplatesIInv, NEW e \in Editors, Restore(e) PROVE TemplatesIInv'
<1>1. PICK v \in Versions :
        /\ row[v] = "deleted"
        /\ row' = [row EXCEPT ![v] = "published"]
        /\ muddled' = IF \A d \in Editors : EditAt(d, "idle") THEN muddled
                      ELSE muddled \cup {v}
    BY DEF Restore
<1>2. UNCHANGED <<stored, copied, edit, drafts, frozen, named, overwritten>>
    BY DEF Restore
<1>3. /\ row'[v] = "published" /\ \A w \in Versions : w # v => row'[w] = row[w]
      /\ muddled \subseteq muddled' /\ TemplatesTypeOK'
    BY <1>1, <1>2 DEF TemplatesIInv, TemplatesTypeOK, RowStates
<1>4. RequestsApart'
    BY <1>2, <1>3 DEF TemplatesIInv, RequestsApart, On, Acting
<1>5. ASSUME NEW d \in Editors PROVE EditOK(d)'
    <2>1. EditOK(d) /\ edit[d] \in EditFrames
        BY DEF TemplatesIInv, TemplatesTypeOK, EditFrames
    <2>2. CASE ~Acting(d)
        BY <1>2, <2>1, <2>2 DEF EditOK, Acting, NoEdit
    <2>3. CASE Acting(d)
        <3>1. v \in muddled'
            BY <1>1, <2>3 DEF Acting, EditAt
        <3>2. /\ edit[d].version \in muddled' \/ edit[d].version = 0
                    \/ row'[edit[d].version] = row[edit[d].version]
              /\ edit[d].from \in muddled' \/ edit[d].from = 0
                    \/ row'[edit[d].from] = row[edit[d].from]
            BY <1>3, <2>1, <3>1 DEF EditFrames, Versions
        <3> DEFINE g == edit[d]
        <3> HIDE DEF g
        <3>3. edit[d] = g /\ edit'[d] = g /\ stored' = stored
            BY <1>2 DEF g
        <3> QED BY <1>3, <2>1, <2>3, <3>2, <3>3 DEF EditOK, Live, Acting
    <2> QED BY <2>2, <2>3
<1>6. ASSUME NEW w \in Versions, w \notin (muddled \cup overwritten)' PROVE VersionOK(w)'
    <2>1. VersionOK(w) /\ (Erased(w) <=> Erased(w)')
        BY <1>2, <1>3, <1>6 DEF TemplatesIInv, Erased
    <2> QED BY <1>1, <1>2, <1>3, <2>1 DEF VersionOK
<1>7. CopiesOK'
    <2>1. ASSUME NEW p \in copied, p[1] \notin (muddled \cup overwritten)'
          PROVE  row'[p[1]] \in {"published", "deleted"} /\ p[2] = frozen[p[1]]
        <3>1. p[1] \in Versions /\ row[p[1]] \in {"published", "deleted"} /\ p[2] = frozen[p[1]]
            BY <1>2, <1>3, <2>1 DEF TemplatesIInv, CopiesOK, TemplatesTypeOK
        <3> QED BY <1>3, <3>1
    <2> QED BY <1>2, <2>1 DEF CopiesOK
<1>8. ASSUME muddled' = {} PROVE DraftsOK'
    <2>1. muddled = {} /\ DraftsOK /\ \A d \in Editors : edit[d] = NoEdit
        BY <1>1, <1>8 DEF TemplatesIInv, EditAt, EditOK
    <2>2. \A d \in Editors : ~Makes(d)'
        BY <1>2, <2>1 DEF Makes, MakesDraft, NoEdit
    <2>3. \A w \in Versions : row'[w] = "draft" => row[w] = "draft"
        BY <1>3
    <2> QED BY <1>2, <2>1, <2>2, <2>3 DEF DraftsOK
<1> QED BY <1>3, <1>4, <1>5, <1>6, <1>7, <1>8 DEF TemplatesIInv

LEMMA TemplatesStart == TemplatesInit => TemplatesIInv
<1> SUFFICES ASSUME TemplatesInit PROVE TemplatesIInv
    OBVIOUS
<1>1. \A e \in Editors : edit[e] = NoEdit
    BY DEF TemplatesInit
<1>2. TemplatesTypeOK
    <2>1. 0 \in FileContents /\ NoEdit \in EditFrames
        BY TemplatesAssumption, NoEditIn DEF FileContents
    <2> QED BY <2>1 DEF TemplatesInit, TemplatesTypeOK, EditFrames, RowStates, Absent
<1>3. RequestsApart /\ \A e \in Editors : EditOK(e)
    BY <1>1 DEF RequestsApart, On, Acting, NoEdit, EditOK
<1>4. (\A v \in Versions \ (muddled \cup overwritten) : VersionOK(v)) /\ CopiesOK
    BY DEF TemplatesInit, VersionOK, CopiesOK
<1>5. DraftsOK
    BY <1>1 DEF TemplatesInit, DraftsOK, Makes, MakesDraft, NoEdit
<1> QED BY <1>2, <1>3, <1>4, <1>5 DEF TemplatesIInv

LEMMA TemplatesStep == TemplatesIInv /\ [TemplatesNext]_templateVars => TemplatesIInv'
<1> SUFFICES ASSUME TemplatesIInv, [TemplatesNext]_templateVars PROVE TemplatesIInv'
    OBVIOUS
<1>1. CASE UNCHANGED templateVars
    BY <1>1 DEF templateVars, TemplatesIInv, TemplatesTypeOK, RequestsApart, On, Acting, EditOK,
        VersionOK, Erased, CopiesOK, DraftsOK, Makes, MakesDraft, Live, NextVersion
<1>2. CASE TemplatesNext
    BY <1>2, StartCreateStep, StartCreateVersionStep, CommitCreateStep, StartEditStep, ChooseVersionStep, CopyFileStep, InsertDraftStep,
       WriteFileStep, CommitEditStep, StartPublishStep, CommitPublishStep, StartDeleteStep,
       EraseFileStep, CommitDeleteStep, RestoreStep, StartInstantiateStep,
       CommitInstantiateStep, EditFailsStep DEF TemplatesNext
<1> QED BY <1>1, <1>2

LEMMA DraftsAreOne == ASSUME TemplatesIInv PROVE EditsStayInDraft
<1>1. PublishedIsImmutable
    <2>1. \A p \in copied : p[1] \notin muddled \cup overwritten =>
                row[p[1]] # "none" /\ p[2] = frozen[p[1]]
        BY DEF TemplatesIInv, CopiesOK
    <2> QED BY <2>1 DEF TemplatesIInv, VersionOK, PublishedIsImmutable
<1>2. ASSUME muddled = {} PROVE OneDraft
    <2> DEFINE D == {v \in Versions \ named : row[v] = "draft"}
    <2>1. \A v, w \in D : v = w
        BY <1>2 DEF TemplatesIInv, DraftsOK
    <2> HIDE DEF D
    <2>2. D = {} \/ \E v : D = {v}
        BY <2>1
    <2>3. Cardinality(D) <= 1
        <3>1. CASE D = {}
            BY <3>1, FS_EmptySet
        <3>2. CASE \E v : D = {v}
            <4>1. PICK v : D = {v}
                BY <3>2
            <4>2. Cardinality(D) = 1
                BY <4>1, FS_Singleton
            <4> QED BY <4>2
        <3> QED BY <2>2, <3>1, <3>2
    <2> QED BY <2>3 DEF OneDraft, D
<1> QED BY <1>1, <1>2 DEF EditsStayInDraft, DraftsAccumulate

(***************************************************************************)
(* Whatever requests overlap or fail, on any number of versions: what was  *)
(* published keeps its content, process models are copies of it, and edits *)
(* share one draft, unless requests on a version overlapped or a request   *)
(* named the version that it created (_get_or_create_draft_version,        *)
(* update_file_content, publish, delete; create_template_with_files,       *)
(* import_template_from_zip).                                              *)
(***************************************************************************)
THEOREM EditsAreDrafted == TemplatesSpec => []EditsStayInDraft
<1>1. TemplatesSpec => []TemplatesIInv
    BY TemplatesStart, TemplatesStep, PTL DEF TemplatesSpec
<1>2. TemplatesIInv => EditsStayInDraft
    BY DraftsAreOne
<1> QED BY <1>1, <1>2, PTL

(***************************************************************************)
(* Catalog: an instance runs what its model held while it was published.   *)
(* Of a model none of whose requests overlapped another the strengthening  *)
(* says what the request under way has read and may still rely on.         *)
(***************************************************************************)

UserFrames == [
    pc : {"idle", "creating", "copying", "saving", "updating", "deleting", "clearing",
          "startable", "read", "importing", "ready"},
    op : {"none", "create", "copy", "save", "update", "delete", "deleteGroup", "start"},
    model : Models \cup {NoModel}, xml : Xmls \cup {NoXml},
    status : PROCESS_MODEL_STATUSES \cup {"missing"}]

Busy(u) == ~UserAt(u, "idle")
\* Of two requests under way both models are among those whose requests overlapped.
UsersApart == \A u, v \in Users :
    u # v /\ Busy(u) /\ Busy(v) => user[u].model \in overlapping \cup {NoModel}

\* What a request holds, whoever else is under way
Holding == {"creating", "copying", "saving", "read", "importing", "ready"}
UserOK(u) ==
    LET f == user[u]
        m == f.model
    IN
    /\ f.pc \notin {"idle", "clearing"} => m \in Models
    /\ f.pc \in Holding => f.xml \in Xmls
    /\ f.pc = "updating" => f.status # "missing"
    /\ f.pc = "ready" => definition[f.xml] \in {m} \cup overlapping
    /\ f.pc = "clearing" => \A i \in instances : i.model \in overlapping

\* What a request that no other overlaps has read and is still so: a model that is created
\* or deleted has no instance, the status is the one that was checked, the file the one
\* that was read, the definition the one that was imported.
AloneOK(u) ==
    LET f == user[u]
        m == f.model
    IN
    /\ f.pc \in {"creating", "copying", "deleting"} => \A i \in instances : i.model # m
    /\ f.pc = "saving" => Exists(m)
    /\ f.pc = "startable" => Exists(m) /\ status[m] = "published"
    /\ f.pc \in {"read", "importing", "ready"} => file[m] = f.xml /\ <<m, f.xml>> \in released
    /\ f.pc = "ready" => definition[f.xml] = m

\* A model on disk has its status unless a copy is on its way, and what it holds while it
\* is published was released.
ModelOK(m) ==
    /\ Exists(m) => \/ status[m] # "missing"
                    \/ \E u \in Users : UserAt(u, "copying") /\ user[u].model = m
    /\ Exists(m) /\ status[m] = "published" => <<m, file[m]>> \in released

CatalogIInv ==
    /\ CatalogTypeOK
    /\ UsersApart
    /\ \A u \in Users : UserOK(u)
    /\ \A u \in Users : user[u].model \notin overlapping => AloneOK(u)
    /\ \A m \in Models \ overlapping : ModelOK(m)
    /\ InstancesRunReleasedModels

LEMMA CatalogStart == CatalogInit => CatalogIInv
<1> SUFFICES ASSUME CatalogInit PROVE CatalogIInv
    OBVIOUS
<1>1. NoUser \in UserFrames /\ NoUser.pc = "idle" /\ NoUser.model = NoModel
    BY DEF NoUser, UserFrames, PROCESS_MODEL_STATUSES
<1>2. user \in [Users -> UserFrames] /\ \A u \in Users : user[u] = NoUser
    BY <1>1 DEF CatalogInit
<1>3. CatalogTypeOK
    BY <1>2 DEF CatalogInit, CatalogTypeOK, UserFrames
<1>4. UsersApart /\ \A u \in Users : UserOK(u) /\ AloneOK(u)
    BY <1>1, <1>2 DEF UsersApart, Busy, UserAt, UserOK, AloneOK, Holding
<1>5. InstancesRunReleasedModels /\ \A m \in Models : ModelOK(m)
    BY DEF CatalogInit, InstancesRunReleasedModels, ModelOK, Exists
<1> QED BY <1>3, <1>4, <1>5 DEF CatalogIInv

\* The frame of the request that moves, and nobody else's
LEMMA Served ==
    ASSUME CatalogTypeOK, NEW u \in Users, NEW frame \in UserFrames, Serve(u, frame)
    PROVE  /\ user' \in [Users -> UserFrames]
           /\ user'[u] = frame
           /\ \A v \in Users \ {u} : user'[v] = user[v]
BY DEF CatalogTypeOK, Serve, UserFrames

LEMMA NoUserFrame == NoUser \in UserFrames /\ NoUser.pc = "idle" /\ NoUser.model = NoModel
BY DEF NoUser, UserFrames, PROCESS_MODEL_STATUSES

\* A request that goes on, or ends, with the model it had
LEMMA GoesOn ==
    ASSUME CatalogTypeOK, UsersApart, NEW u \in Users, Busy(u), NEW frame \in UserFrames,
           Serve(u, frame), frame.model = user[u].model \/ frame.pc = "idle",
           overlapping \subseteq overlapping'
    PROVE  /\ UsersApart'
           /\ \A v \in Users \ {u} : Busy(v) => user[v].model \in overlapping' \cup {NoModel}
           /\ \A v \in Users \ {u} : Busy(v) => user[u].model \in overlapping' \cup {NoModel}
BY Served DEF UsersApart, Busy, UserAt

LEMMA Enters ==
    ASSUME CatalogTypeOK, UsersApart, NEW u \in Users, NEW frame \in UserFrames,
           frame.pc # "idle", Enter(u, frame)
    PROVE  /\ user' \in [Users -> UserFrames]
           /\ user'[u] = frame
           /\ \A v \in Users \ {u} : user'[v] = user[v]
           /\ UserAt(u, "idle")
           /\ overlapping \subseteq overlapping' /\ overlapping' \subseteq Models
           /\ UsersApart'
           /\ \A v \in Users \ {u} : Busy(v) =>
                user[v].model \in overlapping' \cup {NoModel} /\ frame.model \in overlapping' \cup {NoModel}
<1>1. Serve(u, frame) /\ UserAt(u, "idle")
    BY DEF Enter
<1>2. /\ user' \in [Users -> UserFrames]
      /\ user'[u] = frame
      /\ \A v \in Users \ {u} : user'[v] = user[v]
    BY <1>1, Served
<1>3. /\ overlapping \subseteq overlapping' /\ overlapping' \subseteq Models
    <2>1. frame.model \in Models \cup {NoModel} /\ \A v \in Users : user[v].model \in Models \cup {NoModel}
        BY DEF CatalogTypeOK, UserFrames
    <2> QED BY <2>1 DEF Enter, CatalogTypeOK
<1>4. \A v \in Users \ {u} : Busy(v) =>
          user[v].model \in overlapping' \cup {NoModel} /\ frame.model \in overlapping' \cup {NoModel}
    BY DEF Enter, Busy, UserAt
<1>5. UsersApart'
    <2> SUFFICES ASSUME NEW v \in Users, NEW w \in Users, v # w, Busy(v)', Busy(w)'
                 PROVE  user'[v].model \in overlapping' \cup {NoModel}
        BY DEF UsersApart
    <2>1. CASE v = u
        BY <2>1, <1>2, <1>4 DEF Busy, UserAt
    <2>2. CASE w = u
        BY <2>2, <1>2, <1>4 DEF Busy, UserAt
    <2>3. CASE v # u /\ w # u
        BY <2>3, <1>2, <1>3 DEF Busy, UserAt, UsersApart
    <2> QED BY <2>1, <2>2, <2>3
<1> QED BY <1>1, <1>2, <1>3, <1>4, <1>5

\* The invariant, from what a step does to the others
StepOK(u) ==
    /\ overlapping \subseteq overlapping'
    /\ user' \in [Users -> UserFrames]
    /\ \A v \in Users \ {u} : user'[v] = user[v]
    /\ UsersApart'
    /\ \A v \in Users \ {u} : Busy(v) => user[v].model \in overlapping' \cup {NoModel}
    /\ \A i \in instances' : i \in instances \/ i.model \in overlapping' \cup {user[u].model}
    /\ \A x \in Xmls : definition'[x] = definition[x] \/ definition'[x] = user[u].model

\* What holds of every other request still does: a request that overlaps has its model
\* marked, and the definitions and instances that it sees appear are of marked models.
LEMMA OthersStay ==
    ASSUME CatalogIInv, NEW u \in Users, StepOK(u),
           \/ definition' = definition /\ instances' \subseteq instances
           \/ user[u].model \in Models /\ \A v \in Users \ {u} :
                Busy(v) => user[u].model \in overlapping'
    PROVE  \A v \in Users \ {u} : UserOK(v)' /\ (user'[v].model \notin overlapping' => AloneOK(v)')
<1> SUFFICES ASSUME NEW v \in Users \ {u}
             PROVE  UserOK(v)' /\ (user'[v].model \notin overlapping' => AloneOK(v)')
    OBVIOUS
<1>1. user'[v] = user[v] /\ UserOK(v) /\ overlapping \subseteq overlapping'
    BY DEF StepOK, CatalogIInv
<1>2. CASE ~Busy(v)
    BY <1>1, <1>2 DEF UserOK, AloneOK, Busy, UserAt, Holding
<1>3. CASE Busy(v)
    <2>1. user[v].pc # "idle" /\ user[v].model \in overlapping' \cup {NoModel}
        BY <1>3 DEF StepOK, Busy, UserAt
    <2>2. UserOK(v)'
        <3>1. user[v].pc = "ready" => definition'[user[v].xml] \in {user[v].model} \cup overlapping'
            BY <1>1, <1>3 DEF StepOK, UserOK, Holding
        <3>2. user[v].pc = "clearing" => \A i \in instances' : i.model \in overlapping'
            BY <1>1, <1>3 DEF StepOK, UserOK
        <3> QED BY <1>1, <3>1, <3>2 DEF UserOK, Holding
    <2>3. user[v].model \notin overlapping' => AloneOK(v)'
        <3>1. ASSUME user[v].model \notin overlapping'
              PROVE  user[v].pc = "clearing"
            BY <2>1, <3>1, <1>1, CatalogAssumption DEF UserOK
        <3> QED BY <3>1, <1>1 DEF AloneOK
    <2> QED BY <2>2, <2>3, <1>1
<1> QED BY <1>2, <1>3

\* Contents that were released stay so, unless requests about their model overlap.
KeepsReleased == \A m \in Models \ overlapping', x \in Xmls :
    <<m, x>> \in released => <<m, x>> \in released'

LEMMA ReleasedKept ==
    ASSUME CatalogTypeOK, KeepReleased \/ Release \/ UNCHANGED released
    PROVE  KeepsReleased
BY DEF CatalogTypeOK, KeepReleased, Release, KeepsReleased

LEMMA ReleasedTyped ==
    ASSUME CatalogTypeOK, KeepReleased \/ Release \/ UNCHANGED released
    PROVE  released' \subseteq Models \X Xmls
BY DEF CatalogTypeOK, KeepReleased, Release

LEMMA ModelStays ==
    ASSUME CatalogIInv, NEW u \in Users, StepOK(u), KeepsReleased,
           NEW m \in Models \ overlapping', file'[m] = file[m], status'[m] = status[m],
           UserAt(u, "copying") /\ user[u].model = m =>
                user'[u].pc = "copying" /\ user'[u].model = m
    PROVE  ModelOK(m)'
<1>1. m \in Models \ overlapping /\ ModelOK(m)
    BY DEF StepOK, CatalogIInv
<1>2. Exists(m)' <=> Exists(m)
    BY DEF Exists
<1>3. ASSUME NEW v \in Users, UserAt(v, "copying"), user[v].model = m
      PROVE  UserAt(v, "copying")' /\ user'[v].model = m
    BY <1>3 DEF StepOK, UserAt
<1>4. Exists(m) /\ status[m] = "published" => <<m, file[m]>> \in released'
    <2>1. Exists(m) => file[m] \in Xmls
        BY DEF Exists, CatalogIInv, CatalogTypeOK
    <2> QED BY <1>1, <2>1 DEF ModelOK, KeepsReleased
<1> QED BY <1>1, <1>2, <1>3, <1>4 DEF ModelOK

LEMMA InstancesStay ==
    ASSUME CatalogIInv, overlapping \subseteq overlapping', KeepsReleased,
           instances' \subseteq instances,
           \A i \in instances' : i.model \notin overlapping' /\ Exists(i.model) => Exists(i.model)'
    PROVE  InstancesRunReleasedModels'
<1> SUFFICES ASSUME NEW i \in instances'
             PROVE  /\ i.asked \notin overlapping' => i.model = i.asked /\ <<i.asked, i.xml>> \in released'
                    /\ i.model \notin overlapping' => Exists(i.model)'
    BY DEF InstancesRunReleasedModels
<1>1. i \in instances /\ i \in InstanceRows
    BY DEF CatalogIInv, CatalogTypeOK
<1>2. i.asked \in Models /\ i.xml \in Xmls /\ i.model \in Models
    BY <1>1 DEF InstanceRows
<1> QED BY <1>1, <1>2 DEF CatalogIInv, InstancesRunReleasedModels, KeepsReleased

\* Where nothing but the requests and what is marked changes
LEMMA OnlyRequests ==
    ASSUME CatalogIInv, NEW u \in Users, StepOK(u), UNCHANGED <<spec, core>>,
           overlapping' \subseteq Models, KeepReleased \/ UNCHANGED released,
           UserOK(u)', user'[u].model \notin overlapping' => AloneOK(u)',
           UserAt(u, "copying") => user[u].model \in overlapping'
    PROVE  CatalogIInv'
<1>1. KeepsReleased /\ released' \subseteq Models \X Xmls
    BY ReleasedKept, ReleasedTyped DEF CatalogIInv
<1>2. CatalogTypeOK'
    BY <1>1 DEF CatalogIInv, CatalogTypeOK, StepOK, UserFrames, spec, core
<1>3. \A v \in Users : UserOK(v)' /\ (user'[v].model \notin overlapping' => AloneOK(v)')
    BY OthersStay DEF spec, core
<1>4. \A m \in Models \ overlapping' : ModelOK(m)'
    BY <1>1, ModelStays DEF spec
<1>5. InstancesRunReleasedModels'
    BY <1>1, InstancesStay DEF StepOK, spec, core, Exists
<1> QED BY <1>2, <1>3, <1>4, <1>5 DEF CatalogIInv, StepOK

LEMMA Entered ==
    ASSUME CatalogIInv, NEW u \in Users, NEW frame \in UserFrames, frame.pc # "idle",
           Enter(u, frame), UNCHANGED core
    PROVE  /\ StepOK(u) /\ user'[u] = frame /\ UserAt(u, "idle") /\ overlapping' \subseteq Models
           /\ \A v \in Users \ {u} : Busy(v) =>
                user[v].model \in overlapping' \cup {NoModel} /\ frame.model \in overlapping' \cup {NoModel}
<1>1. CatalogTypeOK /\ UsersApart
    BY DEF CatalogIInv
<1> QED BY <1>1, Enters DEF StepOK, core

LEMMA StartDeleteGroupOK ==
    ASSUME CatalogIInv, NEW u \in Users, StartDeleteGroup(u)
    PROVE  CatalogIInv'
<1>1. PICK f \in UserFrames : f = [NoUser EXCEPT !.pc = "clearing", !.op = "deleteGroup"]
    BY DEF NoUser, UserFrames, PROCESS_MODEL_STATUSES
<1>2. f.pc = "clearing"
    BY <1>1 DEF NoUser
<1>3. /\ StepOK(u) /\ user'[u] = f /\ UserAt(u, "idle") /\ overlapping' \subseteq Models
    BY <1>1, <1>2, Entered DEF StartDeleteGroup
<1>4. UserOK(u)' /\ AloneOK(u)'
    BY <1>2, <1>3 DEF StartDeleteGroup, UserOK, AloneOK, Holding, core
<1> QED BY <1>3, <1>4, OnlyRequests DEF StartDeleteGroup, UserAt

LEMMA StartCreateModelOK ==
    ASSUME CatalogIInv, NEW u \in Users, StartCreateModel(u)
    PROVE  CatalogIInv'
<1>1. PICK m \in Models, x \in Xmls : ~Exists(m) /\
          Enter(u, [NoUser EXCEPT !.pc = "creating", !.op = "create", !.model = m, !.xml = x])
    BY DEF StartCreateModel
<1>2. PICK f \in UserFrames :
          f = [NoUser EXCEPT !.pc = "creating", !.op = "create", !.model = m, !.xml = x]
    BY DEF NoUser, UserFrames, PROCESS_MODEL_STATUSES
<1>3. f.pc = "creating" /\ f.model = m /\ f.xml = x
    BY <1>2 DEF NoUser
<1>4. /\ StepOK(u) /\ user'[u] = f /\ UserAt(u, "idle") /\ overlapping' \subseteq Models
    BY <1>1, <1>2, <1>3, Entered DEF StartCreateModel
<1>5. UserOK(u)'
    BY <1>3, <1>4 DEF UserOK, Holding
<1>6. m \notin overlapping' => AloneOK(u)'
    <2>1. m \notin overlapping' => \A i \in instances : i.model # m
        BY <1>1, <1>4 DEF CatalogIInv, InstancesRunReleasedModels, StepOK
    <2> QED BY <1>3, <1>4, <2>1 DEF StartCreateModel, AloneOK, core
<1> QED BY <1>3, <1>4, <1>5, <1>6, OnlyRequests DEF StartCreateModel, UserAt

LEMMA StartUpdateOK ==
    ASSUME CatalogIInv, NEW u \in Users, StartUpdate(u)
    PROVE  CatalogIInv'
<1>1. PICK m \in Models : \E next \in AllowedStatus(Status(m)) :
          Enter(u, [NoUser EXCEPT !.pc = "updating", !.op = "update", !.model = m, !.status = next])
    BY DEF StartUpdate
<1>2. PICK next \in AllowedStatus(Status(m)) :
          Enter(u, [NoUser EXCEPT !.pc = "updating", !.op = "update", !.model = m, !.status = next])
    BY <1>1
<1>3. next \in PROCESS_MODEL_STATUSES
    BY <1>2 DEF AllowedStatus, PROCESS_MODEL_STATUSES
<1>4. PICK f \in UserFrames :
          f = [NoUser EXCEPT !.pc = "updating", !.op = "update", !.model = m, !.status = next]
    BY <1>3 DEF NoUser, UserFrames, PROCESS_MODEL_STATUSES
<1>5. f.pc = "updating" /\ f.model = m /\ f.status = next
    BY <1>4 DEF NoUser
<1>6. /\ StepOK(u) /\ user'[u] = f /\ UserAt(u, "idle") /\ overlapping' \subseteq Models
    BY <1>2, <1>4, <1>5, Entered DEF StartUpdate
<1>7. UserOK(u)' /\ AloneOK(u)'
    BY <1>3, <1>5, <1>6 DEF UserOK, AloneOK, Holding, PROCESS_MODEL_STATUSES
<1> QED BY <1>6, <1>7, OnlyRequests DEF StartUpdate, UserAt

LEMMA StartDeleteModelOK ==
    ASSUME CatalogIInv, NEW u \in Users, StartDeleteModel(u)
    PROVE  CatalogIInv'
<1>1. PICK m \in Models : /\ Unreferenced(m)
                          /\ Enter(u, [NoUser EXCEPT !.pc = "deleting", !.op = "delete", !.model = m])
    BY DEF StartDeleteModel
<1>2. PICK f \in UserFrames :
          f = [NoUser EXCEPT !.pc = "deleting", !.op = "delete", !.model = m]
    BY DEF NoUser, UserFrames, PROCESS_MODEL_STATUSES
<1>3. f.pc = "deleting" /\ f.model = m
    BY <1>2 DEF NoUser
<1>4. /\ StepOK(u) /\ user'[u] = f /\ UserAt(u, "idle") /\ overlapping' \subseteq Models
    BY <1>1, <1>2, <1>3, Entered DEF StartDeleteModel
<1>5. UserOK(u)' /\ AloneOK(u)'
    BY <1>1, <1>3, <1>4 DEF StartDeleteModel, UserOK, AloneOK, Holding, Unreferenced, core
<1> QED BY <1>4, <1>5, OnlyRequests DEF StartDeleteModel, UserAt

LEMMA StartInstanceOK ==
    ASSUME CatalogIInv, NEW u \in Users, StartInstance(u)
    PROVE  CatalogIInv'
<1>1. PICK m \in Models : /\ Exists(m) /\ Status(m) \in PROCESS_MODEL_STARTABLE_STATUSES
                          /\ Enter(u, [NoUser EXCEPT !.pc = "startable", !.op = "start", !.model = m])
    BY DEF StartInstance
<1>2. PICK f \in UserFrames :
          f = [NoUser EXCEPT !.pc = "startable", !.op = "start", !.model = m]
    BY DEF NoUser, UserFrames, PROCESS_MODEL_STATUSES
<1>3. f.pc = "startable" /\ f.model = m
    BY <1>2 DEF NoUser
<1>4. /\ StepOK(u) /\ user'[u] = f /\ UserAt(u, "idle") /\ overlapping' \subseteq Models
      /\ \A v \in Users \ {u} : Busy(v) => user[v].model \in overlapping' \cup {NoModel}
    BY <1>1, <1>2, <1>3, Entered DEF StartInstance
<1>5. UserOK(u)'
    BY <1>3, <1>4 DEF UserOK, Holding
<1>6. m \notin overlapping' => AloneOK(u)'
    <2>1. ASSUME m \notin overlapping' PROVE status[m] = "published"
        <3>1. ModelOK(m) /\ m \notin overlapping /\ m # NoModel
            BY <2>1, <1>4, CatalogAssumption DEF StepOK, CatalogIInv
        <3>2. ~\E v \in Users : UserAt(v, "copying") /\ user[v].model = m
            BY <2>1, <3>1, <1>4 DEF Busy, UserAt
        <3> QED BY <1>1, <3>1, <3>2 DEF ModelOK, Status, PROCESS_MODEL_STARTABLE_STATUSES
    <2> QED BY <1>1, <1>3, <1>4, <2>1 DEF StartInstance, AloneOK, spec, Exists
<1> QED BY <1>3, <1>4, <1>5, <1>6, OnlyRequests DEF StartInstance, UserAt

\* A request that goes on, with the models marked as they are
LEMMA WentOn ==
    ASSUME CatalogIInv, NEW u \in Users, Busy(u), NEW frame \in UserFrames, Serve(u, frame),
           frame.model = user[u].model \/ frame.pc = "idle", overlapping \subseteq overlapping',
           \A i \in instances' : i \in instances \/ i.model \in overlapping' \cup {user[u].model},
           \A x \in Xmls : definition'[x] = definition[x] \/ definition'[x] = user[u].model
    PROVE  /\ StepOK(u) /\ user'[u] = frame
           /\ \A v \in Users \ {u} : Busy(v) => user[u].model \in overlapping' \cup {NoModel}
<1>1. CatalogTypeOK /\ UsersApart
    BY DEF CatalogIInv
<1>2. /\ user' \in [Users -> UserFrames]
      /\ user'[u] = frame
      /\ \A v \in Users \ {u} : user'[v] = user[v]
    BY <1>1, Served
<1> QED BY <1>1, <1>2, GoesOn DEF StepOK

LEMMA Ended ==
    ASSUME NEW u \in Users, user'[u] = NoUser
    PROVE  UserOK(u)' /\ AloneOK(u)'
BY NoUserFrame DEF UserOK, AloneOK, Holding

LEMMA ReadSpecOK ==
    ASSUME CatalogIInv, NEW u \in Users, ReadSpec(u)
    PROVE  CatalogIInv'
<1> DEFINE m == user[u].model
<1>1. UserAt(u, "startable") /\ Busy(u) /\ m \in Models /\ UNCHANGED <<spec, core, catalogHistory>>
    BY DEF ReadSpec, CatalogIInv, UserOK, UserAt, Busy
<1>2. CASE Exists(m) /\ Importable(file[m])
    <2>1. PICK x \in Xmls : x = file[m]
        BY <1>1, <1>2 DEF Exists, CatalogIInv, CatalogTypeOK
    <2>2. PICK f \in UserFrames : f = [user[u] EXCEPT !.pc = "read", !.xml = x]
        BY DEF CatalogIInv, CatalogTypeOK, UserFrames
    <2>3. f.pc = "read" /\ f.model = m /\ f.xml = x
        BY <2>2 DEF CatalogIInv, CatalogTypeOK, UserFrames
    <2>4. Serve(u, f)
        BY <1>2, <2>1, <2>2 DEF ReadSpec
    <2>5. StepOK(u) /\ user'[u] = f
        BY <1>1, <2>3, <2>4, WentOn DEF core, catalogHistory
    <2>6. UserOK(u)'
        BY <1>1, <2>3, <2>5 DEF UserOK, Holding
    <2>7. m \notin overlapping' => AloneOK(u)'
        <3>1. m \notin overlapping => status[m] = "published" /\ ModelOK(m)
            BY <1>1 DEF CatalogIInv, AloneOK, UserAt
        <3>2. m \notin overlapping => <<m, x>> \in released
            BY <3>1, <1>2, <2>1 DEF ModelOK
        <3> QED BY <1>1, <2>1, <2>3, <2>5, <3>2 DEF AloneOK, spec, catalogHistory
    <2> QED BY <1>1, <2>3, <2>5, <2>6, <2>7, OnlyRequests DEF catalogHistory, CatalogIInv, CatalogTypeOK, UserAt
<1>3. CASE ~(Exists(m) /\ Importable(file[m]))
    <2>1. Serve(u, NoUser)
        BY <1>3 DEF ReadSpec
    <2>2. StepOK(u) /\ user'[u] = NoUser
        BY <1>1, <2>1, NoUserFrame, WentOn DEF core, catalogHistory
    <2> QED BY <1>1, <2>2, Ended, OnlyRequests DEF catalogHistory, CatalogIInv, CatalogTypeOK, UserAt
<1> QED BY <1>2, <1>3

LEMMA ResolveDefinitionOK ==
    ASSUME CatalogIInv, NEW u \in Users, ResolveDefinition(u)
    PROVE  CatalogIInv'
<1> DEFINE m == user[u].model
           x == user[u].xml
<1>1. /\ UserAt(u, "read") /\ Busy(u) /\ m \in Models /\ x \in Xmls
      /\ UNCHANGED <<spec, core, catalogHistory>>
    BY DEF ResolveDefinition, CatalogIInv, UserOK, UserAt, Busy, Holding
<1>2. m \notin overlapping => file[m] = x /\ <<m, x>> \in released
    BY <1>1 DEF CatalogIInv, AloneOK, UserAt
<1>3. PICK pc \in {"ready", "importing"} :
          /\ pc = "ready" => definition[x] = m
          /\ Serve(u, [user[u] EXCEPT !.pc = pc])
    BY DEF ResolveDefinition, ImportedAs
<1>4. PICK f \in UserFrames : f = [user[u] EXCEPT !.pc = pc]
    BY <1>3 DEF CatalogIInv, CatalogTypeOK, UserFrames
<1>5. f.pc = pc /\ f.model = m /\ f.xml = x
    BY <1>4 DEF CatalogIInv, CatalogTypeOK, UserFrames
<1>6. StepOK(u) /\ user'[u] = f
    BY <1>1, <1>3, <1>4, <1>5, WentOn DEF core, catalogHistory
<1>7. UserOK(u)'
    BY <1>1, <1>3, <1>5, <1>6 DEF UserOK, Holding, core
<1>8. m \notin overlapping' => AloneOK(u)'
    BY <1>1, <1>2, <1>3, <1>5, <1>6 DEF AloneOK, spec, core, catalogHistory
<1> QED BY <1>1, <1>5, <1>6, <1>7, <1>8, OnlyRequests DEF catalogHistory, CatalogIInv, CatalogTypeOK, UserAt

LEMMA RequestFailsOK ==
    ASSUME CatalogIInv, NEW u \in Users, RequestFails(u)
    PROVE  CatalogIInv'
<1>1. /\ overlapping \subseteq overlapping' /\ overlapping' \subseteq Models
      /\ UserAt(u, "copying") => user[u].model \in overlapping'
    BY DEF RequestFails, CatalogIInv, CatalogTypeOK, UserOK, UserAt
<1>2. Busy(u) /\ Serve(u, NoUser) /\ UNCHANGED core
    BY DEF RequestFails, Busy
<1>3. StepOK(u) /\ user'[u] = NoUser
    BY <1>1, <1>2, NoUserFrame, WentOn DEF core
<1> QED BY <1>1, <1>3, Ended, OnlyRequests DEF RequestFails

LEMMA CreateGroupOK ==
    ASSUME CatalogIInv, NEW u \in Users, CreateGroup(u)
    PROVE  CatalogIInv'
BY DEF CreateGroup, core, catalogHistory, CatalogIInv, CatalogTypeOK, UsersApart, Busy, UserAt, UserOK,
    AloneOK, ModelOK, Exists, InstancesRunReleasedModels

LEMMA DeleteInstanceOK ==
    ASSUME CatalogIInv, NEW u \in Users, DeleteInstance(u)
    PROVE  CatalogIInv'
<1>1. /\ instances' \subseteq instances
      /\ UNCHANGED <<group, file, status, definition, user, released, overlapping>>
    BY DEF DeleteInstance, spec, catalogHistory
<1>2. CatalogTypeOK' /\ UsersApart'
    BY <1>1 DEF CatalogIInv, CatalogTypeOK, UsersApart, Busy, UserAt
<1>3. \A v \in Users : UserOK(v)' /\ (user'[v].model \notin overlapping' => AloneOK(v)')
    BY <1>1 DEF CatalogIInv, UserOK, AloneOK, Exists
<1>4. \A m \in Models \ overlapping' : ModelOK(m)'
    BY <1>1 DEF CatalogIInv, ModelOK, UserAt, Exists
<1>5. InstancesRunReleasedModels'
    BY <1>1 DEF CatalogIInv, InstancesRunReleasedModels, Exists
<1> QED BY <1>2, <1>3, <1>4, <1>5 DEF CatalogIInv

\* While a request about a model that nobody else touches is under way, the model's
\* instances and its marks are the request's to change.
LEMMA DeleteGroupOK ==
    ASSUME CatalogIInv, NEW u \in Users, DeleteGroup(u)
    PROVE  CatalogIInv'
<1>1. /\ UserAt(u, "clearing") /\ Busy(u) /\ UNCHANGED core /\ KeepReleased /\ group' = FALSE
      /\ Serve(u, NoUser) /\ overlapping \subseteq overlapping' /\ overlapping' \subseteq Models
    BY DEF DeleteGroup, UserAt, Busy, CatalogIInv, CatalogTypeOK
<1>2. StepOK(u) /\ user'[u] = NoUser
    BY <1>1, NoUserFrame, WentOn DEF core
<1>3. \A v \in Users : UserOK(v)' /\ (user'[v].model \notin overlapping' => AloneOK(v)')
    BY <1>1, <1>2, OthersStay, Ended DEF core
<1>4. /\ file' \in [Models -> Xmls \cup {NoXml}] /\ status' \in [Models -> PROCESS_MODEL_STATUSES \cup {"missing"}]
      /\ \A m \in Models : ~Exists(m)'
    BY DEF DeleteGroup, Exists
<1>5. KeepsReleased /\ released' \subseteq Models \X Xmls
    BY <1>1, ReleasedKept, ReleasedTyped DEF CatalogIInv
<1>6. CatalogTypeOK'
    BY <1>1, <1>2, <1>4, <1>5 DEF CatalogIInv, CatalogTypeOK, StepOK, UserFrames, core
<1>7. \A m \in Models \ overlapping' : ModelOK(m)'
    BY <1>4 DEF ModelOK
<1>8. InstancesRunReleasedModels'
    <2>1. \A i \in instances : i.model \in overlapping'
        BY <1>1 DEF CatalogIInv, UserOK, UserAt
    <2> QED BY <1>1, <1>5, <2>1, InstancesStay DEF core
<1> QED BY <1>2, <1>3, <1>6, <1>7, <1>8 DEF CatalogIInv, StepOK

LEMMA CopyFilesOK ==
    ASSUME CatalogIInv, NEW u \in Users, CopyFiles(u)
    PROVE  CatalogIInv'
<1>1. PICK m \in Models, n \in Models :
        /\ Exists(n) /\ ~Exists(m) /\ status[m] = "missing"
        /\ file' = [file EXCEPT ![m] = file[n]]
        /\ Enter(u, [NoUser EXCEPT !.pc = "copying", !.op = "copy", !.model = m, !.xml = file[n]])
    BY DEF CopyFiles
<1>2. PICK x \in Xmls : x = file[n]
    BY <1>1 DEF Exists, CatalogIInv, CatalogTypeOK
<1>3. PICK f \in UserFrames :
          f = [NoUser EXCEPT !.pc = "copying", !.op = "copy", !.model = m, !.xml = x]
    BY DEF NoUser, UserFrames, PROCESS_MODEL_STATUSES
<1>4. f.pc = "copying" /\ f.model = m /\ f.xml = x
    BY <1>3 DEF NoUser
<1>5. Enter(u, f) /\ UNCHANGED <<status, core>> /\ KeepReleased /\ group' = TRUE
    BY <1>1, <1>2, <1>3 DEF CopyFiles
<1>6. /\ StepOK(u) /\ user'[u] = f /\ UserAt(u, "idle") /\ overlapping' \subseteq Models
    BY <1>4, <1>5, Entered
<1>7. /\ file' \in [Models -> Xmls \cup {NoXml}] /\ file'[m] = x
      /\ \A k \in Models \ {m} : file'[k] = file[k]
    BY <1>1, <1>2 DEF CatalogIInv, CatalogTypeOK
<1>8. m \notin overlapping' => \A i \in instances : i.model # m
    BY <1>1, <1>6 DEF CatalogIInv, InstancesRunReleasedModels, StepOK
<1>9. UserOK(u)' /\ (m \notin overlapping' => AloneOK(u)')
    BY <1>4, <1>5, <1>6, <1>8 DEF UserOK, AloneOK, Holding, core
<1>10. \A v \in Users : UserOK(v)' /\ (user'[v].model \notin overlapping' => AloneOK(v)')
    BY <1>4, <1>5, <1>6, <1>9, OthersStay DEF core
<1>11. KeepsReleased /\ released' \subseteq Models \X Xmls
    BY <1>5, ReleasedKept, ReleasedTyped DEF CatalogIInv
<1>12. CatalogTypeOK'
    BY <1>5, <1>6, <1>7, <1>11 DEF CatalogIInv, CatalogTypeOK, StepOK, UserFrames, core
<1>13. ASSUME NEW k \in Models \ overlapping' PROVE ModelOK(k)'
    <2>1. CASE k = m
        BY <2>1, <1>1, <1>4, <1>5, <1>6 DEF ModelOK, UserAt
    <2>2. CASE k # m
        BY <2>2, <1>5, <1>6, <1>7, <1>11, ModelStays DEF UserAt
    <2> QED BY <2>1, <2>2
<1>14. InstancesRunReleasedModels'
    <2>1. \A i \in instances : i.model \in Models
        BY DEF CatalogIInv, CatalogTypeOK, InstanceRows
    <2>2. \A i \in instances : i.model \notin overlapping' /\ Exists(i.model) => Exists(i.model)'
        BY <2>1, <1>7, <1>8 DEF Exists
    <2> QED BY <1>5, <1>6, <1>11, <2>2, InstancesStay DEF core, StepOK
<1> QED BY <1>6, <1>10, <1>12, <1>13, <1>14 DEF CatalogIInv, StepOK

LEMMA StoreFileOK ==
    ASSUME CatalogIInv, NEW u \in Users, StoreFile(u)
    PROVE  CatalogIInv'
<1>1. PICK m \in Models, x \in Xmls :
        /\ Exists(m)
        /\ file' = [file EXCEPT ![m] = x]
        /\ Enter(u, [NoUser EXCEPT !.pc = "saving", !.op = "save", !.model = m, !.xml = x])
    BY DEF StoreFile
<1>3. PICK f \in UserFrames :
          f = [NoUser EXCEPT !.pc = "saving", !.op = "save", !.model = m, !.xml = x]
    BY DEF NoUser, UserFrames, PROCESS_MODEL_STATUSES
<1>4. f.pc = "saving" /\ f.model = m /\ f.xml = x
    BY <1>3 DEF NoUser
<1>5. Enter(u, f) /\ UNCHANGED <<group, status, core>> /\ Release
    BY <1>1, <1>3 DEF StoreFile
<1>6. /\ StepOK(u) /\ user'[u] = f /\ UserAt(u, "idle") /\ overlapping' \subseteq Models
    BY <1>4, <1>5, Entered
<1>7. /\ file' \in [Models -> Xmls \cup {NoXml}] /\ file'[m] = x
      /\ \A k \in Models \ {m} : file'[k] = file[k]
    BY <1>1 DEF CatalogIInv, CatalogTypeOK
<1>8. Exists(m)'
    BY <1>7, CatalogAssumption DEF Exists
<1>9. UserOK(u)' /\ (m \notin overlapping' => AloneOK(u)')
    BY <1>4, <1>6, <1>8 DEF UserOK, AloneOK, Holding
<1>10. \A v \in Users : UserOK(v)' /\ (user'[v].model \notin overlapping' => AloneOK(v)')
    BY <1>4, <1>5, <1>6, <1>9, OthersStay DEF core
<1>11. KeepsReleased /\ released' \subseteq Models \X Xmls
    BY <1>5, ReleasedKept, ReleasedTyped DEF CatalogIInv
<1>12. CatalogTypeOK'
    BY <1>5, <1>6, <1>7, <1>11 DEF CatalogIInv, CatalogTypeOK, StepOK, UserFrames, core
<1>13. ASSUME NEW k \in Models \ overlapping' PROVE ModelOK(k)'
    <2>1. CASE k = m
        <3>1. ModelOK(m)
            BY <2>1, <1>6 DEF StepOK, CatalogIInv
        <3>2. \A v \in Users : UserAt(v, "copying") => UserAt(v, "copying")' /\ user'[v].model = user[v].model
            BY <1>6 DEF StepOK, UserAt
        <3>3. status'[m] = "published" => <<m, x>> \in released'
            BY <2>1, <1>5, <1>7 DEF Release
        <3> QED BY <2>1, <3>1, <3>2, <3>3, <1>1, <1>5, <1>7 DEF ModelOK
    <2>2. CASE k # m
        BY <2>2, <1>5, <1>6, <1>7, <1>11, ModelStays DEF UserAt
    <2> QED BY <2>1, <2>2
<1>14. InstancesRunReleasedModels'
    <2>1. \A i \in instances : i.model \in Models
        BY DEF CatalogIInv, CatalogTypeOK, InstanceRows
    <2>2. \A i \in instances : i.model \notin overlapping' /\ Exists(i.model) => Exists(i.model)'
        BY <2>1, <1>7, <1>8 DEF Exists
    <2> QED BY <1>5, <1>6, <1>11, <2>2, InstancesStay DEF core, StepOK
<1> QED BY <1>6, <1>10, <1>12, <1>13, <1>14 DEF CatalogIInv, StepOK

LEMMA NewModelOK ==
    ASSUME CatalogIInv, NEW u \in Users, CreateModel(u) \/ CreateModelUncommitted(u)
    PROVE  CatalogIInv'
<1> DEFINE m == user[u].model
           x == user[u].xml
<1>1. /\ user[u].pc \in {"creating", "copying"} /\ Busy(u) /\ m \in Models /\ x \in Xmls /\ m # NoModel
      /\ group' = TRUE /\ Serve(u, NoUser) /\ UNCHANGED <<instances, catalogHistory>>
    BY CatalogAssumption DEF CreateModel, CreateModelUncommitted, CatalogIInv, UserOK, UserAt, Busy, Holding, core
<1>2. PICK y \in Xmls \cup {NoXml}, st \in {"draft", "missing"} :
        /\ file' = [file EXCEPT ![m] = y] /\ status' = [status EXCEPT ![m] = st]
        /\ definition' = definition \/ definition' = [definition EXCEPT ![x] = m]
        /\ y = NoXml \/ st = "draft"
    BY <1>1 DEF CreateModel, CreateModelUncommitted, NewStatus, core
<1>3. /\ file' \in [Models -> Xmls \cup {NoXml}] /\ file'[m] = y
      /\ \A k \in Models \ {m} : file'[k] = file[k]
    BY <1>1, <1>2 DEF CatalogIInv, CatalogTypeOK
<1>4. /\ status' \in [Models -> PROCESS_MODEL_STATUSES \cup {"missing"}] /\ status'[m] = st
      /\ \A k \in Models \ {m} : status'[k] = status[k]
    BY <1>1, <1>2 DEF CatalogIInv, CatalogTypeOK, PROCESS_MODEL_STATUSES
<1>5. /\ definition' \in [Xmls -> Models \cup {NoModel}]
      /\ \A z \in Xmls : definition'[z] = definition[z] \/ definition'[z] = m
    BY <1>1, <1>2 DEF CatalogIInv, CatalogTypeOK
<1>6. /\ StepOK(u) /\ user'[u] = NoUser
      /\ \A v \in Users \ {u} : Busy(v) => m \in overlapping'
    BY <1>1, <1>5, NoUserFrame, WentOn DEF catalogHistory
<1>7. \A v \in Users : UserOK(v)' /\ (user'[v].model \notin overlapping' => AloneOK(v)')
    BY <1>1, <1>6, OthersStay, Ended
<1>8. KeepsReleased /\ released' \subseteq Models \X Xmls
    BY <1>1, ReleasedKept, ReleasedTyped DEF CatalogIInv, catalogHistory
<1>9. CatalogTypeOK'
    BY <1>1, <1>3, <1>4, <1>5, <1>6, <1>8 DEF CatalogIInv, CatalogTypeOK, StepOK, UserFrames, catalogHistory
<1>10. ASSUME NEW k \in Models \ overlapping' PROVE ModelOK(k)'
    <2>1. CASE k = m
        BY <2>1, <1>2, <1>3, <1>4 DEF ModelOK, Exists
    <2>2. CASE k # m
        BY <2>2, <1>3, <1>4, <1>6, <1>8, ModelStays DEF UserAt
    <2> QED BY <2>1, <2>2
<1>11. InstancesRunReleasedModels'
    <2>1. \A i \in instances : i.model \in Models
        BY DEF CatalogIInv, CatalogTypeOK, InstanceRows
    <2>2. m \notin overlapping => \A i \in instances : i.model # m
        BY <1>1 DEF CatalogIInv, AloneOK
    <2>3. \A i \in instances : i.model \notin overlapping' /\ Exists(i.model) => Exists(i.model)'
        BY <1>1, <1>3, <2>1, <2>2 DEF Exists, catalogHistory
    <2> QED BY <1>1, <1>6, <1>8, <2>3, InstancesStay DEF StepOK
<1> QED BY <1>6, <1>7, <1>9, <1>10, <1>11 DEF CatalogIInv, StepOK

LEMMA DeleteModelOK ==
    ASSUME CatalogIInv, NEW u \in Users, DeleteModel(u)
    PROVE  CatalogIInv'
<1> DEFINE m == user[u].model
<1>1. /\ user[u].pc = "deleting" /\ Busy(u) /\ m \in Models
      /\ file' = [file EXCEPT ![m] = NoXml] /\ status' = [status EXCEPT ![m] = "missing"]
      /\ Serve(u, NoUser) /\ UNCHANGED <<group, core, catalogHistory>>
    BY DEF DeleteModel, CatalogIInv, UserOK, UserAt, Busy
<1>2. /\ file' \in [Models -> Xmls \cup {NoXml}] /\ file'[m] = NoXml
      /\ \A k \in Models \ {m} : file'[k] = file[k]
    BY <1>1 DEF CatalogIInv, CatalogTypeOK
<1>3. /\ status' \in [Models -> PROCESS_MODEL_STATUSES \cup {"missing"}]
      /\ \A k \in Models \ {m} : status'[k] = status[k]
    BY <1>1 DEF CatalogIInv, CatalogTypeOK, PROCESS_MODEL_STATUSES
<1>4. StepOK(u) /\ user'[u] = NoUser
    BY <1>1, NoUserFrame, WentOn DEF catalogHistory, core
<1>5. \A v \in Users : UserOK(v)' /\ (user'[v].model \notin overlapping' => AloneOK(v)')
    BY <1>1, <1>4, OthersStay, Ended DEF core
<1>6. KeepsReleased /\ released' \subseteq Models \X Xmls
    BY <1>1, ReleasedKept, ReleasedTyped DEF CatalogIInv, catalogHistory
<1>7. CatalogTypeOK'
    BY <1>1, <1>2, <1>3, <1>4, <1>6 DEF CatalogIInv, CatalogTypeOK, StepOK, UserFrames, catalogHistory, core
<1>8. ASSUME NEW k \in Models \ overlapping' PROVE ModelOK(k)'
    <2>1. CASE k = m
        BY <2>1, <1>2 DEF ModelOK, Exists
    <2>2. CASE k # m
        BY <2>2, <1>2, <1>3, <1>4, <1>6, ModelStays DEF UserAt
    <2> QED BY <2>1, <2>2
<1>9. InstancesRunReleasedModels'
    <2>1. \A i \in instances : i.model \in Models
        BY DEF CatalogIInv, CatalogTypeOK, InstanceRows
    <2>2. m \notin overlapping => \A i \in instances : i.model # m
        BY <1>1 DEF CatalogIInv, AloneOK
    <2>3. \A i \in instances : i.model \notin overlapping' /\ Exists(i.model) => Exists(i.model)'
        BY <1>1, <1>2, <2>1, <2>2 DEF Exists, catalogHistory
    <2> QED BY <1>1, <1>4, <1>6, <2>3, InstancesStay DEF StepOK, core
<1> QED BY <1>4, <1>5, <1>7, <1>8, <1>9 DEF CatalogIInv, StepOK

LEMMA ImportFileOK ==
    ASSUME CatalogIInv, NEW u \in Users, ImportFile(u)
    PROVE  CatalogIInv'
<1> DEFINE m == user[u].model
           x == user[u].xml
<1>1. /\ user[u].pc = "saving" /\ Busy(u) /\ m \in Models /\ x \in Xmls /\ m # NoModel
      /\ Serve(u, NoUser) /\ UNCHANGED <<status, instances, overlapping>> /\ Release
    BY CatalogAssumption DEF ImportFile, CatalogIInv, UserOK, UserAt, Busy, Holding
<1>2. /\ file' = file \/ file' = [file EXCEPT ![m] = x]
      /\ definition' = definition \/ definition' = [definition EXCEPT ![x] = m]
      /\ group' \in BOOLEAN
    BY <1>1 DEF ImportFile, CatalogIInv, CatalogTypeOK
<1>3. /\ file' \in [Models -> Xmls \cup {NoXml}] /\ file'[m] \in {file[m], x}
      /\ \A k \in Models \ {m} : file'[k] = file[k]
    BY <1>1, <1>2 DEF CatalogIInv, CatalogTypeOK
<1>4. /\ definition' \in [Xmls -> Models \cup {NoModel}]
      /\ \A z \in Xmls : definition'[z] = definition[z] \/ definition'[z] = m
    BY <1>1, <1>2 DEF CatalogIInv, CatalogTypeOK
<1>5. /\ StepOK(u) /\ user'[u] = NoUser
      /\ \A v \in Users \ {u} : Busy(v) => m \in overlapping'
    BY <1>1, <1>4, NoUserFrame, WentOn
<1>6. \A v \in Users : UserOK(v)' /\ (user'[v].model \notin overlapping' => AloneOK(v)')
    BY <1>1, <1>5, OthersStay, Ended
<1>7. KeepsReleased /\ released' \subseteq Models \X Xmls
    BY <1>1, ReleasedKept, ReleasedTyped DEF CatalogIInv
<1>8. CatalogTypeOK'
    BY <1>1, <1>2, <1>3, <1>4, <1>5, <1>7 DEF CatalogIInv, CatalogTypeOK, StepOK, UserFrames
<1>9. ASSUME NEW k \in Models \ overlapping' PROVE ModelOK(k)'
    <2>1. CASE k = m
        <3>1. ModelOK(m) /\ Exists(m)
            BY <2>1, <1>1 DEF CatalogIInv, AloneOK
        <3>2. \A v \in Users : UserAt(v, "copying") => UserAt(v, "copying")' /\ user'[v].model = user[v].model
            BY <1>1, <1>5 DEF StepOK, UserAt
        <3>3. file'[m] # NoXml /\ status'[m] = "published" => <<m, file'[m]>> \in released'
            <4>1. file'[m] # NoXml => file'[m] \in Xmls
                BY <1>1, <1>3
            <4> QED BY <4>1, <2>1, <1>1 DEF Release
        <3> QED BY <2>1, <3>1, <3>2, <3>3, <1>1 DEF ModelOK, Exists
    <2>2. CASE k # m
        BY <2>2, <1>1, <1>3, <1>5, <1>7, ModelStays DEF UserAt
    <2> QED BY <2>1, <2>2
<1>10. InstancesRunReleasedModels'
    <2>1. \A i \in instances : i.model \in Models
        BY DEF CatalogIInv, CatalogTypeOK, InstanceRows
    <2>2. \A i \in instances : Exists(i.model) => Exists(i.model)'
        BY <1>1, <1>3, <2>1, CatalogAssumption DEF Exists
    <2> QED BY <1>1, <1>5, <1>7, <2>2, InstancesStay DEF StepOK
<1> QED BY <1>5, <1>6, <1>8, <1>9, <1>10 DEF CatalogIInv, StepOK

LEMMA WriteMetadataOK ==
    ASSUME CatalogIInv, NEW u \in Users, WriteMetadata(u)
    PROVE  CatalogIInv'
<1> DEFINE m == user[u].model
<1>1. /\ user[u].pc = "updating" /\ Busy(u) /\ m \in Models /\ user[u].status # "missing"
      /\ group' = TRUE /\ status' = [status EXCEPT ![m] = user[u].status]
      /\ Serve(u, NoUser) /\ UNCHANGED <<file, core, overlapping>> /\ Release
    BY DEF WriteMetadata, CatalogIInv, UserOK, UserAt, Busy
<1>2. /\ status' \in [Models -> PROCESS_MODEL_STATUSES \cup {"missing"}]
      /\ status'[m] = user[u].status
      /\ \A k \in Models \ {m} : status'[k] = status[k]
    BY <1>1 DEF CatalogIInv, CatalogTypeOK
<1>3. StepOK(u) /\ user'[u] = NoUser
    BY <1>1, NoUserFrame, WentOn DEF core
<1>4. \A v \in Users : UserOK(v)' /\ (user'[v].model \notin overlapping' => AloneOK(v)')
    BY <1>1, <1>3, OthersStay, Ended DEF core
<1>5. KeepsReleased /\ released' \subseteq Models \X Xmls
    BY <1>1, ReleasedKept, ReleasedTyped DEF CatalogIInv
<1>6. CatalogTypeOK'
    BY <1>1, <1>2, <1>3, <1>5 DEF CatalogIInv, CatalogTypeOK, StepOK, UserFrames, core
<1>7. ASSUME NEW k \in Models \ overlapping' PROVE ModelOK(k)'
    <2>1. CASE k = m
        <3>1. file'[m] # NoXml => file'[m] \in Xmls
            BY <1>1, <1>6 DEF CatalogTypeOK
        <3>2. file'[m] # NoXml /\ status'[m] = "published" => <<m, file'[m]>> \in released'
            BY <3>1, <2>1, <1>1 DEF Release
        <3> QED BY <2>1, <3>2, <1>1, <1>2 DEF ModelOK, Exists
    <2>2. CASE k # m
        BY <2>2, <1>1, <1>2, <1>3, <1>5, ModelStays DEF UserAt
    <2> QED BY <2>1, <2>2
<1>8. InstancesRunReleasedModels'
    BY <1>1, <1>5, InstancesStay DEF Exists, core
<1> QED BY <1>3, <1>4, <1>6, <1>7, <1>8 DEF CatalogIInv, StepOK

LEMMA ImportForStartOK ==
    ASSUME CatalogIInv, NEW u \in Users, ImportForStart(u)
    PROVE  CatalogIInv'
<1> DEFINE m == user[u].model
           x == user[u].xml
<1>1. /\ user[u].pc = "importing" /\ Busy(u) /\ m \in Models /\ x \in Xmls /\ m # NoModel
      /\ Serve(u, [user[u] EXCEPT !.pc = "ready"]) /\ UNCHANGED <<spec, instances, catalogHistory>>
    BY CatalogAssumption DEF ImportForStart, CatalogIInv, UserOK, UserAt, Busy, Holding
<1>2. /\ definition' \in [Xmls -> Models \cup {NoModel}] /\ definition'[x] = m
      /\ \A z \in Xmls : definition'[z] = definition[z] \/ definition'[z] = m
    BY <1>1 DEF ImportForStart, ImportedAs, CatalogIInv, CatalogTypeOK
<1>3. PICK f \in UserFrames : f = [user[u] EXCEPT !.pc = "ready"]
    BY DEF CatalogIInv, CatalogTypeOK, UserFrames
<1>4. f.pc = "ready" /\ f.model = m /\ f.xml = x
    BY <1>3 DEF CatalogIInv, CatalogTypeOK, UserFrames
<1>5. /\ StepOK(u) /\ user'[u] = f
      /\ \A v \in Users \ {u} : Busy(v) => m \in overlapping'
    BY <1>1, <1>2, <1>3, <1>4, WentOn DEF catalogHistory
<1>6. UserOK(u)' /\ (m \notin overlapping' => AloneOK(u)')
    <2>1. m \notin overlapping => file[m] = x /\ <<m, x>> \in released
        BY <1>1 DEF CatalogIInv, AloneOK
    <2> QED BY <1>1, <1>2, <1>4, <1>5, <2>1 DEF UserOK, AloneOK, Holding, spec, catalogHistory
<1>7. \A v \in Users : UserOK(v)' /\ (user'[v].model \notin overlapping' => AloneOK(v)')
    BY <1>1, <1>4, <1>5, <1>6, OthersStay
<1>8. KeepsReleased /\ released' \subseteq Models \X Xmls
    BY <1>1, ReleasedKept, ReleasedTyped DEF CatalogIInv, catalogHistory
<1>9. CatalogTypeOK'
    BY <1>1, <1>2, <1>5, <1>8 DEF CatalogIInv, CatalogTypeOK, StepOK, UserFrames, spec, catalogHistory
<1>10. \A k \in Models \ overlapping' : ModelOK(k)'
    BY <1>1, <1>5, <1>8, ModelStays DEF UserAt, spec
<1>11. InstancesRunReleasedModels'
    BY <1>1, <1>5, <1>8, InstancesStay DEF Exists, spec, StepOK
<1> QED BY <1>5, <1>7, <1>9, <1>10, <1>11 DEF CatalogIInv, StepOK

LEMMA CreateInstanceOK ==
    ASSUME CatalogIInv, NEW u \in Users, CreateInstance(u)
    PROVE  CatalogIInv'
<1> DEFINE m == user[u].model
           x == user[u].xml
<1>1. /\ user[u].pc = "ready" /\ Busy(u) /\ m \in Models /\ x \in Xmls /\ m # NoModel
      /\ Serve(u, NoUser) /\ UNCHANGED <<spec, definition, catalogHistory>>
    BY CatalogAssumption DEF CreateInstance, CatalogIInv, UserOK, UserAt, Busy, Holding
<1>2. definition[x] \in {m} \cup overlapping
    BY <1>1 DEF CatalogIInv, UserOK
<1>3. definition[x] \in Models
    BY <1>1, <1>2 DEF CatalogIInv, CatalogTypeOK
<1>4. PICK i \in InstanceRows : /\ i.asked = m /\ i.model = definition[x] /\ i.xml = x
                                /\ instances' = instances \cup {i}
    <2>1. PICK i \in InstanceRows : i = [asked |-> m, model |-> definition[x], xml |-> x]
        BY <1>1, <1>3 DEF InstanceRows
    <2>2. i.asked = m /\ i.model = definition[x] /\ i.xml = x
        BY <2>1
    <2> QED BY <2>1, <2>2 DEF CreateInstance
<1>5. /\ StepOK(u) /\ user'[u] = NoUser
      /\ \A v \in Users \ {u} : Busy(v) => m \in overlapping'
    BY <1>1, <1>2, <1>4, NoUserFrame, WentOn DEF catalogHistory
<1>6. \A v \in Users : UserOK(v)' /\ (user'[v].model \notin overlapping' => AloneOK(v)')
    BY <1>1, <1>5, OthersStay, Ended
<1>7. KeepsReleased /\ released' \subseteq Models \X Xmls
    BY <1>1, ReleasedKept, ReleasedTyped DEF CatalogIInv, catalogHistory
<1>8. CatalogTypeOK'
    BY <1>1, <1>4, <1>5, <1>7 DEF CatalogIInv, CatalogTypeOK, StepOK, UserFrames, spec, catalogHistory
<1>9. \A k \in Models \ overlapping' : ModelOK(k)'
    BY <1>1, <1>5, <1>7, ModelStays DEF UserAt, spec
<1>10. InstancesRunReleasedModels'
    <2>1. m \notin overlapping =>
            definition[x] = m /\ file[m] = x /\ <<m, x>> \in released
        BY <1>1 DEF CatalogIInv, AloneOK
    <2>2. /\ m \notin overlapping => i.model = m /\ <<m, x>> \in released
          /\ i.model \notin overlapping => Exists(i.model)
        BY <1>1, <1>2, <1>4, <2>1, CatalogAssumption DEF Exists
    <2> QED BY <1>1, <1>4, <2>2 DEF InstancesRunReleasedModels, CatalogIInv, Exists, spec, catalogHistory
<1> QED BY <1>5, <1>6, <1>8, <1>9, <1>10 DEF CatalogIInv, StepOK

LEMMA CatalogStep == CatalogIInv /\ [CatalogNext]_catalogVars => CatalogIInv'
<1> SUFFICES ASSUME CatalogIInv, [CatalogNext]_catalogVars PROVE CatalogIInv'
    OBVIOUS
<1>1. CASE UNCHANGED catalogVars
    BY <1>1 DEF catalogVars, spec, core, catalogHistory, CatalogIInv, CatalogTypeOK, UsersApart, Busy,
        UserAt, UserOK, AloneOK, ModelOK, Exists, InstancesRunReleasedModels
<1>2. CASE CatalogNext
    <2>1. PICK u \in Users :
            \/ CreateGroup(u) \/ StartDeleteGroup(u) \/ DeleteGroup(u)
            \/ StartCreateModel(u) \/ CopyFiles(u) \/ CreateModel(u)
            \/ CreateModelUncommitted(u) \/ StoreFile(u) \/ ImportFile(u)
            \/ StartUpdate(u) \/ WriteMetadata(u) \/ StartDeleteModel(u) \/ DeleteModel(u)
            \/ StartInstance(u) \/ ReadSpec(u) \/ ResolveDefinition(u) \/ ImportForStart(u)
            \/ CreateInstance(u) \/ DeleteInstance(u) \/ RequestFails(u)
        BY <1>2 DEF CatalogNext
    <2> QED BY <2>1, CreateGroupOK, StartDeleteGroupOK, DeleteGroupOK, StartCreateModelOK, CopyFilesOK,
            NewModelOK, StoreFileOK, ImportFileOK, StartUpdateOK, WriteMetadataOK, StartDeleteModelOK,
            DeleteModelOK, StartInstanceOK, ReadSpecOK, ResolveDefinitionOK, ImportForStartOK,
            CreateInstanceOK, DeleteInstanceOK, RequestFailsOK
<1> QED BY <1>1, <1>2

(***************************************************************************)
(* Process models and Start, for any number of models, contents, requests  *)
(* and instances: an instance runs what was on disk while the model that   *)
(* the user started was published, core records that model, and the model  *)
(* stays, unless a request about it overlapped another                     *)
(* (_require_startable_status, imported_as_this_model,                     *)
(* delete_process_model).                                                  *)
(***************************************************************************)
THEOREM InstancesRunReleased == CatalogSpec => []InstancesRunReleasedModels
<1>1. CatalogIInv => InstancesRunReleasedModels
    BY DEF CatalogIInv
<1> QED BY CatalogStart, CatalogStep, <1>1, PTL DEF CatalogSpec

-----------------------------------------------------------------------------
(***************************************************************************)
(* ModelFiles: what is on disk, what core has imported and what Start      *)
(* runs, for any directories, names, documents and number of calls.        *)
(***************************************************************************)
Documents == DiagramXmls \cup Decisions \cup {NoFile}
Metadata == [primary : Names \cup {NoFile}, status : {"missing", "draft", "published", "paused"}]
HasDiagram(files) == \E f \in Names : f[2] = "bpmn" /\ files[f] # NoFile

(***************************************************************************)
(* A directory is in order: with a diagram, the file marked as primary is  *)
(* there, and what was saved without a file name is what Start would read. *)
(***************************************************************************)
InOrder(d, files, m, last) ==
    /\ HasDiagram(files) /\ m.primary # NoFile => files[m.primary] # NoFile
    /\ last # NoFile => files[IF m.primary # NoFile THEN m.primary ELSE LeafFile(d)] = last

RunsAsCalled == \A i \in running : i.xml.calling \in i.had => i.dmn = i.xml.calling

FilesIInv ==
    /\ FilesTypeOK
    /\ \A d \in present : InOrder(d, content[d], meta[d], saved[d])
    /\ RunsAsCalled
    /\ InstancesKeepTheirModel

(***************************************************************************)
(* The first of some names is one of them.                                 *)
(***************************************************************************)
LEMMA FirstIsOne == ASSUME NEW fs \in SUBSET Names, fs # {} PROVE First(fs) \in fs
<1> DEFINE T == {i \in DOMAIN FileNames : FileNames[i] \in fs}
<1>1. T \in SUBSET Nat /\ T # {}
    BY DocumentsAssumption DEF Names
<1>2. PICK m \in T : \A n \in T : m <= n
    BY <1>1, LeastNumber
<1>3. \A j \in 1..(m - 1) : FileNames[j] \notin fs
    BY <1>2, DocumentsAssumption
<1> QED BY <1>2, <1>3 DEF First

LEMMA ModelExists ==
    ASSUME NEW d PROVE model_exists(d) <=> d \in present /\ HasDiagram(content[d])
BY DEF model_exists, Diagrams, HasFile, HasDiagram

LEMMA DiagramsArePlaces == ASSUME NEW d PROVE Diagrams(d) \in SUBSET Names
BY DEF Diagrams

LEMMA LeafIsName == ASSUME NEW d \in Folders PROVE LeafFile(d) \in Names
BY FilesAssumption

LEMMA WhatIsWritten ==
    /\ \A d \in Folders : Default(d) \in DiagramXmls
    /\ Edited \subseteq DiagramXmls
    /\ \A f \in Names : ContentsOf(f) \subseteq DiagramXmls \cup Decisions
    /\ DiagramXmls \cup Decisions \subseteq Documents
    /\ NoFiles \in [Names -> Documents] /\ ~HasDiagram(NoFiles)
    /\ NoMeta \in Metadata /\ NoMeta.primary = NoFile
BY DEF DiagramXmls, ContentsOf, Documents, NoFiles, HasDiagram, NoMeta, Metadata

LEMMA EmptyInOrder ==
    ASSUME NEW d, NEW m PROVE InOrder(d, NoFiles, m, NoFile)
BY WhatIsWritten DEF InOrder

(***************************************************************************)
(* What a step leaves to be shown of directories and instances             *)
(***************************************************************************)
LEMMA FilesKept ==
    ASSUME FilesIInv,
           calls' \in 0..MaxCalls, present' \in SUBSET Folders, orphaned' \in SUBSET Folders,
           orphaned \subseteq orphaned',
           content' \in [present' -> [Names -> Documents]], meta' \in [present' -> Metadata],
           saved' \in [present' -> DiagramXmls \cup {NoFile}],
           \A d \in present' : InOrder(d, content'[d], meta'[d], saved'[d]),
           DOMAIN imported' \subseteq DiagramXmls,
           \A x \in DOMAIN imported' : imported'[x] \in [model : Folders, dmn : Decisions \cup {NoDecision}],
           running' \subseteq running,
           \A i \in running' : model_exists(i.model)
                => \/ i.model \in present' /\ HasDiagram(content'[i.model])
                   \/ i.model \in orphaned'
    PROVE  FilesIInv'
<1>1. FilesTypeOK'
    BY DEF FilesIInv, FilesTypeOK, Documents, Metadata
<1>2. RunsAsCalled'
    BY DEF FilesIInv, RunsAsCalled
<1>3. InstancesKeepTheirModel'
    <2> SUFFICES ASSUME NEW i \in running' PROVE model_exists(i.model)' \/ i.model \in orphaned'
        BY DEF InstancesKeepTheirModel
    <2>1. model_exists(i.model) \/ i.model \in orphaned
        BY DEF FilesIInv, InstancesKeepTheirModel
    <2>2. i.model \in present' /\ HasDiagram(content'[i.model]) => model_exists(i.model)'
        BY DEF model_exists, Diagrams, HasFile, HasDiagram
    <2> QED BY <2>1, <2>2
<1> QED BY <1>1, <1>2, <1>3 DEF FilesIInv

LEMMA PathIsFolders == ASSUME NEW d \in Folders PROVE d \in Upto(d) /\ Upto(d) \subseteq Folders
BY DEF Upto

(***************************************************************************)
(* What holds before a step                                                *)
(***************************************************************************)
LEMMA FilesNow ==
    ASSUME FilesIInv
    PROVE  /\ present \in SUBSET Folders /\ orphaned \in SUBSET Folders
           /\ content \in [present -> [Names -> Documents]] /\ meta \in [present -> Metadata]
           /\ saved \in [present -> DiagramXmls \cup {NoFile}]
           /\ \A d \in present : InOrder(d, content[d], meta[d], saved[d])
           /\ DOMAIN imported \subseteq DiagramXmls
           /\ \A x \in DOMAIN imported :
                imported[x] \in [model : Folders, dmn : Decisions \cup {NoDecision}]
           /\ \A i \in running : i.model \in Folders /\ i.xml \in DiagramXmls
BY DEF FilesIInv, FilesTypeOK, Documents, Metadata

LEMMA CallCounts == ASSUME FilesIInv, Call PROVE calls' \in 0..MaxCalls
BY FilesAssumption DEF FilesIInv, FilesTypeOK, Call

LEMMA ImportTyped ==
    ASSUME FilesIInv, NEW d \in Folders, NEW xml \in DiagramXmls,
           NEW dmn \in Decisions \cup {NoDecision},
           imported' \in {imported, ImportDefinition(d, xml, dmn)}
    PROVE  /\ DOMAIN imported' \subseteq DiagramXmls
           /\ \A x \in DOMAIN imported' :
                imported'[x] \in [model : Folders, dmn : Decisions \cup {NoDecision}]
BY FilesNow DEF ImportDefinition, Single, ++

LEMMA GroupMade ==
    ASSUME FilesIInv, NEW d \in Folders, create_process_group(d) PROVE FilesIInv'
<1> USE DEF create_process_group
<1>1. /\ present' \in SUBSET Folders
      /\ content' \in [present' -> [Names -> Documents]] /\ meta' \in [present' -> Metadata]
      /\ saved' \in [present' -> DiagramXmls \cup {NoFile}]
      /\ \A e \in present : content'[e] = content[e] /\ meta'[e] = meta[e] /\ saved'[e] = saved[e]
      /\ \A e \in present' \ present : content'[e] = NoFiles /\ saved'[e] = NoFile
    <2>1. /\ present' = present \cup Upto(d) /\ present' \in SUBSET Folders
          /\ content' = WithPath(content, d, NoFiles)
          /\ meta' = WithPath(meta, d, NoMeta) /\ saved' = WithPath(saved, d, NoFile)
        BY FilesNow, PathIsFolders
    <2> USE FilesNow, WhatIsWritten
    <2>2. /\ content' \in [present' -> [Names -> Documents]]
          /\ \A e \in present : content'[e] = content[e]
          /\ \A e \in Upto(d) \ present : content'[e] = NoFiles
        <3> DEFINE S == [Names -> Documents]
        <3>1. content \in [present -> S] /\ NoFiles \in S
            OBVIOUS
        <3> HIDE DEF S
        <3>2. /\ WithPath(content, d, NoFiles) \in [present \cup Upto(d) -> S]
              /\ \A e \in present : WithPath(content, d, NoFiles)[e] = content[e]
              /\ \A e \in Upto(d) \ present : WithPath(content, d, NoFiles)[e] = NoFiles
            BY ONLY <3>1 DEF WithPath, ++
        <3> QED BY <2>1, <3>2 DEF S
    <2>3. /\ meta' \in [present' -> Metadata]
          /\ \A e \in present : meta'[e] = meta[e]
        <3>1. meta \in [present -> Metadata] /\ NoMeta \in Metadata
            OBVIOUS
        <3>2. /\ WithPath(meta, d, NoMeta) \in [present \cup Upto(d) -> Metadata]
              /\ \A e \in present : WithPath(meta, d, NoMeta)[e] = meta[e]
            BY ONLY <3>1 DEF WithPath, ++
        <3> QED BY <2>1, <3>2
    <2>4. /\ saved' \in [present' -> DiagramXmls \cup {NoFile}]
          /\ \A e \in present : saved'[e] = saved[e]
          /\ \A e \in Upto(d) \ present : saved'[e] = NoFile
        <3> DEFINE S == DiagramXmls \cup {NoFile}
        <3>1. saved \in [present -> S] /\ NoFile \in S
            OBVIOUS
        <3> HIDE DEF S
        <3>2. /\ WithPath(saved, d, NoFile) \in [present \cup Upto(d) -> S]
              /\ \A e \in present : WithPath(saved, d, NoFile)[e] = saved[e]
              /\ \A e \in Upto(d) \ present : WithPath(saved, d, NoFile)[e] = NoFile
            BY ONLY <3>1 DEF WithPath, ++
        <3> QED BY <2>1, <3>2 DEF S
    <2> QED BY <2>1, <2>2, <2>3, <2>4
<1>2. \A e \in present' : InOrder(e, content'[e], meta'[e], saved'[e])
    BY <1>1, FilesNow, EmptyInOrder
<1>3. \A i \in running' : model_exists(i.model)
                => i.model \in present' /\ HasDiagram(content'[i.model])
    BY <1>1, ModelExists
<1> QED BY <1>1, <1>2, <1>3, FilesKept, CallCounts, FilesNow

LEMMA RemoveLeaves ==
    ASSUME FilesIInv, NEW d \in Folders, Remove(d)
    PROVE  /\ present' = present \ Under(d)
           /\ present' \in SUBSET Folders
           /\ content' \in [present' -> [Names -> Documents]] /\ meta' \in [present' -> Metadata]
           /\ saved' \in [present' -> DiagramXmls \cup {NoFile}]
           /\ \A e \in present' : content'[e] = content[e]
           /\ \A e \in present' : InOrder(e, content'[e], meta'[e], saved'[e])
<1>1. /\ present' = present \ Under(d) /\ present' \in SUBSET present
      /\ content' = [e \in present' |-> content[e]]
      /\ meta' = [e \in present' |-> meta[e]]
      /\ saved' = [e \in present' |-> saved[e]]
    BY DEF Remove
<1>2. \A e \in present' :
            content'[e] = content[e] /\ meta'[e] = meta[e] /\ saved'[e] = saved[e]
    BY <1>1
<1>3. \A e \in present' : InOrder(e, content'[e], meta'[e], saved'[e])
    BY <1>1, <1>2, FilesNow
<1>4. /\ content' \in [present' -> [Names -> Documents]] /\ meta' \in [present' -> Metadata]
      /\ saved' \in [present' -> DiagramXmls \cup {NoFile}]
    BY <1>1, <1>2, FilesNow
<1> QED BY <1>1, <1>2, <1>3, <1>4, FilesNow

LEMMA GroupDeleted ==
    ASSUME FilesIInv, NEW d \in Folders, delete_process_group(d) PROVE FilesIInv'
<1> USE DEF delete_process_group
<1>1. \A i \in running' : model_exists(i.model)
                => i.model \in present' /\ HasDiagram(content'[i.model])
    BY RemoveLeaves, ModelExists DEF count_instances_for_process_group
<1> QED BY <1>1, RemoveLeaves, FilesKept, CallCounts, FilesNow

LEMMA ModelDeleted ==
    ASSUME FilesIInv, NEW d \in Folders, delete_process_model(d) PROVE FilesIInv'
<1> USE DEF delete_process_model
<1>1. \A i \in running' : model_exists(i.model)
                => \/ i.model \in present' /\ HasDiagram(content'[i.model])
                   \/ i.model \in orphaned'
    BY RemoveLeaves, ModelExists
<1>2. orphaned' \in SUBSET Folders
    BY FilesNow DEF Under
<1> QED BY <1>1, <1>2, RemoveLeaves, FilesKept, CallCounts, FilesNow


(***************************************************************************)
(* A directory that is made leaves the others as they are.                 *)
(***************************************************************************)
LEMMA OneMade ==
    ASSUME FilesIInv, NEW d \in Folders, d \notin present, present' = present \cup {d},
           NEW c \in [Names -> Documents], NEW m \in Metadata, InOrder(d, c, m, NoFile),
           content' = Single(d, c) ++ content, meta' = Single(d, m) ++ meta,
           saved' = Single(d, NoFile) ++ saved
    PROVE  /\ present' \in SUBSET Folders
           /\ content' \in [present' -> [Names -> Documents]] /\ meta' \in [present' -> Metadata]
           /\ saved' \in [present' -> DiagramXmls \cup {NoFile}]
           /\ \A e \in present : content'[e] = content[e]
           /\ \A e \in present' : InOrder(e, content'[e], meta'[e], saved'[e])
<1> USE FilesNow
<1>1. /\ content' \in [present' -> [Names -> Documents]]
      /\ content'[d] = c /\ \A e \in present : content'[e] = content[e]
    <2> DEFINE S == [Names -> Documents]
    <2>1. content \in [present -> S] /\ c \in S
        OBVIOUS
    <2> HIDE DEF S
    <2>2. content' \in [present' -> S]
        BY <2>1 DEF Single, ++
    <2> QED BY <2>1, <2>2 DEF S, Single, ++
<1>2. /\ meta' \in [present' -> Metadata]
      /\ meta'[d] = m /\ \A e \in present : meta'[e] = meta[e]
    BY DEF Single, ++
<1>3. /\ saved' \in [present' -> DiagramXmls \cup {NoFile}]
      /\ saved'[d] = NoFile /\ \A e \in present : saved'[e] = saved[e]
    BY DEF Single, ++
<1> QED BY <1>1, <1>2, <1>3

LEMMA ModelMade ==
    ASSUME FilesIInv, NEW d \in Folders, create_process_model(d) PROVE FilesIInv'
<1> USE DEF create_process_model
<1> DEFINE m == [primary |-> LeafFile(d), status |-> "draft"]
           leaf == [NoFiles EXCEPT ![LeafFile(d)] = Default(d)]
<1>1. m \in Metadata /\ m.primary = LeafFile(d)
    BY LeafIsName DEF Metadata
<1>2. leaf \in [Names -> Documents] /\ leaf[LeafFile(d)] # NoFile
    BY LeafIsName, WhatIsWritten, DocumentsAssumption DEF NoFiles
<1> HIDE DEF m, leaf
<1>3. PICK c \in {leaf, NoFiles} : content' = Single(d, c) ++ content
    BY DEF leaf
<1>4. c \in [Names -> Documents] /\ InOrder(d, c, m, NoFile)
    BY <1>1, <1>2, EmptyInOrder, WhatIsWritten DEF InOrder
<1>5. /\ present' \in SUBSET Folders
      /\ content' \in [present' -> [Names -> Documents]] /\ meta' \in [present' -> Metadata]
      /\ saved' \in [present' -> DiagramXmls \cup {NoFile}]
      /\ \A e \in present : content'[e] = content[e]
      /\ \A e \in present' : InOrder(e, content'[e], meta'[e], saved'[e])
    BY <1>1, <1>3, <1>4, OneMade DEF m
<1>6. imported' \in {imported, ImportDefinition(d, Default(d), NoDecision)}
    BY DEF Imported
<1>7. /\ DOMAIN imported' \subseteq DiagramXmls
      /\ \A x \in DOMAIN imported' :
            imported'[x] \in [model : Folders, dmn : Decisions \cup {NoDecision}]
    BY <1>6, ImportTyped, WhatIsWritten
<1>8. \A i \in running' : model_exists(i.model)
                => i.model \in present' /\ HasDiagram(content'[i.model])
    BY <1>5, ModelExists
<1> QED BY <1>5, <1>7, <1>8, FilesKept, CallCounts, FilesNow

LEMMA ModelCopied ==
    ASSUME FilesIInv, NEW s \in Folders, NEW d \in Folders, copy_process_model(s, d)
    PROVE  FilesIInv'
<1> DEFINE primary == IF meta[s].primary # NoFile /\ HasFile(s, meta[s].primary)
                      THEN meta[s].primary ELSE First(Diagrams(s))
           diagram == IF primary[2] = "bpmn" THEN primary ELSE First(Diagrams(s))
           xml == content[s][diagram]
           dmn == model_dmn_xml(content[s], xml)
           m == [primary |-> primary, status |-> "draft"]
<1>1. /\ Call /\ model_exists(s) /\ d \notin present /\ Accepted(xml, dmn)
      /\ present' = present \cup {d}
      /\ content' = Single(d, content[s]) ++ content
      /\ meta' = Single(d, m) ++ meta
      /\ saved' = Single(d, NoFile) ++ saved
      /\ Imported(d, xml, dmn)
      /\ UNCHANGED <<running, orphaned>>
    BY DEF copy_process_model
<1>2. s \in present /\ First(Diagrams(s)) \in Diagrams(s)
    BY <1>1, FirstIsOne, DiagramsArePlaces, ModelExists DEF model_exists
<1>3. primary \in Names /\ content[s][primary] # NoFile
    BY <1>2, FilesNow DEF Diagrams, HasFile, Metadata
<1>4. m \in Metadata /\ m.primary = primary
    BY <1>3 DEF Metadata
<1>5. xml \in DiagramXmls /\ dmn \in Decisions \cup {NoDecision}
    BY <1>1 DEF Accepted
<1> HIDE DEF primary, diagram, xml, dmn, m
<1>6. content[s] \in [Names -> Documents] /\ InOrder(d, content[s], m, NoFile)
    BY <1>2, <1>3, <1>4, FilesNow DEF InOrder
<1>7. /\ present' \in SUBSET Folders
      /\ content' \in [present' -> [Names -> Documents]] /\ meta' \in [present' -> Metadata]
      /\ saved' \in [present' -> DiagramXmls \cup {NoFile}]
      /\ \A e \in present : content'[e] = content[e]
      /\ \A e \in present' : InOrder(e, content'[e], meta'[e], saved'[e])
    BY <1>1, <1>4, <1>6, OneMade
<1>8. /\ DOMAIN imported' \subseteq DiagramXmls
      /\ \A x \in DOMAIN imported' :
            imported'[x] \in [model : Folders, dmn : Decisions \cup {NoDecision}]
    BY <1>1, <1>5, ImportTyped DEF Imported
<1>9. \A i \in running' : model_exists(i.model)
                => i.model \in present' /\ HasDiagram(content'[i.model])
    BY <1>1, <1>7, ModelExists
<1> QED BY <1>1, <1>7, <1>8, <1>9, FilesKept, CallCounts, FilesNow


(***************************************************************************)
(* A file is written into a directory with a diagram, or deleted from it.  *)
(***************************************************************************)
LEMMA OneWritten ==
    ASSUME FilesIInv, NEW d \in Folders, model_exists(d), NEW f \in Names,
           NEW c \in Documents, c # NoFile \/ meta[d].primary # f,
           content' = [content EXCEPT ![d][f] = c], saved' = [saved EXCEPT ![d] = NoFile],
           UNCHANGED <<present, meta>>
    PROVE  /\ present' \in SUBSET Folders
           /\ content' \in [present' -> [Names -> Documents]] /\ meta' \in [present' -> Metadata]
           /\ saved' \in [present' -> DiagramXmls \cup {NoFile}]
           /\ content'[d] = [content[d] EXCEPT ![f] = c]
           /\ \A e \in present \ {d} : content'[e] = content[e]
           /\ \A e \in present' : InOrder(e, content'[e], meta'[e], saved'[e])
<1> USE FilesNow
<1>1. d \in present /\ HasDiagram(content[d])
    BY ModelExists
<1>2. /\ content' \in [present' -> [Names -> Documents]]
      /\ content'[d] = [content[d] EXCEPT ![f] = c]
      /\ \A e \in present \ {d} : content'[e] = content[e]
    <2>1. content[d] \in [Names -> Documents]
        BY <1>1
    <2> DEFINE S == [Names -> Documents]
               g == [content[d] EXCEPT ![f] = c]
    <2>2. g \in S /\ content \in [present -> S]
        BY <2>1
    <2>3. content' = [content EXCEPT ![d] = g]
        BY <1>1
    <2> HIDE DEF S, g
    <2>4. /\ content' \in [present' -> S] /\ content'[d] = g
          /\ \A e \in present \ {d} : content'[e] = content[e]
        BY <1>1, <2>2, <2>3
    <2> QED BY <2>4 DEF S, g
<1>3. /\ saved' \in [present' -> DiagramXmls \cup {NoFile}]
      /\ saved'[d] = NoFile /\ \A e \in present \ {d} : saved'[e] = saved[e]
    BY <1>1
<1>4. InOrder(d, content'[d], meta'[d], saved'[d])
    <2>1. InOrder(d, content[d], meta[d], saved[d])
        BY <1>1
    <2>2. meta[d].primary # NoFile => content[d][meta[d].primary] # NoFile
        BY <1>1, <2>1 DEF InOrder
    <2>3. content[d] \in [Names -> Documents]
        BY <1>1
    <2>4. meta[d].primary # NoFile => content'[d][meta[d].primary] # NoFile
        BY <1>2, <2>2, <2>3
    <2> QED BY <1>3, <2>4 DEF InOrder
<1> QED BY <1>2, <1>3, <1>4

(***************************************************************************)
(* What is written over a diagram is there.                                *)
(***************************************************************************)
LEMMA WrittenShows ==
    ASSUME FilesIInv, NEW d \in present, NEW f \in Names, NEW c, c # NoFile,
           HasDiagram(content[d])
    PROVE  HasDiagram([content[d] EXCEPT ![f] = c])
<1>1. content[d] \in [Names -> Documents]
    BY FilesNow
<1> QED BY <1>1 DEF HasDiagram

LEMMA FileUpdated ==
    ASSUME FilesIInv, NEW d \in Folders, NEW f \in Names, NEW c \in ContentsOf(f),
           update_file(d, f, c) \/ create_model_file(d, f, c)
    PROVE  FilesIInv'
<1>1. c \in Documents /\ c # NoFile
    BY WhatIsWritten, DocumentsAssumption
<1>2. /\ Call /\ model_exists(d) /\ content' = [content EXCEPT ![d][f] = c]
      /\ saved' = [saved EXCEPT ![d] = NoFile]
      /\ UNCHANGED <<present, meta, running, orphaned>>
    BY DEF update_file, create_model_file, Write, Touched
<1>3. /\ present' \in SUBSET Folders
      /\ content' \in [present' -> [Names -> Documents]] /\ meta' \in [present' -> Metadata]
      /\ saved' \in [present' -> DiagramXmls \cup {NoFile}]
      /\ content'[d] = [content[d] EXCEPT ![f] = c]
      /\ \A e \in present \ {d} : content'[e] = content[e]
      /\ \A e \in present' : InOrder(e, content'[e], meta'[e], saved'[e])
    BY <1>1, <1>2, OneWritten
<1>4. PICK files : ImportAfter(d, f, files)
    BY DEF update_file, create_model_file
<1>5. /\ DOMAIN imported' \subseteq DiagramXmls
      /\ \A x \in DOMAIN imported' :
            imported'[x] \in [model : Folders, dmn : Decisions \cup {NoDecision}]
    <2> DEFINE xml == files[IF f[2] = "bpmn" THEN f ELSE _model_file_path(d)]
               dmn == model_dmn_xml(files, xml)
    <2>1. \/ UNCHANGED imported
          \/ Accepted(xml, dmn) /\ imported' \in {imported, ImportDefinition(d, xml, dmn)}
        BY <1>4 DEF ImportAfter, Imported
    <2> HIDE DEF xml, dmn
    <2>2. CASE UNCHANGED imported
        BY <2>2, FilesNow
    <2>3. CASE Accepted(xml, dmn) /\ imported' \in {imported, ImportDefinition(d, xml, dmn)}
        BY <2>3, ImportTyped DEF Accepted
    <2> QED BY <2>1, <2>2, <2>3
<1>6. \A i \in running' : model_exists(i.model)
                => i.model \in present' /\ HasDiagram(content'[i.model])
    BY <1>1, <1>2, <1>3, ModelExists, WrittenShows
<1> QED BY <1>2, <1>3, <1>5, <1>6, FilesKept, CallCounts, FilesNow

LEMMA FileDeleted ==
    ASSUME FilesIInv, NEW d \in Folders, NEW f \in Names, delete_model_file(d, f)
    PROVE  FilesIInv'
<1> USE DEF delete_model_file, Deletable, Write, Touched
<1>1. /\ present' \in SUBSET Folders
      /\ content' \in [present' -> [Names -> Documents]] /\ meta' \in [present' -> Metadata]
      /\ saved' \in [present' -> DiagramXmls \cup {NoFile}]
      /\ content'[d] = [content[d] EXCEPT ![f] = NoFile]
      /\ \A e \in present \ {d} : content'[e] = content[e]
      /\ \A e \in present' : InOrder(e, content'[e], meta'[e], saved'[e])
    BY OneWritten DEF Documents
<1>2. d \in present /\ content[d] \in [Names -> Documents]
    BY ModelExists, FilesNow
<1>3. d \in orphaned' \/ HasDiagram(content'[d])
    <2>1. CASE Diagrams(d) = {f}
        BY <2>1
    <2>2. CASE Diagrams(d) # {f}
        <3>1. PICK g \in Diagrams(d) : g # f
            BY <2>2 DEF model_exists
        <3> QED BY <1>1, <1>2, <3>1 DEF Diagrams, HasFile, HasDiagram
    <2> QED BY <2>1, <2>2
<1>4. \A i \in running' : model_exists(i.model)
                => \/ i.model \in present' /\ HasDiagram(content'[i.model])
                   \/ i.model \in orphaned'
    BY <1>1, <1>2, <1>3, ModelExists
<1>5. orphaned' \in SUBSET Folders /\ orphaned \subseteq orphaned'
    BY FilesNow
<1> QED BY <1>1, <1>4, <1>5, FilesKept, CallCounts, FilesNow

LEMMA TestStored ==
    ASSUME FilesIInv, NEW d \in Folders, create_script_unit_test(d) PROVE FilesIInv'
<1> DEFINE f == TestFile(d)
           xml == [content[d][f] EXCEPT !.tests = TRUE]
           dmn == model_dmn_xml(content[d], xml)
<1>1. /\ Call /\ model_exists(d) /\ Accepted(xml, dmn)
      /\ content' = [content EXCEPT ![d][f] = xml]
      /\ saved' = [saved EXCEPT ![d] = NoFile]
      /\ Imported(d, xml, dmn)
      /\ UNCHANGED <<present, meta, running, orphaned>>
    BY DEF create_script_unit_test, Write, Touched
<1>2. f \in Names
    BY <1>1, FirstIsOne, DiagramsArePlaces DEF TestFile, model_exists
<1>3. xml \in DiagramXmls /\ xml \in Documents /\ xml # NoFile /\ dmn \in Decisions \cup {NoDecision}
    BY <1>1, DocumentsAssumption, WhatIsWritten DEF Accepted
<1> HIDE DEF f, xml, dmn
<1>4. /\ present' \in SUBSET Folders
      /\ content' \in [present' -> [Names -> Documents]] /\ meta' \in [present' -> Metadata]
      /\ saved' \in [present' -> DiagramXmls \cup {NoFile}]
      /\ content'[d] = [content[d] EXCEPT ![f] = xml]
      /\ \A e \in present \ {d} : content'[e] = content[e]
      /\ \A e \in present' : InOrder(e, content'[e], meta'[e], saved'[e])
    BY <1>1, <1>2, <1>3, OneWritten
<1>5. /\ DOMAIN imported' \subseteq DiagramXmls
      /\ \A x \in DOMAIN imported' :
            imported'[x] \in [model : Folders, dmn : Decisions \cup {NoDecision}]
    BY <1>1, <1>3, ImportTyped DEF Imported
<1>6. \A i \in running' : model_exists(i.model)
                => i.model \in present' /\ HasDiagram(content'[i.model])
    BY <1>1, <1>2, <1>3, <1>4, ModelExists, WrittenShows
<1> QED BY <1>1, <1>4, <1>5, <1>6, FilesKept, CallCounts, FilesNow

LEMMA FileMarked ==
    ASSUME FilesIInv, NEW d \in Folders,
           \/ \E f \in Names : MarkPrimary(d, f)
           \/ \E t \in {"draft", "published", "paused"} : MarkStatus(d, t)
    PROVE  FilesIInv'
<1>1. PICK m \in Metadata :
        /\ meta' = [meta EXCEPT ![d] = m] /\ model_exists(d)
        /\ \/ m.primary = meta[d].primary /\ UNCHANGED saved
           \/ content[d][m.primary] # NoFile /\ saved' = [saved EXCEPT ![d] = NoFile]
    <2>1. d \in present /\ meta[d] \in Metadata
        BY ModelExists, FilesNow DEF MarkPrimary, MarkStatus
    <2>2. ASSUME NEW f \in Names, MarkPrimary(d, f)
          PROVE  \E m \in Metadata : /\ meta' = [meta EXCEPT ![d] = m] /\ model_exists(d)
                                     /\ content[d][m.primary] # NoFile
                                     /\ saved' = [saved EXCEPT ![d] = NoFile]
        <3> DEFINE m == [primary |-> f, status |-> process_model_status(d)]
        <3>1. m \in Metadata
            BY <2>1 DEF Metadata, process_model_status
        <3>2. /\ meta' = [meta EXCEPT ![d] = m] /\ model_exists(d)
              /\ content[d][m.primary] # NoFile
              /\ saved' = [saved EXCEPT ![d] = NoFile]
            BY <2>2 DEF MarkPrimary, HasFile, Touched
        <3> HIDE DEF m
        <3> QED BY <3>1, <3>2
    <2>3. ASSUME NEW t \in {"draft", "published", "paused"}, MarkStatus(d, t)
          PROVE  \E m \in Metadata : /\ meta' = [meta EXCEPT ![d] = m] /\ model_exists(d)
                                     /\ m.primary = meta[d].primary /\ UNCHANGED saved
        <3> DEFINE m == [meta[d] EXCEPT !.status = t]
        <3>1. m \in Metadata /\ m.primary = meta[d].primary
            BY <2>1 DEF Metadata
        <3>2. meta' = [meta EXCEPT ![d] = m] /\ model_exists(d) /\ UNCHANGED saved
            BY <2>1, <2>3 DEF MarkStatus
        <3> HIDE DEF m
        <3> QED BY <3>1, <3>2
    <2> QED BY <2>2, <2>3
<1>2. Call /\ UNCHANGED <<present, content, imported, running, orphaned>>
    BY DEF MarkPrimary, MarkStatus
<1>3. d \in present
    BY <1>1, ModelExists
<1>4. /\ meta' \in [present -> Metadata]
      /\ meta'[d] = m /\ \A e \in present \ {d} : meta'[e] = meta[e]
      /\ saved' \in [present -> DiagramXmls \cup {NoFile}]
      /\ saved'[d] \in {saved[d], NoFile} /\ \A e \in present \ {d} : saved'[e] = saved[e]
    BY <1>1, <1>3, FilesNow
<1>5. InOrder(d, content[d], m, saved'[d])
    <2>1. InOrder(d, content[d], meta[d], saved[d])
        BY <1>3, FilesNow
    <2>2. CASE m.primary = meta[d].primary /\ UNCHANGED saved
        BY <2>1, <2>2 DEF InOrder
    <2>3. CASE content[d][m.primary] # NoFile /\ saved' = [saved EXCEPT ![d] = NoFile]
        <3>1. saved'[d] = NoFile
            BY <1>3, <2>3, FilesNow
        <3> QED BY <2>3, <3>1 DEF InOrder
    <2> QED BY <1>1, <2>2, <2>3
<1>6. \A e \in present' : InOrder(e, content'[e], meta'[e], saved'[e])
    BY <1>2, <1>4, <1>5, FilesNow
<1>7. \A i \in running' : model_exists(i.model)
                => i.model \in present' /\ HasDiagram(content'[i.model])
    BY <1>2, ModelExists
<1> QED BY <1>2, <1>4, <1>6, <1>7, FilesKept, CallCounts, FilesNow


(***************************************************************************)
(* save: the path may be new, or one without a diagram whose metadata      *)
(* marks a primary file.                                                   *)
(***************************************************************************)
LEMMA DiagramSaved ==
    ASSUME FilesIInv, NEW d \in Folders, NEW xml \in Edited, save(d, xml) PROVE FilesIInv'
<1> USE FilesNow
<1> DEFINE files == WithPath(content, d, NoFiles)
           f == _model_file_path(d)
           dmn == model_dmn_xml(files[d], xml)
<1>1. /\ Call /\ Accepted(xml, dmn)
      /\ present' = present \cup Upto(d)
      /\ content' = [files EXCEPT ![d][f] = xml]
      /\ meta' = WithPath(meta, d, NoMeta)
      /\ saved' = Single(d, xml) ++ WithPath(saved, d, NoFile)
      /\ Imported(d, xml, dmn)
      /\ UNCHANGED <<running, orphaned>>
    BY DEF save
<1>2. d \in present' /\ present' \in SUBSET Folders
    BY <1>1, PathIsFolders
<1>3. /\ files \in [present' -> [Names -> Documents]]
      /\ \A e \in present : files[e] = content[e]
      /\ \A e \in present' \ present : files[e] = NoFiles
    <2> DEFINE S == [Names -> Documents]
    <2>1. content \in [present -> S] /\ NoFiles \in S
        BY WhatIsWritten
    <2> HIDE DEF S
    <2>2. /\ files \in [present' -> S]
          /\ \A e \in present : files[e] = content[e]
          /\ \A e \in present' \ present : files[e] = NoFiles
        BY <1>1, <2>1 DEF WithPath, ++
    <2> QED BY <2>2 DEF S
<1>4. /\ meta' \in [present' -> Metadata]
      /\ \A e \in present : meta'[e] = meta[e]
      /\ \A e \in present' \ present : meta'[e] = NoMeta
    <2>1. meta \in [present -> Metadata] /\ NoMeta \in Metadata
        BY WhatIsWritten
    <2> QED BY <1>1, <2>1 DEF WithPath, ++
<1>5. /\ saved' \in [present' -> DiagramXmls \cup {NoFile}]
      /\ saved'[d] = xml
      /\ \A e \in present \ {d} : saved'[e] = saved[e]
      /\ \A e \in present' \ (present \cup {d}) : saved'[e] = NoFile
    <2> DEFINE S == DiagramXmls \cup {NoFile}
    <2>1. saved \in [present -> S] /\ NoFile \in S /\ xml \in S
        BY WhatIsWritten
    <2> HIDE DEF S
    <2>2. /\ saved' \in [present' -> S]
          /\ saved'[d] = xml
          /\ \A e \in present \ {d} : saved'[e] = saved[e]
          /\ \A e \in present' \ (present \cup {d}) : saved'[e] = NoFile
        BY <1>1, <1>2, <2>1 DEF WithPath, ++, Single
    <2> QED BY <2>2 DEF S
<1>6. f \in Names /\ f = IF meta'[d].primary # NoFile THEN meta'[d].primary ELSE LeafFile(d)
    <2>1. CASE d \in present
        BY <1>4, <2>1, LeafIsName DEF _model_file_path, Metadata
    <2>2. CASE d \notin present
        BY <1>2, <1>4, <2>2, LeafIsName, WhatIsWritten DEF _model_file_path
    <2> QED BY <2>1, <2>2
<1>7. xml \in DiagramXmls /\ xml # NoFile /\ dmn \in Decisions \cup {NoDecision}
    BY <1>1, DocumentsAssumption DEF Accepted
<1> HIDE DEF files, f, dmn
<1> DEFINE g == [files[d] EXCEPT ![f] = xml]
<1>8. files[d] \in [Names -> Documents] /\ content' = [files EXCEPT ![d] = g]
    BY <1>1, <1>2, <1>3
<1>9. g \in [Names -> Documents] /\ g[f] = xml /\ (HasDiagram(files[d]) => HasDiagram(g))
    BY <1>6, <1>7, <1>8, WhatIsWritten DEF HasDiagram
<1> HIDE DEF g
<1>10. /\ content' \in [present' -> [Names -> Documents]]
       /\ content'[d] = g /\ \A e \in present' \ {d} : content'[e] = files[e]
    <2> DEFINE S == [Names -> Documents]
    <2>1. files \in [present' -> S] /\ g \in S
        BY <1>3, <1>9
    <2> HIDE DEF S
    <2>2. /\ content' \in [present' -> S]
          /\ content'[d] = g /\ \A e \in present' \ {d} : content'[e] = files[e]
        BY <1>2, <1>8, <2>1
    <2> QED BY <2>2 DEF S
<1>11. \A e \in present' : InOrder(e, content'[e], meta'[e], saved'[e])
    <2>1. InOrder(d, g, meta'[d], xml)
        BY <1>6, <1>7, <1>9 DEF InOrder
    <2>2. ASSUME NEW e \in present \ {d} PROVE InOrder(e, content'[e], meta'[e], saved'[e])
        BY <1>1, <1>3, <1>4, <1>5, <1>10
    <2>3. ASSUME NEW e \in present' \ (present \cup {d})
          PROVE  InOrder(e, content'[e], meta'[e], saved'[e])
        BY <1>3, <1>5, <1>10, EmptyInOrder
    <2> QED BY <1>5, <1>10, <2>1, <2>2, <2>3
<1>12. \A i \in running' : model_exists(i.model)
                => i.model \in present' /\ HasDiagram(content'[i.model])
    BY <1>1, <1>3, <1>9, <1>10, ModelExists
<1>13. /\ DOMAIN imported' \subseteq DiagramXmls
       /\ \A x \in DOMAIN imported' :
            imported'[x] \in [model : Folders, dmn : Decisions \cup {NoDecision}]
    BY <1>1, <1>7, ImportTyped DEF Imported
<1> QED BY <1>1, <1>2, <1>4, <1>5, <1>10, <1>11, <1>12, <1>13, FilesKept, CallCounts

(***************************************************************************)
(* Start: the decision that the diagram calls is the one that is imported  *)
(* with it, if a file of the model has it.                                 *)
(***************************************************************************)
LEMMA CalledDecision ==
    ASSUME NEW files \in [Names -> Documents], NEW xml \in DiagramXmls,
           xml.calling \in {files[f] : f \in {g \in Names : g[2] = "dmn"}}
    PROVE  model_dmn_xml(files, xml) = xml.calling /\ xml.calling # NoDecision
<1> DEFINE dmns == {f \in Names : f[2] = "dmn" /\ files[f] # NoFile}
           called == {f \in dmns : xml \in DiagramXmls /\ files[f] = xml.calling}
<1>1. xml.calling \in Decisions \cup {NoDecision}
    BY DEF DiagramXmls, Default, Edited, Xml
<1>2. xml.calling \in Documents
    OBVIOUS
<1>3. xml.calling # NoDecision /\ xml.calling # NoFile
    BY <1>1, <1>2, DocumentsAssumption DEF Documents
<1>4. called # {} /\ called \in SUBSET Names
    BY <1>3
<1>5. First(called) \in called
    BY <1>4, FirstIsOne
<1>6. dmns # {} /\ files[First(called)] = xml.calling
    BY <1>4, <1>5
<1> QED BY <1>3, <1>4, <1>6 DEF model_dmn_xml

LEMMA Started ==
    ASSUME FilesIInv, NEW d \in Folders, start(d) PROVE FilesIInv'
<1> USE FilesNow
<1> DEFINE xml == content[d][StartFile(d)]
           dmn == model_dmn_xml(content[d], xml)
           had == {content[d][f] : f \in {g \in Names : g[2] = "dmn"}}
           new == [model |-> d, xml |-> xml, dmn |-> imported'[xml].dmn, had |-> had]
<1>1. /\ Call /\ model_exists(d) /\ Accepted(xml, dmn)
      /\ imported' = IF imported_as_this_model(d, xml, dmn) THEN imported
                     ELSE ImportDefinition(d, xml, dmn)
      /\ running' = running \/ running' = running \cup {new}
      /\ UNCHANGED <<present, content, meta, saved, orphaned>>
    BY DEF start
<1>2. d \in present /\ content[d] \in [Names -> Documents] /\ xml \in DiagramXmls
      /\ dmn \in Decisions \cup {NoDecision}
    BY <1>1, ModelExists DEF Accepted
<1>3. xml.calling \in had => dmn = xml.calling /\ dmn # NoDecision
    BY <1>2, CalledDecision
<1>4. /\ new.model = d /\ new.xml = xml /\ new.had = had /\ new.dmn = imported'[xml].dmn
    OBVIOUS
<1> HIDE DEF xml, dmn, had, new
<1>5. /\ DOMAIN imported' \subseteq DiagramXmls
      /\ \A x \in DOMAIN imported' :
            imported'[x] \in [model : Folders, dmn : Decisions \cup {NoDecision}]
    BY <1>1, <1>2, ImportTyped
<1>6. dmn # NoDecision => imported'[xml].dmn = dmn
    BY <1>1 DEF imported_as_this_model, ImportDefinition, Single, ++
<1>7. FilesTypeOK'
    BY <1>1, <1>2, <1>4, <1>5, CallCounts DEF FilesTypeOK, Documents, Metadata
<1>8. RunsAsCalled'
    BY <1>1, <1>3, <1>4, <1>6 DEF FilesIInv, RunsAsCalled
<1>9. InstancesKeepTheirModel'
    <2>1. \A e \in Folders : model_exists(e)' = model_exists(e)
        BY <1>1 DEF model_exists, Diagrams, HasFile
    <2> QED BY <1>1, <1>4, <2>1 DEF FilesIInv, InstancesKeepTheirModel
<1>10. \A e \in present' : InOrder(e, content'[e], meta'[e], saved'[e])
    BY <1>1
<1> QED BY <1>7, <1>8, <1>9, <1>10 DEF FilesIInv

LEMMA FilesStep == FilesIInv /\ [FilesNext]_filesVars => FilesIInv'
<1> SUFFICES ASSUME FilesIInv, [FilesNext]_filesVars PROVE FilesIInv'
    OBVIOUS
<1>1. ASSUME NEW d \in Folders,
             \/ create_process_group(d) \/ delete_process_group(d)
             \/ create_process_model(d) \/ delete_process_model(d)
             \/ \E s \in Folders : copy_process_model(s, d)
             \/ \E xml \in Edited : save(d, xml)
      PROVE  FilesIInv'
    BY <1>1, GroupMade, GroupDeleted, ModelMade, ModelDeleted, ModelCopied, DiagramSaved
<1>2. ASSUME NEW d \in Folders, NEW f \in Names,
             \/ \E c \in ContentsOf(f) : update_file(d, f, c) \/ create_model_file(d, f, c)
             \/ delete_model_file(d, f) \/ MarkPrimary(d, f)
      PROVE  FilesIInv'
    BY <1>2, FileUpdated, FileDeleted, FileMarked
<1>3. ASSUME NEW d \in Folders,
             \/ create_script_unit_test(d) \/ start(d)
             \/ \E t \in {"draft", "published", "paused"} : MarkStatus(d, t)
      PROVE  FilesIInv'
    BY <1>3, TestStored, Started, FileMarked
<1>4. CASE RemoveInstance
    <2> USE <1>4, FilesNow DEF RemoveInstance
    <2>1. \A i \in running' : model_exists(i.model)
                => i.model \in present' /\ HasDiagram(content'[i.model])
        BY ModelExists
    <2> QED BY <2>1, FilesKept, CallCounts
<1>5. CASE RebuildDatabase
    BY <1>5, FilesNow, FilesKept, CallCounts DEF RebuildDatabase, Nothing
<1>6. CASE UNCHANGED filesVars
    BY <1>6 DEF filesVars, FilesIInv, FilesTypeOK, RunsAsCalled, InstancesKeepTheirModel,
                model_exists, Diagrams, HasFile
<1> QED BY <1>1, <1>2, <1>3, <1>4, <1>5, <1>6 DEF FilesNext


LEMMA FilesStart == FilesInit => FilesIInv
<1> SUFFICES ASSUME FilesInit PROVE FilesIInv
    OBVIOUS
<1>1. present \in SUBSET Folders
    BY PathIsFolders DEF FilesInit
<1>2. /\ imported = Nothing /\ running = {} /\ calls \in 0..MaxCalls /\ orphaned = {}
      /\ saved = [d \in present |-> NoFile]
    BY FilesAssumption DEF FilesInit
<1>3. /\ content \in [present -> [Names -> Documents]] /\ meta \in [present -> Metadata]
      /\ \A d \in present : InOrder(d, content[d], meta[d], saved[d])
    <2>1. CASE content = [d \in present |-> NoFiles] /\ meta = [d \in present |-> NoMeta]
        BY <1>2, <2>1, EmptyInOrder, WhatIsWritten
    <2>2. ASSUME NEW m \in present, NEW f \in Names, NEW xml \in Edited, NEW marked \in BOOLEAN,
                 NEW dmns \in [{n \in Names : n[2] = "dmn"} -> Decisions \cup {NoFile}],
                 content = [d \in present |-> [n \in Names |->
                    IF d # m THEN NoFile
                    ELSE IF n = f THEN xml ELSE IF n[2] = "dmn" THEN dmns[n] ELSE NoFile]],
                 meta = [d \in present |->
                    IF d = m /\ marked THEN [primary |-> f, status |-> "published"] ELSE NoMeta]
          PROVE  /\ content \in [present -> [Names -> Documents]] /\ meta \in [present -> Metadata]
                 /\ \A d \in present : InOrder(d, content[d], meta[d], saved[d])
        <3>1. xml \in Documents /\ xml # NoFile /\ NoFile \in Documents
            BY WhatIsWritten, DocumentsAssumption DEF Documents
        <3>2. \A n \in Names : n[2] = "dmn" => dmns[n] \in Documents
            BY DEF Documents
        <3>3. content \in [present -> [Names -> Documents]]
            BY <2>2, <3>1, <3>2
        <3>4. /\ meta \in [present -> Metadata]
              /\ \A d \in present : meta[d].primary # NoFile => d = m /\ meta[d].primary = f
            BY <2>2, WhatIsWritten DEF Metadata
        <3>5. content[m][f] = xml
            BY <2>2
        <3>6. \A d \in present : InOrder(d, content[d], meta[d], saved[d])
            BY <1>2, <3>1, <3>4, <3>5 DEF InOrder
        <3> QED BY <3>3, <3>4, <3>6
    <2>3. CASE ~(content = [d \in present |-> NoFiles] /\ meta = [d \in present |-> NoMeta])
        <3>1. PICK m \in {d \in present : Len(d) = 2}, f \in {n \in Names : n[2] = "bpmn"},
                   xml \in Edited, marked \in BOOLEAN :
                /\ marked \/ f = LeafFile(m)
                /\ \E dmns \in [{n \in Names : n[2] = "dmn"} -> Decisions \cup {NoFile}] :
                    content = [d \in present |-> [n \in Names |->
                        IF d # m THEN NoFile
                        ELSE IF n = f THEN xml ELSE IF n[2] = "dmn" THEN dmns[n] ELSE NoFile]]
                /\ meta = [d \in present |->
                        IF d = m /\ marked THEN [primary |-> f, status |-> "published"] ELSE NoMeta]
            BY <2>3 DEF FilesInit
        <3>2. PICK dmns \in [{n \in Names : n[2] = "dmn"} -> Decisions \cup {NoFile}] :
                    content = [d \in present |-> [n \in Names |->
                        IF d # m THEN NoFile
                        ELSE IF n = f THEN xml ELSE IF n[2] = "dmn" THEN dmns[n] ELSE NoFile]]
            BY <3>1
        <3> QED BY <3>1, <3>2, <2>2
    <2> QED BY <2>1, <2>3
<1>4. FilesTypeOK
    BY <1>1, <1>2, <1>3 DEF FilesTypeOK, Documents, Metadata, Nothing
<1> QED BY <1>2, <1>3, <1>4 DEF FilesIInv, RunsAsCalled, InstancesKeepTheirModel

LEMMA FilesShown == FilesIInv => StartRunsWhatIsShown
<1> SUFFICES ASSUME FilesIInv PROVE StartRunsWhatIsShown
    OBVIOUS
<1>1. ASSUME NEW d \in Folders, model_exists(d)
      PROVE  /\ meta[d].primary # NoFile =>
                    /\ StartFile(d) = meta[d].primary
                    /\ meta[d].primary[2] = "bpmn" => TestFile(d) = StartFile(d)
             /\ saved[d] # NoFile => content[d][StartFile(d)] = saved[d]
    <2>1. /\ d \in present /\ HasDiagram(content[d])
          /\ InOrder(d, content[d], meta[d], saved[d])
          /\ meta[d].primary \in Names \cup {NoFile}
        BY <1>1, ModelExists, FilesNow DEF Metadata
    <2>2. _model_file_path(d) = IF meta[d].primary # NoFile THEN meta[d].primary ELSE LeafFile(d)
        BY <2>1 DEF _model_file_path
    <2>3. content[d][_model_file_path(d)] # NoFile => StartFile(d) = _model_file_path(d)
        BY <2>1 DEF StartFile, HasFile
    <2>4. ASSUME meta[d].primary # NoFile
          PROVE  /\ StartFile(d) = meta[d].primary
                 /\ meta[d].primary[2] = "bpmn" => TestFile(d) = StartFile(d)
        <3>1. content[d][meta[d].primary] # NoFile
            BY <2>1, <2>4 DEF InOrder
        <3>2. meta[d].primary[2] = "bpmn" => meta[d].primary \in Diagrams(d)
            BY <2>1, <2>4, <3>1 DEF Diagrams, HasFile
        <3> QED BY <2>2, <2>3, <2>4, <3>1, <3>2 DEF TestFile
    <2>5. ASSUME saved[d] # NoFile PROVE content[d][StartFile(d)] = saved[d]
        BY <2>1, <2>2, <2>3, <2>5 DEF InOrder
    <2> QED BY <2>4, <2>5
<1>2. \A i \in running : i.xml.calling \in i.had => i.dmn = i.xml.calling
    BY DEF FilesIInv, RunsAsCalled
<1> QED BY <1>1, <1>2 DEF StartRunsWhatIsShown

(***************************************************************************)
(* Types of ModelFiles: every directory on disk, and no other, has its     *)
(* files, its metadata and what was last saved, whatever calls made,       *)
(* copied or removed parts of the tree (write_spec_file,                   *)
(* delete_process_group, delete_process_model).                            *)
(***************************************************************************)
THEOREM FilesSpecType == FilesSpec => []FilesTypeOK
<1>1. FilesIInv => FilesTypeOK
    BY DEF FilesIInv
<1> QED BY <1>1, FilesStart, FilesStep, PTL DEF FilesSpec

(***************************************************************************)
(* Deletions of groups, models and files leave the model of every instance *)
(* with a diagram, except below a deleted model and where the last diagram *)
(* of a model without metadata goes (count_instances_for_process_group,    *)
(* delete_process_model, cannot_delete_primary).                           *)
(***************************************************************************)
THEOREM FilesSpecKeepsModels == FilesSpec => []InstancesKeepTheirModel
<1>1. FilesIInv => InstancesKeepTheirModel
    BY DEF FilesIInv
<1> QED BY <1>1, FilesStart, FilesStep, PTL DEF FilesSpec

(***************************************************************************)
(* In every directory, after every sequence of calls: Start reads the file *)
(* marked as primary, which is there; script unit tests run on it; a       *)
(* diagram saved without a file name is the one Start reads; and an        *)
(* instance runs with the decision its diagram calls if the model had it   *)
(* (read_primary_bpmn, _model_file_path, _primary_bpmn_name,               *)
(* model_dmn_xml, import_definition).                                      *)
(***************************************************************************)
THEOREM FilesSpecRunsWhatIsShown == FilesSpec => []StartRunsWhatIsShown
BY FilesShown, FilesStart, FilesStep, PTL DEF FilesSpec
=============================================================================
