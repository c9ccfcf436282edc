---------------------------- MODULE TaskHistory ----------------------------
(***************************************************************************)
(* The recorded lifecycle of a Celery task                                 *)
(* (services/celery_task_history_service.py): the worker's main process    *)
(* and its pool processes upsert one row, each in its own order, and each  *)
(* write may be lost.  A retry is published before it is recorded, so the  *)
(* next attempt, on whatever worker, may write first.                      *)
(***************************************************************************)
EXTENDS Naturals

CONSTANT MaxTries       \* bound: deliveries of the task

ASSUME TaskHistoryAssumption == MaxTries \in Nat

VARIABLES
    taskRow,        \* CeleryTaskModel.state, "none" without a row
    mainProcess,    \* per delivery: the worker that received the message
    poolProcess,    \* per delivery: the process that runs the task
    \* history: the final state that was recorded; the row was pruned
    recorded, pruned

historyVars == <<taskRow, mainProcess, poolProcess, recorded, pruned>>

Tries == 1..MaxTries
FINISHED_STATES == {"SUCCESS", "FAILURE", "REVOKED"}
CeleryTaskState == FINISHED_STATES \cup {"RECEIVED", "STARTED", "RETRY"}

TaskHistoryTypeOK ==
    /\ taskRow \in CeleryTaskState \cup {"none"}
    /\ mainProcess \in [Tries -> {"absent", "sent", "receiving", "received", "revoking", "revoked"}]
    /\ poolProcess \in [Tries -> {"idle", "prerun", "body", "retry", "failure", "returned",
                                 "retried", "failed", "done"}]
    /\ recorded \in FINISHED_STATES \cup {"none"}
    /\ pruned \in BOOLEAN

TaskHistoryInit ==
    /\ taskRow = "none"
    /\ mainProcess = [n \in Tries |-> IF n = 1 THEN "sent" ELSE "absent"]
    /\ poolProcess = [n \in Tries |-> "idle"]
    /\ recorded = "none"
    /\ pruned = FALSE

\* (mutant of KEEP_EXISTING: a retry is taken for the latest news)
KeepButForRetries(state) ==
    CASE state = "RECEIVED" -> {"STARTED"} \cup FINISHED_STATES
      [] state = "STARTED" -> FINISHED_STATES
      [] OTHER -> {}
\* The states a late write of this state leaves alone
KEEP_EXISTING(state) ==
    CASE state = "RECEIVED" -> {"STARTED"} \cup FINISHED_STATES
      [] state \in {"STARTED", "RETRY"} -> FINISHED_STATES
      [] OTHER -> {}

\* One upsert statement; a write that fails is logged and forgotten.
Record(state) ==
    \/ /\ taskRow' = IF taskRow \in KEEP_EXISTING(state) THEN taskRow ELSE state
       /\ recorded' = IF state \in FINISHED_STATES THEN state ELSE recorded
    \/ UNCHANGED <<taskRow, recorded>>

AdvanceMain(n, from, to) == mainProcess[n] = from /\ mainProcess' = [mainProcess EXCEPT ![n] = to]
AdvancePool(n, from, to) == poolProcess[n] = from /\ poolProcess' = [poolProcess EXCEPT ![n] = to]

(***************************************************************************)
(* The worker's main process                                               *)
(***************************************************************************)

\* The message arrives.
Receive(n) ==
    /\ AdvanceMain(n, "sent", "receiving")
    /\ UNCHANGED <<taskRow, poolProcess, recorded, pruned>>

OnTaskReceived(n) ==
    /\ AdvanceMain(n, "receiving", "received")
    /\ Record("RECEIVED")
    /\ UNCHANGED <<poolProcess, pruned>>

\* Revoked or expired before a pool process took it
RevokeTask(n) ==
    /\ poolProcess[n] = "idle"
    /\ AdvanceMain(n, "received", "revoking")
    /\ UNCHANGED <<taskRow, poolProcess, recorded, pruned>>

OnTaskRevoked(n) ==
    /\ AdvanceMain(n, "revoking", "revoked")
    /\ Record("REVOKED")
    /\ UNCHANGED <<poolProcess, pruned>>

(***************************************************************************)
(* A pool process                                                          *)
(***************************************************************************)

\* A pool process takes the delivery; its main process may not have recorded it yet.
TakeTask(n) ==
    /\ mainProcess[n] \in {"receiving", "received"}
    /\ AdvancePool(n, "idle", "prerun")
    /\ UNCHANGED <<taskRow, mainProcess, recorded, pruned>>

OnTaskPrerun(n) ==
    /\ AdvancePool(n, "prerun", "body")
    /\ Record("STARTED")
    /\ UNCHANGED <<mainProcess, pruned>>

BodyReturns(n) ==
    /\ AdvancePool(n, "body", "returned")
    /\ UNCHANGED <<taskRow, mainProcess, recorded, pruned>>

BodyRaises(n) ==
    /\ AdvancePool(n, "body", "failure")
    /\ UNCHANGED <<taskRow, mainProcess, recorded, pruned>>

\* The next delivery is published before the retry is signalled.
BodyRetries(n) ==
    /\ n < MaxTries
    /\ AdvancePool(n, "body", "retry")
    /\ AdvanceMain(n + 1, "absent", "sent")
    /\ UNCHANGED <<taskRow, recorded, pruned>>

OnTaskFailure(n) ==
    /\ AdvancePool(n, "failure", "failed")
    /\ Record("FAILURE")
    /\ UNCHANGED <<mainProcess, pruned>>

OnTaskRetry(n) ==
    /\ AdvancePool(n, "retry", "retried")
    /\ Record("RETRY")
    /\ UNCHANGED <<mainProcess, pruned>>

OnTaskPostrun(n) ==
    /\ \/ AdvancePool(n, "returned", "done") /\ Record("SUCCESS")
       \/ AdvancePool(n, "failed", "done") /\ Record("FAILURE")
       \/ AdvancePool(n, "retried", "done") /\ Record("RETRY")
    /\ UNCHANGED <<mainProcess, pruned>>

\* The pool process is killed: no signal follows.
PoolProcessDies(n) ==
    /\ poolProcess[n] \notin {"idle", "done"}
    /\ poolProcess' = [poolProcess EXCEPT ![n] = "done"]
    /\ UNCHANGED <<taskRow, mainProcess, recorded, pruned>>

\* The row outlives its retention.
PruneHistory ==
    /\ taskRow # "none"
    /\ taskRow' = "none" /\ pruned' = TRUE
    /\ UNCHANGED <<mainProcess, poolProcess, recorded>>

TaskHistoryNext ==
    \/ \E n \in Tries :
        \/ Receive(n) \/ OnTaskReceived(n) \/ RevokeTask(n) \/ OnTaskRevoked(n)
        \/ TakeTask(n) \/ OnTaskPrerun(n)
        \/ BodyReturns(n) \/ BodyRaises(n) \/ BodyRetries(n)
        \/ OnTaskFailure(n) \/ OnTaskRetry(n) \/ OnTaskPostrun(n) \/ PoolProcessDies(n)
    \/ PruneHistory

TaskHistorySpec == TaskHistoryInit /\ [][TaskHistoryNext]_historyVars

(***************************************************************************)
(* Properties                                                              *)
(***************************************************************************)

\* "A write may arrive after a later one": whatever the order in which the processes write,
\* a row whose final state was recorded keeps showing it (_KEEP_EXISTING).
OutcomeIsKept == recorded # "none" /\ ~pruned => taskRow = recorded
=============================================================================
