----------------------------- MODULE AuditTrail -----------------------------
(***************************************************************************)
(* What the event audit table promises of a trigger: one row per event;    *)
(* a recorded success was one and is final; no resolved row goes back to   *)
(* queued; only resolved rows are pruned.                                  *)
(***************************************************************************)
CONSTANTS Events, Failures

VARIABLES
    outcome,   \* outcome[e]: the row's outcome, "none" without a row
    started    \* started[e]: a process instance was created for the event

trail == <<outcome, started>>

TrailInit ==
    /\ outcome = [e \in Events |-> "none"]
    /\ started = [e \in Events |-> FALSE]

Queue(e) ==
    /\ outcome[e] = "none"
    /\ outcome' = [outcome EXCEPT ![e] = "queued"]
    /\ UNCHANGED started

Start(e) ==
    /\ started' = [started EXCEPT ![e] = TRUE]
    /\ UNCHANGED outcome

Succeed(e) ==
    /\ started[e]
    /\ outcome' = [outcome EXCEPT ![e] = "instantiated"]
    /\ UNCHANGED started

Fail(e, failure) ==
    /\ outcome[e] # "instantiated"
    /\ outcome' = [outcome EXCEPT ![e] = failure]
    /\ UNCHANGED started

\* Pruned once resolved; the row of a pruned event may be written anew.
Prune(e) ==
    /\ outcome[e] \notin {"none", "queued"}
    /\ outcome' = [outcome EXCEPT ![e] = "none"]
    /\ UNCHANGED started

TrailNext ==
    \E e \in Events :
        \/ Queue(e) \/ Start(e) \/ Succeed(e) \/ Prune(e)
        \/ \E failure \in Failures : Fail(e, failure)

Trail == TrailInit /\ [][TrailNext]_trail
=============================================================================
