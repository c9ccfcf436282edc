---------------------------- MODULE TriggerEvents ---------------------------
(***************************************************************************)
(* A trigger on its way from POST /m8flow-trigger to a process instance:   *)
(* the publisher that audits, signs and publishes it, the JetStream        *)
(* message, the consumers that process its deliveries, the dedup bucket,   *)
(* the API key it was signed for and its row in the audit table.           *)
(*                                                                         *)
(* Every event is signed by the publisher; deliveries are at least once.   *)
(* A call that reads a row and then writes it is two steps: the write is   *)
(* decided on what was read.  instances saturates at 2 ("several").        *)
(***************************************************************************)
EXTENDS Integers, FiniteSets

CONSTANTS
    Events,       \* event ids
    Consumers,    \* consumer processes
    NoEvent,      \* an idle consumer's event
    MaxFaults,    \* bound: consumers that die, acks and audit writes that are lost
    MayLoseKV,    \* whether the dedup bucket may be unreachable
    MayRaise      \* whether publish may raise although the stream took the message,
                  \* and the ack of a started event or of a duplicate

ASSUME TriggerAssumption ==
    /\ NoEvent \notin Events
    /\ MaxFaults \in Nat
    /\ MayLoseKV \in BOOLEAN
    /\ MayRaise \in BOOLEAN

START_FAILURES == {"user_not_found", "model_not_found", "transient_error"}
REJECTIONS == {"rejected_auth", "rejected_stale"}
FAILURE_OUTCOMES == START_FAILURES \cup REJECTIONS
NatsEventOutcome == FAILURE_OUTCOMES \cup {"queued", "instantiated", "duplicate"}
Rows == NatsEventOutcome \cup {"none"}

VARIABLES
    \* publisher[e]: where publish_event is; published[e]: what its record_outcome read
    publisher, published,
    \* the message, whether its issued_at is within the window, its key
    stream, fresh, keyActive,
    \* the dedup bucket, the audit rows, the process instances
    kv, audit, instances,
    \* call frames of the consumers
    consumer,
    \* bound; history: the exceptional ways an event took
    faults, marks

message == <<stream, fresh, keyActive>>
sender == <<publisher, published>>
vars == <<sender, message, kv, audit, instances, consumer, faults, marks>>

\* unguarded: processed although the dedup bucket could not be asked;
\* torn: a call failed after the engine had committed the instance;
\* abandoned: its consumer died with the dedup key and before the outcome;
\* kept: a rejection found the row in place and left it alone;
\* unaudited: its outcome could not be written to the audit table.
Marks == {"unguarded", "torn", "abandoned", "kept", "unaudited"}

\* key: whether dedup_key is set; outcome: failure_outcome, or the success; seen: the row
\* as _apply_outcome read it.
Idle == [pc |-> "idle", event |-> NoEvent, key |-> FALSE, outcome |-> "none", seen |-> "none"]

Points == {"idle", "received", "rejected", "verified", "duplicate", "claimed", "created",
           "succeeding", "failing", "recording", "releasing", "dropping", "done"}

Frames ==
    [pc : Points, event : Events \cup {NoEvent}, key : BOOLEAN, outcome : Rows, seen : Rows]

TypeOK ==
    /\ publisher \in [Events -> {"idle", "queued", "waiting", "raised", "recording",
                                 "instance", "error", "none"}]
    /\ published \in [Events -> Rows]
    /\ stream \in [Events -> {"none", "pending", "acked"}]
    /\ fresh \in [Events -> BOOLEAN]
    /\ keyActive \in [Events -> BOOLEAN]
    /\ kv \in [Events -> BOOLEAN]
    /\ audit \in [Events -> Rows]
    /\ instances \in [Events -> 0..2]
    /\ consumer \in [Consumers -> Frames]
    /\ faults \in 0..MaxFaults
    /\ marks \in [Events -> SUBSET Marks]

Init ==
    /\ publisher = [e \in Events |-> "idle"]
    /\ published = [e \in Events |-> "none"]
    /\ stream = [e \in Events |-> "none"]
    /\ fresh = [e \in Events |-> TRUE]
    /\ keyActive = [e \in Events |-> TRUE]
    /\ kv = [e \in Events |-> FALSE]
    /\ audit = [e \in Events |-> "none"]
    /\ instances = [e \in Events |-> 0]
    /\ consumer = [c \in Consumers |-> Idle]
    /\ faults = 0
    /\ marks = [e \in Events |-> {}]

(***************************************************************************)
(* The audit table: NatsEventAuditService                                  *)
(***************************************************************************)

\* (mutant of MayOverwrite: the queued row is taken for final)
MayOverwriteResolved(current, incoming) ==
    current = incoming \/ current \notin {"instantiated", "queued"}

\* _may_overwrite
MayOverwrite(current, incoming) ==
    \/ current = incoming
    \/ current # "instantiated" /\ incoming # "queued"

\* _apply_outcome, decided on the row as it was read; without a row it inserts, and
\* loses to whoever inserted first; a row pruned meanwhile stays away.
Written(row, seen, outcome) ==
    IF seen = "none" THEN IF row = "none" THEN outcome ELSE row
    ELSE IF row # "none" /\ MayOverwrite(seen, outcome) THEN outcome ELSE row

\* (mutant of Inserted: the row of an unverified message replaces the one in place)
InsertedOver(row, outcome) == outcome

\* record_outcome(insert_only=True): the unique constraint protects an existing row.
Inserted(row, outcome) == IF row = "none" THEN outcome ELSE row

Mark(e, m) == marks' = [marks EXCEPT ![e] = @ \cup {m}]

\* The row is written, or the write fails, is logged, and nothing else changes.
Audit(e, row) ==
    \/ audit' = [audit EXCEPT ![e] = row] /\ UNCHANGED <<faults, marks>>
    \/ /\ faults < MaxFaults
       /\ faults' = faults + 1
       /\ audit' = audit
       /\ Mark(e, "unaudited")

\* prune: a resolved row past the retention, which is longer than the replay window.
Prune(e) ==
    /\ audit[e] \notin {"none", "queued"}
    /\ ~fresh[e]
    /\ audit' = [audit EXCEPT ![e] = "none"]
    /\ UNCHANGED <<sender, message, kv, instances, consumer, faults, marks>>

(***************************************************************************)
(* Publisher: m8flow_trigger, NatsService.publish_event                    *)
(***************************************************************************)

\* The key authenticates the call; the row is written before the message exists.
RecordQueued(e) ==
    /\ publisher[e] = "idle"
    /\ keyActive[e]
    /\ publisher' = [publisher EXCEPT ![e] = "queued"]
    /\ Audit(e, Inserted(audit[e], "queued"))
    /\ UNCHANGED <<published, message, kv, instances, consumer>>

\* Signed, stamped and accepted by the stream; the publisher waits for the reply.
Publish(e) ==
    /\ publisher[e] = "queued"
    /\ stream' = [stream EXCEPT ![e] = "pending"]
    /\ publisher' = [publisher EXCEPT ![e] = "waiting"]
    /\ UNCHANGED <<published, fresh, keyActive, kv, audit, instances, consumer, faults, marks>>

\* connect or publish raises; the stream may have taken the message all the same.
PublishRaises(e) ==
    /\ publisher[e] = "queued"
    /\ \/ stream' = stream
       \/ MayRaise /\ stream' = [stream EXCEPT ![e] = "pending"]
    /\ publisher' = [publisher EXCEPT ![e] = "raised"]
    /\ UNCHANGED <<published, fresh, keyActive, kv, audit, instances, consumer, faults, marks>>

\* publish_event's except clause closes the row out as transient_error.
PublisherReadsRow(e) ==
    /\ publisher[e] = "raised"
    /\ publisher' = [publisher EXCEPT ![e] = "recording"]
    /\ published' = [published EXCEPT ![e] = audit[e]]
    /\ UNCHANGED <<message, kv, audit, instances, consumer, faults, marks>>

PublisherWritesRow(e) ==
    /\ publisher[e] = "recording"
    /\ Audit(e, Written(audit[e], published[e], "transient_error"))
    /\ publisher' = [publisher EXCEPT ![e] = "error"]
    /\ published' = [published EXCEPT ![e] = "none"]
    /\ UNCHANGED <<message, kv, instances, consumer>>

\* No reply within reply_timeout: the caller is told so.
ReplyTimeout(e) ==
    /\ publisher[e] = "waiting"
    /\ publisher' = [publisher EXCEPT ![e] = "none"]
    /\ UNCHANGED <<published, message, kv, audit, instances, consumer, faults, marks>>

\* revoke_key, or the key's expiry passes.
Revoke(e) ==
    /\ keyActive[e]
    /\ keyActive' = [keyActive EXCEPT ![e] = FALSE]
    /\ UNCHANGED <<sender, stream, fresh, kv, audit, instances, consumer, faults, marks>>

(***************************************************************************)
(* Consumer: process_message                                               *)
(***************************************************************************)

At(c, pc) == consumer[c].pc = pc
Move(c, pc, outcome, seen) ==
    consumer' = [consumer EXCEPT ![c] =
                   [pc |-> pc, event |-> @.event, key |-> @.key,
                    outcome |-> outcome, seen |-> seen]]
Goto(c, pc) == Move(c, pc, consumer[c].outcome, consumer[c].seen)
Hold(c) ==
    consumer' = [consumer EXCEPT ![c] =
                   [pc |-> "claimed", event |-> @.event, key |-> TRUE,
                    outcome |-> "none", seen |-> "none"]]

\* fetch: an unacknowledged message, delivered for the first time or again.
Receive(c, e) ==
    /\ At(c, "idle")
    /\ stream[e] = "pending"
    /\ consumer' = [consumer EXCEPT ![c] =
                     [pc |-> "received", event |-> e, key |-> FALSE,
                      outcome |-> "none", seen |-> "none"]]
    /\ UNCHANGED <<sender, message, kv, audit, instances, faults, marks>>

\* (mutant of Rejection: the replay window is not checked)
RejectionAnyAge(e) == IF keyActive[e] THEN "none" ELSE "rejected_auth"

\* (mutant of Rejection: the refusals are not told apart, under a name the table
\* does not know)
RejectionUnnamed(e) == IF fresh[e] /\ keyActive[e] THEN "none" ELSE "rejected"

\* trigger_is_fresh, then resolve_key_id.
Rejection(e) ==
    IF ~fresh[e] THEN "rejected_stale" ELSE IF keyActive[e] THEN "none" ELSE "rejected_auth"

\* The signature verifies; the event is stale, its key is gone, or the sender is verified
\* (scope_allows cannot fail here: the publisher asked the same, unchangeable scope).
Authenticate(c) ==
    LET rejection == Rejection(consumer[c].event) IN
    /\ At(c, "received")
    /\ Move(c, IF rejection = "none" THEN "verified" ELSE "rejected", rejection, "none")
    /\ UNCHANGED <<sender, message, kv, audit, instances, faults, marks>>

\* ... or the key cannot be looked up: the sender is not verified.
AuthenticateRaises(c) ==
    /\ At(c, "received")
    /\ fresh[consumer[c].event]
    /\ Move(c, "rejected", "transient_error", "none")
    /\ UNCHANGED <<sender, message, kv, audit, instances, faults, marks>>

\* The except clause for a sender not verified yet: insert_only.
RecordRejection(c) ==
    LET e == consumer[c].event
        row == Inserted(audit[e], consumer[c].outcome) IN
    /\ At(c, "rejected")
    /\ \/ audit[e] = "none" /\ Audit(e, row)
       \/ /\ audit[e] # "none"
          /\ audit' = [audit EXCEPT ![e] = row]
          /\ Mark(e, "kept")
          /\ faults' = faults
    /\ Goto(c, "dropping")
    /\ UNCHANGED <<sender, message, kv, instances>>

\* check_idempotency: kv.create succeeds.
Claim(c) ==
    LET e == consumer[c].event IN
    /\ At(c, "verified")
    /\ ~kv[e]
    /\ kv' = [kv EXCEPT ![e] = TRUE]
    /\ Hold(c)
    /\ UNCHANGED <<sender, message, audit, instances, faults, marks>>

\* ... fails: processed without the guard, the key kept for the release all the same.
ClaimUnavailable(c) ==
    /\ At(c, "verified")
    /\ MayLoseKV
    /\ Hold(c)
    /\ Mark(consumer[c].event, "unguarded")
    /\ UNCHANGED <<sender, message, kv, audit, instances, faults>>

\* ... or finds the key: a duplicate.
Discard(c) ==
    /\ At(c, "verified")
    /\ kv[consumer[c].event]
    /\ Goto(c, "duplicate")
    /\ UNCHANGED <<sender, message, kv, audit, instances, faults, marks>>

\* record_duplicate: the row's outcome is left alone.
RecordDuplicate(c) ==
    /\ At(c, "duplicate")
    /\ Audit(consumer[c].event, Inserted(audit[consumer[c].event], "duplicate"))
    /\ Goto(c, "done")
    /\ UNCHANGED <<sender, message, kv, instances>>

\* One more instance of an event: none, one, several.
OneMore(n) == IF n < 2 THEN n + 1 ELSE n

\* instantiate_process: the engine commits the instance in a session of its own.
CreateInstance(c) ==
    /\ At(c, "claimed")
    /\ instances' = [instances EXCEPT ![consumer[c].event] = OneMore(@)]
    /\ Goto(c, "created")
    /\ UNCHANGED <<sender, message, kv, audit, faults, marks>>

\* ... or raises before that.
StartFails(c, failure) ==
    /\ At(c, "claimed")
    /\ Move(c, "failing", failure, "none")
    /\ UNCHANGED <<sender, message, kv, audit, instances, faults, marks>>

\* start(), the commit, the membership revert or the ack raises after that: rollback()
\* does not reach the instance.  A duplicate's ack may raise too.
RaisesLate(c) ==
    /\ At(c, "created") \/ At(c, "succeeding") \/ (At(c, "done") /\ MayRaise)
    /\ Move(c, "failing", "transient_error", "none")
    /\ IF consumer[c].key THEN Mark(consumer[c].event, "torn") ELSE UNCHANGED marks
    /\ UNCHANGED <<sender, message, kv, audit, instances, faults>>

\* record_outcome(instantiated) in the caller's session ...
ReadForSuccess(c) ==
    /\ At(c, "created")
    /\ Move(c, "succeeding", "none", audit[consumer[c].event])
    /\ UNCHANGED <<sender, message, kv, audit, instances, faults, marks>>

\* ... and the commit; an audit row that cannot be written is rolled back alone.
CommitSuccess(c) ==
    LET e == consumer[c].event IN
    /\ At(c, "succeeding")
    /\ Audit(e, Written(audit[e], consumer[c].seen, "instantiated"))
    /\ Move(c, "done", "instantiated", "none")
    /\ UNCHANGED <<sender, message, kv, instances>>

\* The except clause for a verified sender: record_outcome reads the row and writes it.
ReadForFailure(c) ==
    /\ At(c, "failing")
    /\ Move(c, "recording", consumer[c].outcome, audit[consumer[c].event])
    /\ UNCHANGED <<sender, message, kv, audit, instances, faults, marks>>

RecordFailure(c) ==
    LET e == consumer[c].event IN
    /\ At(c, "recording")
    /\ Audit(e, Written(audit[e], consumer[c].seen, consumer[c].outcome))
    /\ Move(c, "releasing", consumer[c].outcome, "none")
    /\ UNCHANGED <<sender, message, kv, instances>>

\* kv.delete, whoever created the key; an error is only logged.
Release(c) ==
    /\ At(c, "releasing")
    /\ \/ consumer[c].key /\ kv' = [kv EXCEPT ![consumer[c].event] = FALSE]
       \/ (consumer[c].key => MayLoseKV) /\ kv' = kv
    /\ Goto(c, "dropping")
    /\ UNCHANGED <<sender, message, audit, instances, faults, marks>>

\* The ack reaches the stream, or is lost and the message will be delivered again.
Ack(e) ==
    \/ stream' = [stream EXCEPT ![e] = "acked"] /\ faults' = faults
    \/ faults < MaxFaults /\ faults' = faults + 1 /\ stream' = stream

\* The reply reaches a publisher that is still waiting.
Reply(e, answer) ==
    \/ publisher' = publisher
    \/ publisher[e] = "waiting" /\ publisher' = [publisher EXCEPT ![e] = answer]

\* (mutant of Drop: a failed event is left for redelivery)
DropUnacknowledged(c) ==
    /\ At(c, "dropping")
    /\ Reply(consumer[c].event, "error")
    /\ consumer' = [consumer EXCEPT ![c] = Idle]
    /\ UNCHANGED <<published, message, kv, audit, instances, faults, marks>>

\* The end of the except clause: error reply, then ack.
Drop(c) ==
    /\ At(c, "dropping")
    /\ Reply(consumer[c].event, "error")
    /\ Ack(consumer[c].event)
    /\ consumer' = [consumer EXCEPT ![c] = Idle]
    /\ UNCHANGED <<published, fresh, keyActive, kv, audit, instances, marks>>

\* A started event, or a duplicate, is acknowledged; the former is replied to.
Finish(c) ==
    LET e == consumer[c].event IN
    /\ At(c, "done")
    /\ IF consumer[c].outcome = "instantiated" THEN Reply(e, "instance") ELSE UNCHANGED publisher
    /\ Ack(e)
    /\ consumer' = [consumer EXCEPT ![c] = Idle]
    /\ UNCHANGED <<published, fresh, keyActive, kv, audit, instances, marks>>

\* The dedup key is held and the outcome not yet recorded.
Unresolved(c) == At(c, "claimed") \/ At(c, "created") \/ At(c, "succeeding")
                 \/ At(c, "failing") \/ At(c, "recording")

\* The consumer dies inside process_message: its message is delivered again.
Crash(c) ==
    /\ ~At(c, "idle")
    /\ faults < MaxFaults
    /\ faults' = faults + 1
    /\ IF Unresolved(c) THEN Mark(consumer[c].event, "abandoned") ELSE UNCHANGED marks
    /\ consumer' = [consumer EXCEPT ![c] = Idle]
    /\ UNCHANGED <<sender, message, kv, audit, instances>>

(***************************************************************************)
(* Time                                                                    *)
(***************************************************************************)

\* M8FLOW_NATS_TRIGGER_MAX_AGE_SECONDS pass.
Age(e) ==
    /\ stream[e] # "none"
    /\ fresh[e]
    /\ fresh' = [fresh EXCEPT ![e] = FALSE]
    /\ UNCHANGED <<sender, stream, keyActive, kv, audit, instances, consumer, faults, marks>>

\* M8FLOW_NATS_DEDUP_TTL passes.  It is longer than the replay window and than the few
\* calls between the freshness check and kv.create.
Forget(e) ==
    /\ kv[e]
    /\ ~fresh[e]
    /\ \A c \in Consumers : consumer[c].event = e => ~At(c, "verified")
    /\ kv' = [kv EXCEPT ![e] = FALSE]
    /\ UNCHANGED <<sender, message, audit, instances, consumer, faults, marks>>

-----------------------------------------------------------------------------

ConsumerStep(c) ==
    \/ Authenticate(c) \/ AuthenticateRaises(c) \/ RecordRejection(c)
    \/ Claim(c) \/ ClaimUnavailable(c) \/ Discard(c) \/ RecordDuplicate(c)
    \/ CreateInstance(c)
    \/ \E failure \in START_FAILURES : StartFails(c, failure)
    \/ RaisesLate(c) \/ ReadForSuccess(c) \/ CommitSuccess(c)
    \/ ReadForFailure(c) \/ RecordFailure(c) \/ Release(c) \/ Drop(c) \/ Finish(c)

PublisherStep(e) ==
    \/ Publish(e) \/ PublishRaises(e) \/ PublisherReadsRow(e) \/ PublisherWritesRow(e)
    \/ ReplyTimeout(e)

Next ==
    \/ \E e \in Events : \/ RecordQueued(e) \/ PublisherStep(e) \/ Revoke(e)
                         \/ Age(e) \/ Forget(e) \/ Prune(e)
    \/ \E c \in Consumers, e \in Events : Receive(c, e)
    \/ \E c \in Consumers : ConsumerStep(c) \/ Crash(c)

Spec == Init /\ [][Next]_vars

\* The consumer loop fetches for ever and finishes what it has begun, unless it dies.
Fairness ==
    /\ \A e \in Events : WF_vars(\E c \in Consumers : Receive(c, e))
    /\ \A c \in Consumers : WF_vars(ConsumerStep(c))

LiveSpec == Spec /\ Fairness

(***************************************************************************)
(* Properties                                                              *)
(***************************************************************************)

Exceptional(e) == marks[e] \cap {"unguarded", "torn"} # {}

\* At-least-once delivery starts at most one process instance per event, whatever is
\* redelivered, crashes or is forgotten by the dedup bucket, unless the bucket could not
\* be asked or a call failed after the engine had committed the instance.
OneInstancePerEvent ==
    \A e \in Events : instances[e] > 1 => Exceptional(e)

\* 'queued' is the backlog: an acknowledged event still queued is being processed by
\* another delivery, or fell to one of the named exceptions.
QueuedIsInFlight ==
    \A e \in Events :
        audit[e] = "queued" /\ stream[e] = "acked" =>
            \/ marks[e] \cap {"abandoned", "kept", "unaudited"} # {}
            \/ \E c \in Consumers : consumer[c].event = e

\* Every message the stream took is finally acknowledged: no poison message, whatever
\* fails on the way.
PublishedIsHandled == \A e \in Events : stream[e] = "pending" ~> stream[e] = "acked"

\* The audit table keeps its promise.
AT == INSTANCE AuditTrail
        WITH outcome <- audit, started <- [e \in Events |-> instances[e] > 0],
             Failures <- FAILURE_OUTCOMES \cup {"duplicate"}
AuditTrailHolds == AT!Trail

\* "This delivery carries the same event id as the run that succeeded": a delivery is
\* discarded as a duplicate only when its event has started an instance.
DuplicateOfSuccess ==
    \A c \in Consumers : At(c, "duplicate") => instances[consumer[c].event] > 0

\* "A recorded success is final": no later write changes a row that says instantiated.
SuccessIsFinal ==
    [][\A e \in Events : audit[e] = "instantiated" => audit'[e] \in {"instantiated", "none"}]_vars

(***************************************************************************)
(* Inductive strengthening of OneInstancePerEvent (TriggerEventsProofs)    *)
(***************************************************************************)

\* A consumer inside process_message works on an event.
FramesOK == \A c \in Consumers : ~At(c, "idle") => consumer[c].event \in Events

\* The delivery owns the dedup key: it may start the instance, or will delete the key.
Holds(c, e) ==
    /\ consumer[c].event = e
    /\ \/ At(c, "claimed")
       \/ consumer[c].key /\ consumer[c].pc \in {"failing", "recording", "releasing"}

\* No other delivery can claim the event: the key is there, or the event is stale and
\* nobody is past the freshness check.
Guarded(e) ==
    \/ kv[e]
    \/ ~fresh[e] /\ \A c \in Consumers : consumer[c].event = e => ~At(c, "verified")

\* The key has one owner, who has started nothing yet; it, or staleness, guards the
\* event from the claim on, also when the owner is gone.
DedupAt(e) ==
    ~Exceptional(e) =>
        /\ instances[e] <= 1
        /\ instances[e] = 1 => Guarded(e)
        /\ \A c \in Consumers : Holds(c, e) => instances[e] = 0 /\ Guarded(e)
        /\ \A c, d \in Consumers : Holds(c, e) /\ Holds(d, e) => c = d

DedupOK == \A e \in Events : DedupAt(e)
(***************************************************************************)
(* ... of QueuedIsInFlight                                                 *)
(***************************************************************************)

\* Nothing happens to an event before its message exists.
StartOK ==
    \A e \in Events :
        /\ publisher[e] = "idle" => stream[e] = "none"
        /\ stream[e] = "none" => ~kv[e] /\ \A c \in Consumers : consumer[c].event # e

\* No delivery ends in "queued"; what it read of the row and has still to decide on is
\* "queued" whenever the row still is.
SeenOK ==
    \A c \in Consumers :
        /\ consumer[c].outcome # "queued"
        /\ At(c, "succeeding") \/ At(c, "recording") =>
               consumer[c].seen = "queued" \/ audit[consumer[c].event] # "queued"

\* The named exceptions.
Excused(e) == marks[e] \cap {"abandoned", "kept", "unaudited"} # {}

\* A delivery has settled, or is settling, that the message needs no other.
Settled(e) ==
    \/ kv[e]
    \/ stream[e] = "acked"
    \/ \E c \in Consumers : /\ consumer[c].event = e
                            /\ consumer[c].pc \in {"duplicate", "releasing", "dropping", "done"}

\* ... and then, while the row says queued, some delivery has the outcome still to record.
InFlightOK ==
    \A e \in Events :
        audit[e] = "queued" /\ ~Excused(e) /\ Settled(e) =>
            \E d \in Consumers : consumer[d].event = e /\ Unresolved(d)

(***************************************************************************)
(* ... of AuditTrailHolds, where neither bucket nor publish nor ack fails  *)
(***************************************************************************)

\* The delivery that holds the dedup key and has not let go of it.
Owns(c, e) == consumer[c].event = e /\ (Unresolved(c) \/ At(c, "releasing"))

\* One owner at a time, and nobody owns the event of a recorded success.
OwnerOK ==
    \A e \in Events :
        /\ \A c \in Consumers : Owns(c, e) => Guarded(e) /\ audit[e] # "instantiated"
        /\ \A c, d \in Consumers : Owns(c, e) /\ Owns(d, e) => c = d
        /\ audit[e] = "instantiated" => Guarded(e)

\* A failure is recorded as one, a success of an instance that exists.
OutcomeOK ==
    \A c \in Consumers :
        /\ At(c, "rejected") \/ At(c, "failing") \/ At(c, "recording") =>
               consumer[c].outcome \in FAILURE_OUTCOMES
        /\ At(c, "created") \/ At(c, "succeeding") => instances[consumer[c].event] > 0

\* A message the stream has not taken is not recorded as a success, and a publisher
\* whose call raised has none in the stream.
UnsentOK ==
    \A e \in Events :
        /\ publisher[e] \in {"idle", "queued", "raised", "recording"} => stream[e] = "none"
        /\ stream[e] = "none" => audit[e] # "instantiated"
=============================================================================
