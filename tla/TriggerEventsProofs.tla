------------------------- MODULE TriggerEventsProofs ------------------------
(***************************************************************************)
(* TLAPS proofs about TriggerEvents, for every number of events, consumers *)
(* and faults: types, at most one process instance per event, an honest    *)
(* backlog, and the audit table the events implement.                      *)
(***************************************************************************)
EXTENDS TriggerEvents, TLAPS

\* Moving a delivery to another point of process_message keeps its frame well typed.
LEMMA MoveTyped ==
  ASSUME consumer \in [Consumers -> Frames], NEW c \in Consumers, NEW pc \in Points,
         NEW outcome \in Rows, NEW seen \in Rows, Move(c, pc, outcome, seen)
  PROVE  consumer' \in [Consumers -> Frames]
BY DEF Move, Frames

\* The same for a step that leaves what the delivery carries alone.
LEMMA GotoTyped ==
  ASSUME consumer \in [Consumers -> Frames], NEW c \in Consumers, NEW pc \in Points, Goto(c, pc)
  PROVE  consumer' \in [Consumers -> Frames]
BY DEF Goto, Move, Frames

\* _apply_outcome leaves an outcome in the row, or no row.
LEMMA WrittenTyped ==
  ASSUME NEW row \in Rows, NEW seen, NEW outcome \in Rows
  PROVE  Written(row, seen, outcome) \in Rows /\ Inserted(row, outcome) \in Rows
BY DEF Written, Inserted

\* An audit write, successful or lost, keeps the types.
LEMMA AuditTyped ==
  ASSUME TypeOK, NEW e \in Events, NEW row \in Rows, Audit(e, row)
  PROVE  /\ audit' \in [Events -> Rows]
         /\ faults' \in 0..MaxFaults
         /\ marks' \in [Events -> SUBSET Marks]
<1>1. audit' \in [Events -> Rows]
  BY DEF Audit, TypeOK
<1>2. faults' \in 0..MaxFaults
  BY TriggerAssumption DEF Audit, TypeOK
<1>3. marks' \in [Events -> SUBSET Marks]
  BY DEF Audit, TypeOK, Mark, Marks
<1>4. QED
  BY <1>1, <1>2, <1>3

\* One more instance keeps the saturating count within its range.
LEMMA OneMoreTyped == \A n \in 0..2 : OneMore(n) \in 0..2
BY DEF OneMore

\* Every variable keeps its type under every step of publisher, stream and consumers.
LEMMA TypeStep == TypeOK /\ FramesOK /\ [Next]_vars => TypeOK'
<1> SUFFICES ASSUME TypeOK, FramesOK, [Next]_vars PROVE TypeOK'
  OBVIOUS
<1> USE TriggerAssumption
    DEF TypeOK, sender, message, Rows, NatsEventOutcome, FAILURE_OUTCOMES, START_FAILURES, REJECTIONS
<1>1. ASSUME NEW e \in Events, RecordQueued(e) PROVE TypeOK'
  <2>1. Inserted(audit[e], "queued") \in Rows
    BY WrittenTyped
  <2>2. QED
    BY <1>1, <2>1, AuditTyped DEF RecordQueued
<1>2. ASSUME NEW e \in Events, Publish(e) PROVE TypeOK'
  BY <1>2 DEF Publish
<1>3. ASSUME NEW e \in Events, PublishRaises(e) PROVE TypeOK'
  BY <1>3 DEF PublishRaises
<1>4. ASSUME NEW e \in Events, PublisherReadsRow(e) PROVE TypeOK'
  BY <1>4 DEF PublisherReadsRow
<1>5. ASSUME NEW e \in Events, PublisherWritesRow(e) PROVE TypeOK'
  <2>1. Written(audit[e], published[e], "transient_error") \in Rows
    BY WrittenTyped
  <2>2. QED
    BY <1>5, <2>1, AuditTyped DEF PublisherWritesRow
<1>6. ASSUME NEW e \in Events, ReplyTimeout(e) PROVE TypeOK'
  BY <1>6 DEF ReplyTimeout
<1>7. ASSUME NEW e \in Events, Revoke(e) PROVE TypeOK'
  BY <1>7 DEF Revoke
<1>8. ASSUME NEW e \in Events, Age(e) PROVE TypeOK'
  BY <1>8 DEF Age
<1>9. ASSUME NEW e \in Events, Forget(e) PROVE TypeOK'
  BY <1>9 DEF Forget
<1>10. ASSUME NEW e \in Events, Prune(e) PROVE TypeOK'
  BY <1>10 DEF Prune
<1>11. ASSUME NEW c \in Consumers, NEW e \in Events, Receive(c, e) PROVE TypeOK'
  <2>1. consumer' \in [Consumers -> Frames]
    BY <1>11 DEF Receive, Frames, Points
  <2>2. QED
    BY <1>11, <2>1 DEF Receive
<1>12. ASSUME NEW c \in Consumers, Authenticate(c) PROVE TypeOK'
  <2>1. consumer[c].event \in Events
    BY <1>12 DEF Authenticate, FramesOK, At
  <2>2. consumer[c].outcome \in Rows /\ consumer[c].seen \in Rows
    BY DEF Frames
  <2>3. consumer' \in [Consumers -> Frames]
    BY <1>12, <2>1, <2>2, MoveTyped DEF Authenticate, Rejection, Points
  <2>4. QED
    BY <1>12, <2>1, <2>3 DEF Authenticate
<1>13. ASSUME NEW c \in Consumers, AuthenticateRaises(c) PROVE TypeOK'
  <2>1. consumer[c].event \in Events
    BY <1>13 DEF AuthenticateRaises, FramesOK, At
  <2>2. consumer[c].outcome \in Rows /\ consumer[c].seen \in Rows
    BY DEF Frames
  <2>3. consumer' \in [Consumers -> Frames]
    BY <1>13, <2>1, <2>2, MoveTyped DEF AuthenticateRaises, Points
  <2>4. QED
    BY <1>13, <2>1, <2>3 DEF AuthenticateRaises
<1>14. ASSUME NEW c \in Consumers, RecordRejection(c) PROVE TypeOK'
  <2>1. consumer[c].event \in Events
    BY <1>14 DEF RecordRejection, FramesOK, At
  <2>2. consumer[c].outcome \in Rows /\ consumer[c].seen \in Rows
    BY DEF Frames
  <2>3. consumer' \in [Consumers -> Frames]
    BY <1>14, <2>1, <2>2, GotoTyped DEF RecordRejection, Points
  <2>4. Inserted(audit[consumer[c].event], consumer[c].outcome) \in Rows
    BY <2>1, <2>2, WrittenTyped
  <2>5. QED
    BY <1>14, <2>1, <2>3, <2>4, AuditTyped DEF RecordRejection, Mark, Marks
<1>15. ASSUME NEW c \in Consumers, Claim(c) PROVE TypeOK'
  <2>1. consumer[c].event \in Events
    BY <1>15 DEF Claim, FramesOK, At
  <2>2. consumer[c].outcome \in Rows /\ consumer[c].seen \in Rows
    BY DEF Frames
  <2>3. consumer' \in [Consumers -> Frames]
    BY <1>15, <2>1, <2>2 DEF Claim, Hold, Frames, Points
  <2>4. QED
    BY <1>15, <2>1, <2>3 DEF Claim
<1>16. ASSUME NEW c \in Consumers, ClaimUnavailable(c) PROVE TypeOK'
  <2>1. consumer[c].event \in Events
    BY <1>16 DEF ClaimUnavailable, FramesOK, At
  <2>2. consumer[c].outcome \in Rows /\ consumer[c].seen \in Rows
    BY DEF Frames
  <2>3. consumer' \in [Consumers -> Frames]
    BY <1>16, <2>1, <2>2 DEF ClaimUnavailable, Hold, Frames, Points
  <2>4. QED
    BY <1>16, <2>1, <2>3 DEF ClaimUnavailable, Mark, Marks
<1>17. ASSUME NEW c \in Consumers, Discard(c) PROVE TypeOK'
  <2>1. consumer[c].event \in Events
    BY <1>17 DEF Discard, FramesOK, At
  <2>2. consumer[c].outcome \in Rows /\ consumer[c].seen \in Rows
    BY DEF Frames
  <2>3. consumer' \in [Consumers -> Frames]
    BY <1>17, <2>1, <2>2, GotoTyped DEF Discard, Points
  <2>4. QED
    BY <1>17, <2>1, <2>3 DEF Discard
<1>18. ASSUME NEW c \in Consumers, RecordDuplicate(c) PROVE TypeOK'
  <2>1. consumer[c].event \in Events
    BY <1>18 DEF RecordDuplicate, FramesOK, At
  <2>2. consumer[c].outcome \in Rows /\ consumer[c].seen \in Rows
    BY DEF Frames
  <2>3. consumer' \in [Consumers -> Frames]
    BY <1>18, <2>1, <2>2, GotoTyped DEF RecordDuplicate, Points
  <2>4. Inserted(audit[consumer[c].event], "duplicate") \in Rows
    BY <2>1, <2>2, WrittenTyped
  <2>5. QED
    BY <1>18, <2>1, <2>3, <2>4, AuditTyped DEF RecordDuplicate
<1>19. ASSUME NEW c \in Consumers, CreateInstance(c) PROVE TypeOK'
  <2>1. consumer[c].event \in Events
    BY <1>19 DEF CreateInstance, FramesOK, At
  <2>2. consumer[c].outcome \in Rows /\ consumer[c].seen \in Rows
    BY DEF Frames
  <2>3. consumer' \in [Consumers -> Frames]
    BY <1>19, <2>1, <2>2, GotoTyped DEF CreateInstance, Points
  <2>4. QED
    BY <1>19, <2>1, <2>3, OneMoreTyped DEF CreateInstance
<1>20. ASSUME NEW c \in Consumers, RaisesLate(c) PROVE TypeOK'
  <2>1. consumer[c].event \in Events
    BY <1>20 DEF RaisesLate, FramesOK, At
  <2>2. consumer[c].outcome \in Rows /\ consumer[c].seen \in Rows
    BY DEF Frames
  <2>3. consumer' \in [Consumers -> Frames]
    BY <1>20, <2>1, <2>2, MoveTyped DEF RaisesLate, Points
  <2>4. QED
    BY <1>20, <2>1, <2>3 DEF RaisesLate, Mark, Marks
<1>21. ASSUME NEW c \in Consumers, ReadForSuccess(c) PROVE TypeOK'
  <2>1. consumer[c].event \in Events
    BY <1>21 DEF ReadForSuccess, FramesOK, At
  <2>2. consumer[c].outcome \in Rows /\ consumer[c].seen \in Rows
    BY DEF Frames
  <2>3. consumer' \in [Consumers -> Frames]
    BY <1>21, <2>1, <2>2, MoveTyped DEF ReadForSuccess, Points
  <2>4. QED
    BY <1>21, <2>1, <2>3 DEF ReadForSuccess
<1>22. ASSUME NEW c \in Consumers, CommitSuccess(c) PROVE TypeOK'
  <2>1. consumer[c].event \in Events
    BY <1>22 DEF CommitSuccess, FramesOK, At
  <2>2. consumer[c].outcome \in Rows /\ consumer[c].seen \in Rows
    BY DEF Frames
  <2>3. consumer' \in [Consumers -> Frames]
    BY <1>22, <2>1, <2>2, MoveTyped DEF CommitSuccess, Points
  <2>4. Written(audit[consumer[c].event], consumer[c].seen, "instantiated") \in Rows
    BY <2>1, <2>2, WrittenTyped
  <2>5. QED
    BY <1>22, <2>1, <2>3, <2>4, AuditTyped DEF CommitSuccess
<1>23. ASSUME NEW c \in Consumers, ReadForFailure(c) PROVE TypeOK'
  <2>1. consumer[c].event \in Events
    BY <1>23 DEF ReadForFailure, FramesOK, At
  <2>2. consumer[c].outcome \in Rows /\ consumer[c].seen \in Rows
    BY DEF Frames
  <2>3. consumer' \in [Consumers -> Frames]
    BY <1>23, <2>1, <2>2, MoveTyped DEF ReadForFailure, Points
  <2>4. QED
    BY <1>23, <2>1, <2>3 DEF ReadForFailure
<1>24. ASSUME NEW c \in Consumers, RecordFailure(c) PROVE TypeOK'
  <2>1. consumer[c].event \in Events
    BY <1>24 DEF RecordFailure, FramesOK, At
  <2>2. consumer[c].outcome \in Rows /\ consumer[c].seen \in Rows
    BY DEF Frames
  <2>3. consumer' \in [Consumers -> Frames]
    BY <1>24, <2>1, <2>2, MoveTyped DEF RecordFailure, Points
  <2>4. Written(audit[consumer[c].event], consumer[c].seen, consumer[c].outcome) \in Rows
    BY <2>1, <2>2, WrittenTyped
  <2>5. QED
    BY <1>24, <2>1, <2>3, <2>4, AuditTyped DEF RecordFailure
<1>25. ASSUME NEW c \in Consumers, Release(c) PROVE TypeOK'
  <2>1. consumer[c].event \in Events
    BY <1>25 DEF Release, FramesOK, At
  <2>2. consumer[c].outcome \in Rows /\ consumer[c].seen \in Rows
    BY DEF Frames
  <2>3. consumer' \in [Consumers -> Frames]
    BY <1>25, <2>1, <2>2, GotoTyped DEF Release, Points
  <2>4. QED
    BY <1>25, <2>1, <2>3 DEF Release
<1>26. ASSUME NEW c \in Consumers, Drop(c) PROVE TypeOK'
  <2>1. consumer[c].event \in Events
    BY <1>26 DEF Drop, FramesOK, At
  <2>2. consumer[c].outcome \in Rows /\ consumer[c].seen \in Rows
    BY DEF Frames
  <2>3. consumer' \in [Consumers -> Frames]
    BY <1>26, <2>1, <2>2 DEF Drop, Idle, Frames, Points
  <2>4. QED
    BY <1>26, <2>1, <2>3 DEF Drop, Ack, Reply
<1>27. ASSUME NEW c \in Consumers, Finish(c) PROVE TypeOK'
  <2>1. consumer[c].event \in Events
    BY <1>27 DEF Finish, FramesOK, At
  <2>2. consumer[c].outcome \in Rows /\ consumer[c].seen \in Rows
    BY DEF Frames
  <2>3. consumer' \in [Consumers -> Frames]
    BY <1>27, <2>1, <2>2 DEF Finish, Idle, Frames, Points
  <2>4. QED
    BY <1>27, <2>1, <2>3 DEF Finish, Ack, Reply
<1>28. ASSUME NEW c \in Consumers, NEW failure \in START_FAILURES, StartFails(c, failure) PROVE TypeOK'
  <2>1. consumer[c].event \in Events
    BY <1>28 DEF StartFails, FramesOK, At
  <2>2. consumer[c].outcome \in Rows /\ consumer[c].seen \in Rows
    BY DEF Frames
  <2>3. consumer' \in [Consumers -> Frames]
    BY <1>28, <2>1, <2>2, MoveTyped DEF StartFails, Points
  <2>4. QED
    BY <1>28, <2>1, <2>3 DEF StartFails
<1>29. ASSUME NEW c \in Consumers, Crash(c) PROVE TypeOK'
  <2>1. consumer[c].event \in Events
    BY <1>29 DEF Crash, FramesOK, At
  <2>2. consumer[c].outcome \in Rows /\ consumer[c].seen \in Rows
    BY DEF Frames
  <2>3. consumer' \in [Consumers -> Frames]
    BY <1>29, <2>1, <2>2 DEF Crash, Idle, Frames, Points
  <2>4. QED
    BY <1>29, <2>1, <2>3 DEF Crash, Mark, Marks
<1>30. CASE UNCHANGED vars
  BY <1>30 DEF vars
<1>31. QED
  <2>1. ASSUME NEW c \in Consumers, ConsumerStep(c) PROVE TypeOK'
    BY <2>1, <1>12, <1>13, <1>14, <1>15, <1>16, <1>17, <1>18, <1>19, <1>20, <1>21, <1>22,
       <1>23, <1>24, <1>25, <1>26, <1>27, <1>28 DEF ConsumerStep
  <2>2. ASSUME NEW e \in Events, PublisherStep(e) PROVE TypeOK'
    BY <2>2, <1>2, <1>3, <1>4, <1>5, <1>6 DEF PublisherStep
  <2>3. QED
    BY <2>1, <2>2, <1>1, <1>2, <1>3, <1>4, <1>5, <1>6, <1>7, <1>8, <1>9, <1>10, <1>11,
       <1>29, <1>30 DEF Next

\* A consumer inside process_message keeps the event it received.
LEMMA FramesStep == TypeOK /\ FramesOK /\ [Next]_vars => FramesOK'
<1> SUFFICES ASSUME TypeOK, FramesOK, [Next]_vars PROVE FramesOK'
  OBVIOUS
<1>1. ASSUME consumer' = consumer PROVE FramesOK'
  BY <1>1 DEF FramesOK, At
<1>2. ASSUME NEW c \in Consumers, consumer' = [consumer EXCEPT ![c] = Idle] PROVE FramesOK'
  BY <1>2 DEF FramesOK, At, Idle, TypeOK
<1>3. ASSUME NEW c \in Consumers, ~At(c, "idle"), NEW pc, NEW outcome, NEW seen,
             Move(c, pc, outcome, seen)
      PROVE  FramesOK'
  BY <1>3 DEF FramesOK, At, Move, TypeOK
<1>4. ASSUME NEW c \in Consumers, ~At(c, "idle"), Hold(c) PROVE FramesOK'
  BY <1>4 DEF FramesOK, At, Hold, TypeOK
<1>5. ASSUME NEW c \in Consumers, NEW e \in Events, Receive(c, e) PROVE FramesOK'
  BY <1>5 DEF FramesOK, At, Receive, TypeOK
<1>6. ASSUME NEW c \in Consumers, ConsumerStep(c) PROVE FramesOK'
  <2>1. CASE Claim(c) \/ ClaimUnavailable(c)
    BY <2>1, <1>4 DEF Claim, ClaimUnavailable, At
  <2>2. CASE Drop(c) \/ Finish(c)
    BY <2>2, <1>2 DEF Drop, Finish
  <2>3. CASE Authenticate(c)
    BY <2>3, <1>3 DEF Authenticate, At
  <2>4. CASE AuthenticateRaises(c) \/ RaisesLate(c)
    BY <2>4, <1>3 DEF AuthenticateRaises, RaisesLate, At
  <2>5. CASE RecordRejection(c) \/ Discard(c) \/ RecordDuplicate(c)
    BY <2>5, <1>3 DEF RecordRejection, Discard, RecordDuplicate, Goto, At
  <2>6. CASE CreateInstance(c) \/ Release(c)
    BY <2>6, <1>3 DEF CreateInstance, Release, Goto, At
  <2>7. CASE \E failure \in START_FAILURES : StartFails(c, failure)
    BY <2>7, <1>3 DEF StartFails, At
  <2>8. CASE ReadForSuccess(c) \/ CommitSuccess(c)
    BY <2>8, <1>3 DEF ReadForSuccess, CommitSuccess, At
  <2>9. CASE ReadForFailure(c) \/ RecordFailure(c)
    BY <2>9, <1>3 DEF ReadForFailure, RecordFailure, At
  <2>10. QED
    BY <1>6, <2>1, <2>2, <2>3, <2>4, <2>5, <2>6, <2>7, <2>8, <2>9 DEF ConsumerStep
<1>7. ASSUME NEW c \in Consumers, Crash(c) PROVE FramesOK'
  BY <1>7, <1>2 DEF Crash
<1>8. ASSUME NEW e \in Events, PublisherStep(e) PROVE FramesOK'
  BY <1>8, <1>1 DEF PublisherStep, Publish, PublishRaises, PublisherReadsRow,
     PublisherWritesRow, ReplyTimeout
<1>9. ASSUME NEW e \in Events,
             RecordQueued(e) \/ Revoke(e) \/ Age(e) \/ Forget(e) \/ Prune(e)
      PROVE  FramesOK'
  BY <1>9, <1>1 DEF RecordQueued, Revoke, Age, Forget, Prune
<1>10. QED
  BY <1>1, <1>5, <1>6, <1>7, <1>8, <1>9 DEF Next, vars

\* The initial state is well typed and every consumer is idle.
LEMMA TypeInit == Init => TypeOK /\ FramesOK
BY TriggerAssumption DEF Init, TypeOK, FramesOK, At, Idle, Frames, Points, Rows,
   NatsEventOutcome, FAILURE_OUTCOMES, START_FAILURES, REJECTIONS, Marks

\* Type correctness of publisher, stream, audit table and consumers, and every consumer at
\* work has an event of the stream, whatever is redelivered, lost or crashes.
THEOREM TriggerTypeCorrect == Spec => [](TypeOK /\ FramesOK)
<1>1. TypeOK /\ FramesOK /\ [Next]_vars => (TypeOK /\ FramesOK)'
  BY TypeStep, FramesStep
<1>2. QED
  BY <1>1, TypeInit, PTL DEF Spec

\* What a step that neither claims nor releases does to an event: nobody new owns its
\* dedup key or is past the freshness check, and no history is forgotten.
Quiet(e) ==
    /\ kv'[e] = kv[e] /\ instances'[e] = instances[e] /\ fresh'[e] = fresh[e]
    /\ marks[e] \subseteq marks'[e]
    /\ \A c \in Consumers : Holds(c, e)' => Holds(c, e)
    /\ \A c \in Consumers : consumer'[c].event = e /\ At(c, "verified")'
                                => consumer[c].event = e /\ At(c, "verified")

\* A quiet step keeps the event guarded.
LEMMA QuietKeeps ==
  ASSUME NEW e \in Events, DedupAt(e), Quiet(e)
  PROVE  DedupAt(e)'
<1>1. Exceptional(e) => Exceptional(e)'
  BY DEF Quiet, Exceptional
<1>2. Guarded(e) => Guarded(e)'
  BY DEF Quiet, Guarded
<1>3. QED
  BY <1>1, <1>2 DEF Quiet, DedupAt

\* A delivery that moves on without passing the freshness check or becoming the owner of
\* the key is a quiet step for every event.
LEMMA MoveQuiet ==
  ASSUME TypeOK, NEW e \in Events, NEW c \in Consumers,
         NEW pc, NEW outcome, NEW seen, Move(c, pc, outcome, seen),
         pc \notin {"verified", "claimed"},
         pc \in {"failing", "recording", "releasing"} =>
             ~consumer[c].key \/ consumer[c].pc \in {"claimed", "failing", "recording"},
         kv' = kv, instances' = instances, fresh' = fresh, marks[e] \subseteq marks'[e]
  PROVE  Quiet(e)
<1>1. \A d \in Consumers : d # c => consumer'[d] = consumer[d]
  BY DEF Move, TypeOK
<1>2. /\ consumer'[c].pc = pc
      /\ consumer'[c].event = consumer[c].event
      /\ consumer'[c].key = consumer[c].key
  BY DEF Move, TypeOK
<1>3. \A d \in Consumers : Holds(d, e)' => Holds(d, e)
  BY <1>1, <1>2 DEF Holds, At
<1>4. \A d \in Consumers : consumer'[d].event = e /\ At(d, "verified")'
                               => consumer[d].event = e /\ At(d, "verified")
  BY <1>1, <1>2 DEF At
<1>5. QED
  BY <1>3, <1>4 DEF Quiet

\* A delivery that ends, or whose consumer dies, is a quiet step.
LEMMA IdleQuiet ==
  ASSUME TypeOK, NEW e \in Events, NEW c \in Consumers,
         consumer' = [consumer EXCEPT ![c] = Idle],
         kv' = kv, instances' = instances, fresh' = fresh, marks[e] \subseteq marks'[e]
  PROVE  Quiet(e)
<1>1. \A d \in Consumers : d # c => consumer'[d] = consumer[d]
  BY DEF TypeOK
<1>2. consumer'[c].event = NoEvent /\ NoEvent # e
  BY TriggerAssumption DEF TypeOK, Idle
<1>3. QED
  BY <1>1, <1>2 DEF Quiet, Holds, At

\* A step that leaves the consumers and the bucket alone is quiet.
LEMMA StillQuiet ==
  ASSUME NEW e \in Events, consumer' = consumer, kv' = kv, instances' = instances,
         fresh' = fresh, marks[e] \subseteq marks'[e]
  PROVE  Quiet(e)
BY DEF Quiet, Holds, At

\* An audit write adds to the history of the event.
LEMMA AuditMarks ==
  ASSUME TypeOK, NEW a \in Events, NEW row, Audit(a, row), NEW e \in Events
  PROVE  marks[e] \subseteq marks'[e]
BY DEF Audit, Mark, TypeOK

\* Every step keeps the guard: the key has one owner until its instance exists, and then
\* the key or staleness keeps every other delivery out.
LEMMA DedupStep == TypeOK /\ FramesOK /\ DedupOK /\ [Next]_vars => DedupOK'
<1> SUFFICES ASSUME TypeOK, FramesOK, DedupOK, [Next]_vars, NEW e \in Events
             PROVE  DedupAt(e)'
  BY DEF DedupOK
<1>0. DedupAt(e)
  BY DEF DedupOK
<1>1. Quiet(e) => DedupAt(e)'
  BY <1>0, QuietKeeps
<1>2. ASSUME NEW a \in Events, PublisherStep(a) PROVE Quiet(e)
  <2>1. CASE PublisherWritesRow(a)
    BY <2>1, AuditMarks, StillQuiet DEF PublisherWritesRow, message
  <2>2. CASE Publish(a) \/ PublishRaises(a) \/ PublisherReadsRow(a) \/ ReplyTimeout(a)
    BY <2>2, StillQuiet DEF Publish, PublishRaises, PublisherReadsRow, ReplyTimeout, message
  <2>3. QED
    BY <1>2, <2>1, <2>2 DEF PublisherStep
<1>3. ASSUME NEW a \in Events, RecordQueued(a) PROVE Quiet(e)
  BY <1>3, AuditMarks, StillQuiet DEF RecordQueued, message
<1>4. ASSUME NEW a \in Events, Revoke(a) \/ Prune(a) PROVE Quiet(e)
  BY <1>4, StillQuiet DEF Revoke, Prune, message
<1>5. ASSUME NEW a \in Events, Age(a) PROVE DedupAt(e)'
  <2>1. UNCHANGED <<consumer, kv, instances, marks>>
    BY <1>5 DEF Age
  <2>2. fresh'[e] => fresh[e]
    BY <1>5 DEF Age, TypeOK
  <2>3. fresh'[e] # fresh[e] => fresh[e]
    BY <1>5 DEF Age, TypeOK
  <2>4. Guarded(e) => Guarded(e)'
    BY <2>1, <2>2, <2>3 DEF Guarded, At
  <2>5. \A c \in Consumers : Holds(c, e)' <=> Holds(c, e)
    BY <2>1 DEF Holds, At
  <2>6. QED
    BY <1>0, <2>1, <2>4, <2>5 DEF DedupAt, Exceptional
<1>6. ASSUME NEW a \in Events, Forget(a) PROVE DedupAt(e)'
  <2>1. UNCHANGED <<consumer, fresh, instances, marks>>
    BY <1>6 DEF Forget, message
  <2>2. Guarded(e) => Guarded(e)'
    BY <1>6, <2>1 DEF Forget, Guarded, At, TypeOK
  <2>3. \A c \in Consumers : Holds(c, e)' <=> Holds(c, e)
    BY <2>1 DEF Holds, At
  <2>4. QED
    BY <1>0, <2>1, <2>2, <2>3 DEF DedupAt, Exceptional
<1>7. ASSUME NEW c \in Consumers, NEW a \in Events, Receive(c, a) PROVE Quiet(e)
  <2>1. \A d \in Consumers : d # c => consumer'[d] = consumer[d]
    BY <1>7 DEF Receive, TypeOK
  <2>2. consumer'[c].pc = "received"
    BY <1>7 DEF Receive, TypeOK
  <2>3. QED
    BY <1>7, <2>1, <2>2 DEF Receive, Quiet, Holds, At, message
<1>8. ASSUME NEW c \in Consumers, Crash(c) PROVE Quiet(e)
  <2>1. marks[e] \subseteq marks'[e]
    BY <1>8 DEF Crash, Mark, TypeOK
  <2>2. QED
    BY <1>8, <2>1, IdleQuiet DEF Crash, message
<1>9. ASSUME NEW c \in Consumers, ConsumerStep(c) PROVE DedupAt(e)'
  <2> DEFINE a == consumer[c].event
  <2>0. ~At(c, "idle") => a \in Events
    BY DEF FramesOK
  <2>1. CASE Authenticate(c)
    <3>1. CASE Rejection(a) # "none"
      BY <1>1, <2>1, <3>1, MoveQuiet DEF Authenticate, message
    <3>2. CASE Rejection(a) = "none"
      <4>1. fresh[a]
        BY <3>2 DEF Rejection
      <4>2. Move(c, "verified", "none", "none")
        BY <2>1, <3>2 DEF Authenticate
      <4>3. UNCHANGED <<kv, instances, fresh, marks>>
        BY <2>1 DEF Authenticate, message
      <4>4. \A d \in Consumers : d # c => consumer'[d] = consumer[d]
        BY <4>2 DEF Move, TypeOK
      <4>5. consumer'[c].pc = "verified" /\ consumer'[c].event = a
        BY <4>2 DEF Move, TypeOK
      <4>6. \A d \in Consumers : Holds(d, e)' => Holds(d, e)
        BY <4>4, <4>5 DEF Holds, At
      <4>7. Guarded(e) => Guarded(e)'
        BY <4>1, <4>3, <4>4, <4>5 DEF Guarded, At
      <4>8. QED
        BY <1>0, <4>3, <4>6, <4>7 DEF DedupAt, Exceptional
    <3>3. QED
      BY <3>1, <3>2
  <2>2. CASE Claim(c)
    <3>1. a \in Events /\ At(c, "verified") /\ ~kv[a]
      BY <2>0, <2>2 DEF Claim, At
    <3>2. UNCHANGED <<instances, fresh, marks>>
      BY <2>2 DEF Claim, message
    <3>3. kv' = [kv EXCEPT ![a] = TRUE]
      BY <2>2 DEF Claim
    <3>4. \A d \in Consumers : d # c => consumer'[d] = consumer[d]
      BY <2>2 DEF Claim, Hold, TypeOK
    <3>5. consumer'[c].pc = "claimed" /\ consumer'[c].event = a
      BY <2>2 DEF Claim, Hold, TypeOK
    <3>6. CASE e # a
      <4>1. kv'[e] = kv[e]
        BY <3>3, <3>6 DEF TypeOK
      <4>2. \A d \in Consumers : Holds(d, e)' => Holds(d, e)
        BY <3>4, <3>5, <3>6 DEF Holds, At
      <4>3. Quiet(e)
        BY <3>2, <3>4, <3>5, <3>6, <4>1, <4>2 DEF Quiet, At
      <4>4. QED
        BY <1>1, <4>3
    <3>7. CASE e = a
      <4>1. ~Guarded(e)
        BY <3>1, <3>7 DEF Guarded
      <4>2. ~Exceptional(e) => instances[e] = 0 /\ \A d \in Consumers : ~Holds(d, e)
        BY <1>0, <4>1 DEF DedupAt, TypeOK
      <4>3. Guarded(e)'
        BY <3>1, <3>3, <3>7 DEF Guarded, TypeOK
      <4>4. \A d \in Consumers : Holds(d, e)' => d = c \/ Holds(d, e)
        BY <3>4 DEF Holds, At
      <4>5. Exceptional(e)' <=> Exceptional(e)
        BY <3>2 DEF Exceptional
      <4>6. QED
        BY <3>2, <4>2, <4>3, <4>4, <4>5 DEF DedupAt
    <3>8. QED
      BY <3>6, <3>7
  <2>3. CASE ClaimUnavailable(c)
    <3>1. a \in Events
      BY <2>0, <2>3 DEF ClaimUnavailable, At
    <3>2. UNCHANGED <<kv, instances, fresh>> /\ marks' = [marks EXCEPT ![a] = @ \cup {"unguarded"}]
      BY <2>3 DEF ClaimUnavailable, Mark, message
    <3>3. \A d \in Consumers : d # c => consumer'[d] = consumer[d]
      BY <2>3 DEF ClaimUnavailable, Hold, TypeOK
    <3>4. consumer'[c].pc = "claimed" /\ consumer'[c].event = a
      BY <2>3 DEF ClaimUnavailable, Hold, TypeOK
    <3>5. CASE e # a
      <4>1. \A d \in Consumers : Holds(d, e)' => Holds(d, e)
        BY <3>3, <3>4, <3>5 DEF Holds, At
      <4>2. marks[e] \subseteq marks'[e]
        BY <3>2 DEF TypeOK
      <4>3. Quiet(e)
        BY <3>2, <3>3, <3>4, <3>5, <4>1, <4>2 DEF Quiet, At
      <4>4. QED
        BY <1>1, <4>3
    <3>6. CASE e = a
      <4>1. "unguarded" \in marks'[e]
        BY <3>1, <3>2, <3>6 DEF TypeOK
      <4>2. QED
        BY <4>1 DEF DedupAt, Exceptional
    <3>7. QED
      BY <3>5, <3>6
  <2>4. CASE CreateInstance(c)
    <3>1. a \in Events /\ Holds(c, a)
      BY <2>0, <2>4 DEF CreateInstance, Holds, At
    <3>2. UNCHANGED <<kv, fresh, marks>>
      BY <2>4 DEF CreateInstance, message
    <3>3. instances' = [instances EXCEPT ![a] = OneMore(@)]
      BY <2>4 DEF CreateInstance
    <3>4. \A d \in Consumers : d # c => consumer'[d] = consumer[d]
      BY <2>4 DEF CreateInstance, Goto, Move, TypeOK
    <3>5. consumer'[c].pc = "created" /\ consumer'[c].event = a
      BY <2>4 DEF CreateInstance, Goto, Move, TypeOK
    <3>6. \A d \in Consumers : Holds(d, e)' => Holds(d, e) /\ d # c
      BY <3>4, <3>5 DEF Holds, At
    <3>7. Guarded(e) => Guarded(e)'
      BY <3>2, <3>4, <3>5 DEF Guarded, At
    <3>8. Exceptional(e)' <=> Exceptional(e)
      BY <3>2 DEF Exceptional
    <3>9. CASE e # a
      <4>1. instances'[e] = instances[e]
        BY <3>3, <3>9 DEF TypeOK
      <4>2. QED
        BY <1>0, <3>6, <3>7, <3>8, <4>1 DEF DedupAt
    <3>10. CASE e = a
      <4>1. ~Exceptional(e) => instances[e] = 0 /\ Guarded(e) /\ \A d \in Consumers : Holds(d, e) => d = c
        BY <1>0, <3>1, <3>10 DEF DedupAt
      <4>2. instances[e] = 0 => instances'[e] = 1
        BY <3>1, <3>3, <3>10 DEF TypeOK, OneMore
      <4>3. QED
        BY <3>6, <3>7, <3>8, <4>1, <4>2 DEF DedupAt
    <3>11. QED
      BY <3>9, <3>10
  <2>5. CASE RaisesLate(c)
    <3>1. a \in Events
      BY <2>0, <2>5 DEF RaisesLate, At
    <3>2. CASE ~consumer[c].key
      BY <1>1, <2>5, <3>2, MoveQuiet DEF RaisesLate, message
    <3>3. CASE consumer[c].key
      <4>1. UNCHANGED <<kv, instances, fresh>> /\ marks' = [marks EXCEPT ![a] = @ \cup {"torn"}]
        BY <2>5, <3>3 DEF RaisesLate, Mark, message
      <4>2. \A d \in Consumers : d # c => consumer'[d] = consumer[d]
        BY <2>5 DEF RaisesLate, Move, TypeOK
      <4>3. consumer'[c].pc = "failing" /\ consumer'[c].event = a
        BY <2>5 DEF RaisesLate, Move, TypeOK
      <4>4. CASE e # a
        <5>1. \A d \in Consumers : Holds(d, e)' => Holds(d, e)
          BY <4>2, <4>3, <4>4 DEF Holds, At
        <5>2. marks[e] \subseteq marks'[e]
          BY <4>1 DEF TypeOK
        <5>3. Quiet(e)
          BY <4>1, <4>2, <4>3, <4>4, <5>1, <5>2 DEF Quiet, At
        <5>4. QED
          BY <1>1, <5>3
      <4>5. CASE e = a
        <5>1. "torn" \in marks'[e]
          BY <3>1, <4>1, <4>5 DEF TypeOK
        <5>2. QED
          BY <5>1 DEF DedupAt, Exceptional
      <4>6. QED
        BY <4>4, <4>5
    <3>4. QED
      BY <3>2, <3>3
  <2>6. CASE Release(c)
    <3>1. CASE kv' = kv
      BY <1>1, <2>6, <3>1, MoveQuiet DEF Release, Goto, message
    <3>2. CASE consumer[c].key /\ kv' = [kv EXCEPT ![a] = FALSE]
      <4>1. a \in Events /\ Holds(c, a)
        BY <2>0, <2>6, <3>2 DEF Release, Holds, At
      <4>2. UNCHANGED <<instances, fresh, marks>>
        BY <2>6 DEF Release, message
      <4>3. \A d \in Consumers : d # c => consumer'[d] = consumer[d]
        BY <2>6 DEF Release, Goto, Move, TypeOK
      <4>4. consumer'[c].pc = "dropping" /\ consumer'[c].event = a
        BY <2>6 DEF Release, Goto, Move, TypeOK
      <4>5. \A d \in Consumers : Holds(d, e)' => Holds(d, e) /\ d # c
        BY <4>3, <4>4 DEF Holds, At
      <4>6. Exceptional(e)' <=> Exceptional(e)
        BY <4>2 DEF Exceptional
      <4>7. CASE e # a
        <5>1. kv'[e] = kv[e]
          BY <3>2, <4>7 DEF TypeOK
        <5>2. Quiet(e)
          BY <4>2, <4>3, <4>4, <4>5, <5>1 DEF Quiet, At
        <5>3. QED
          BY <1>1, <5>2
      <4>8. CASE e = a
        <5>1. ~Exceptional(e) => instances[e] = 0 /\ \A d \in Consumers : Holds(d, e) => d = c
          BY <1>0, <4>1, <4>8 DEF DedupAt
        <5>2. QED
          BY <4>2, <4>5, <4>6, <5>1 DEF DedupAt
      <4>9. QED
        BY <4>7, <4>8
    <3>3. QED
      BY <2>6, <3>1, <3>2 DEF Release
  <2>7. CASE AuthenticateRaises(c) \/ Discard(c) \/ ReadForSuccess(c)
    BY <1>1, <2>7, MoveQuiet DEF AuthenticateRaises, Discard, ReadForSuccess, Goto, message
  <2>8. CASE \E failure \in START_FAILURES : StartFails(c, failure)
    BY <1>1, <2>8, MoveQuiet DEF StartFails, At, message
  <2>9. CASE ReadForFailure(c)
    BY <1>1, <2>9, MoveQuiet DEF ReadForFailure, At, message
  <2>10. CASE RecordRejection(c)
    <3>1. a \in Events
      BY <2>0, <2>10 DEF RecordRejection, At
    <3>2. marks[e] \subseteq marks'[e]
      BY <2>10, <3>1, AuditMarks DEF RecordRejection, Mark, TypeOK
    <3>3. QED
      BY <1>1, <2>10, <3>2, MoveQuiet DEF RecordRejection, Goto, message
  <2>11. CASE RecordDuplicate(c)
    <3>1. marks[e] \subseteq marks'[e]
      BY <2>0, <2>11, AuditMarks DEF RecordDuplicate, At
    <3>2. QED
      BY <1>1, <2>11, <3>1, MoveQuiet DEF RecordDuplicate, Goto, message
  <2>12. CASE CommitSuccess(c)
    <3>1. marks[e] \subseteq marks'[e]
      BY <2>0, <2>12, AuditMarks DEF CommitSuccess, At
    <3>2. QED
      BY <1>1, <2>12, <3>1, MoveQuiet DEF CommitSuccess, message
  <2>13. CASE RecordFailure(c)
    <3>1. marks[e] \subseteq marks'[e]
      BY <2>0, <2>13, AuditMarks DEF RecordFailure, At
    <3>2. QED
      BY <1>1, <2>13, <3>1, MoveQuiet DEF RecordFailure, At, message
  <2>14. CASE Drop(c) \/ Finish(c)
    BY <1>1, <2>14, IdleQuiet DEF Drop, Finish
  <2>15. QED
    BY <1>9, <2>1, <2>2, <2>3, <2>4, <2>5, <2>6, <2>7, <2>8, <2>9, <2>10, <2>11, <2>12,
       <2>13, <2>14 DEF ConsumerStep
<1>10. CASE UNCHANGED vars
  BY <1>1, <1>10, StillQuiet DEF vars, message
<1>11. QED
  BY <1>1, <1>2, <1>3, <1>4, <1>5, <1>6, <1>7, <1>8, <1>9, <1>10 DEF Next

\* In the initial state there is no instance and no owner.
LEMMA DedupInit == Init => DedupOK
BY TriggerAssumption DEF Init, DedupOK, DedupAt, Holds, At, Idle

\* At most one process instance per event for every number of events, consumers,
\* redeliveries and crashes: process_message's dedup key and freshness check together
\* exclude a second start, unless the bucket could not be asked or a call failed after
\* the engine had committed the instance.
THEOREM OneInstance == Spec => []OneInstancePerEvent
<1> DEFINE IInv == TypeOK /\ FramesOK /\ DedupOK
<1>1. Init => IInv
  BY TypeInit, DedupInit
<1>2. IInv /\ [Next]_vars => IInv'
  BY TypeStep, FramesStep, DedupStep
<1>3. IInv => OneInstancePerEvent
  BY DEF OneInstancePerEvent, DedupOK, DedupAt, TypeOK
<1>4. QED
  BY <1>1, <1>2, <1>3, PTL DEF Spec


\* What a step of one delivery leaves alone: the other deliveries, and everything that
\* belongs to another event.
Elsewhere(c) ==
    LET a == consumer[c].event IN
    /\ \A d \in Consumers : d # c => consumer'[d] = consumer[d]
    /\ consumer'[c].event = a \/ (consumer'[c].event = NoEvent /\ At(c, "idle")')
    /\ \A e \in Events : e # a =>
          /\ kv'[e] = kv[e] /\ stream'[e] = stream[e] /\ audit'[e] = audit[e]
          /\ marks'[e] = marks[e] /\ publisher'[e] = publisher[e]
          /\ instances'[e] = instances[e]
    /\ \A e \in Events :
          /\ marks[e] \subseteq marks'[e]
          /\ publisher'[e] = publisher[e] \/ publisher'[e] \in {"instance", "error"}
          /\ stream'[e] = stream[e] \/ stream'[e] = "acked"
    /\ fresh' = fresh

\* A delivery that moves on changes its own frame, and keeps its event and key.
LEMMA MoveFrame ==
  ASSUME TypeOK, NEW c \in Consumers, NEW pc, NEW outcome, NEW seen, Move(c, pc, outcome, seen)
  PROVE  /\ \A d \in Consumers : d # c => consumer'[d] = consumer[d]
         /\ consumer'[c].pc = pc /\ consumer'[c].event = consumer[c].event
         /\ consumer'[c].outcome = outcome /\ consumer'[c].seen = seen
BY DEF Move, TypeOK

\* The same for one that leaves what it carries alone.
LEMMA GotoFrame ==
  ASSUME TypeOK, NEW c \in Consumers, NEW pc, Goto(c, pc)
  PROVE  /\ \A d \in Consumers : d # c => consumer'[d] = consumer[d]
         /\ consumer'[c].pc = pc /\ consumer'[c].event = consumer[c].event
         /\ consumer'[c].outcome = consumer[c].outcome /\ consumer'[c].seen = consumer[c].seen
BY DEF Goto, Move, TypeOK

\* The same for one that takes the dedup key.
LEMMA HoldFrame ==
  ASSUME TypeOK, NEW c \in Consumers, Hold(c)
  PROVE  /\ \A d \in Consumers : d # c => consumer'[d] = consumer[d]
         /\ consumer'[c].pc = "claimed" /\ consumer'[c].event = consumer[c].event
         /\ consumer'[c].outcome = "none" /\ consumer'[c].seen = "none"
BY DEF Hold, TypeOK

\* The same for one that ends.
LEMMA IdleFrame ==
  ASSUME TypeOK, NEW c \in Consumers, consumer' = [consumer EXCEPT ![c] = Idle]
  PROVE  /\ \A d \in Consumers : d # c => consumer'[d] = consumer[d]
         /\ consumer'[c].pc = "idle" /\ consumer'[c].event = NoEvent
         /\ consumer'[c].outcome = "none" /\ consumer'[c].seen = "none"
BY DEF Idle, TypeOK

\* An audit write leaves the row and the history of every other event alone; it succeeds,
\* or the event is marked.
LEMMA AuditFrame ==
  ASSUME TypeOK, NEW a \in Events, NEW row, Audit(a, row)
  PROVE  /\ \A e \in Events : e # a => audit'[e] = audit[e] /\ marks'[e] = marks[e]
         /\ \A e \in Events : marks[e] \subseteq marks'[e]
         /\ audit'[a] = row \/ (audit'[a] = audit[a] /\ "unaudited" \in marks'[a])
BY DEF Audit, Mark, TypeOK

\* A mark is added to one event.
LEMMA MarkFrame ==
  ASSUME TypeOK, NEW a \in Events, NEW m, Mark(a, m)
  PROVE  /\ \A e \in Events : e # a => marks'[e] = marks[e]
         /\ \A e \in Events : marks[e] \subseteq marks'[e]
         /\ m \in marks'[a]
BY DEF Mark, TypeOK

\* A delivery that only moves on stays within its event.
LEMMA MoveElsewhere ==
  ASSUME TypeOK, NEW c \in Consumers, \A d \in Consumers : d # c => consumer'[d] = consumer[d],
         consumer'[c].event = consumer[c].event,
         publisher' = publisher, stream' = stream, fresh' = fresh,
         UNCHANGED <<kv, audit, instances, marks>>
  PROVE  Elsewhere(c)
<1>1. \A e \in Events : marks[e] \subseteq marks'[e]
  OBVIOUS
<1>2. QED
  BY <1>1 DEF Elsewhere

\* Every step of a delivery, and its death, stays within its event.
LEMMA StepElsewhere ==
  ASSUME TypeOK, FramesOK, NEW c \in Consumers, ConsumerStep(c) \/ Crash(c)
  PROVE  Elsewhere(c) /\ consumer[c].event \in Events
<1> DEFINE a == consumer[c].event
<1>0. a \in Events
  BY DEF FramesOK, ConsumerStep, At, Authenticate, AuthenticateRaises, RecordRejection,
     Claim, ClaimUnavailable, Discard, RecordDuplicate, CreateInstance, StartFails,
     RaisesLate, ReadForSuccess, CommitSuccess, ReadForFailure, RecordFailure, Release,
     Drop, Finish, Crash
<1>1. CASE Authenticate(c)
  BY <1>0, <1>1, MoveFrame, MoveElsewhere DEF Authenticate, sender, message
<1>2. CASE AuthenticateRaises(c)
  BY <1>0, <1>2, MoveFrame, MoveElsewhere DEF AuthenticateRaises, sender, message
<1>3. CASE RecordRejection(c)
  <2>1. CASE audit[a] = "none"
    BY <1>0, <1>3, <2>1, GotoFrame, AuditFrame DEF RecordRejection, Elsewhere, sender, message
  <2>2. CASE audit[a] # "none"
    <3>1. audit' = [audit EXCEPT ![a] = audit[a]] /\ Mark(a, "kept")
      BY <1>3, <2>2 DEF RecordRejection, Inserted
    <3>2. audit' = audit
      BY <1>0, <3>1 DEF TypeOK
    <3>3. QED
      BY <1>0, <1>3, <3>1, <3>2, GotoFrame, MarkFrame DEF RecordRejection, Elsewhere, sender, message
  <2>3. QED
    BY <2>1, <2>2
<1>4. CASE Claim(c)
  BY <1>0, <1>4, HoldFrame DEF Claim, Elsewhere, sender, message, TypeOK
<1>5. CASE ClaimUnavailable(c)
  BY <1>0, <1>5, HoldFrame, MarkFrame DEF ClaimUnavailable, Elsewhere, sender, message
<1>6. CASE Discard(c)
  BY <1>0, <1>6, GotoFrame, MoveElsewhere DEF Discard, sender, message
<1>7. CASE RecordDuplicate(c)
  BY <1>0, <1>7, GotoFrame, AuditFrame DEF RecordDuplicate, Elsewhere, sender, message
<1>8. CASE CreateInstance(c)
  BY <1>0, <1>8, GotoFrame DEF CreateInstance, Elsewhere, sender, message, TypeOK
<1>9. CASE \E failure \in START_FAILURES : StartFails(c, failure)
  BY <1>0, <1>9, MoveFrame, MoveElsewhere DEF StartFails, sender, message
<1>10. CASE RaisesLate(c)
  BY <1>0, <1>10, MoveFrame, MarkFrame DEF RaisesLate, Elsewhere, sender, message
<1>11. CASE ReadForSuccess(c)
  BY <1>0, <1>11, MoveFrame, MoveElsewhere DEF ReadForSuccess, sender, message
<1>12. CASE CommitSuccess(c)
  BY <1>0, <1>12, MoveFrame, AuditFrame DEF CommitSuccess, Elsewhere, sender, message
<1>13. CASE ReadForFailure(c)
  BY <1>0, <1>13, MoveFrame, MoveElsewhere DEF ReadForFailure, sender, message
<1>14. CASE RecordFailure(c)
  BY <1>0, <1>14, MoveFrame, AuditFrame DEF RecordFailure, Elsewhere, sender, message
<1>15. CASE Release(c)
  BY <1>0, <1>15, GotoFrame DEF Release, Elsewhere, sender, message, TypeOK
<1>16. CASE Drop(c)
  BY <1>0, <1>16, IdleFrame DEF Drop, Elsewhere, Reply, Ack, At, TypeOK
<1>17. CASE Finish(c)
  <2>1. Reply(a, "instance") \/ publisher' = publisher
    BY <1>17 DEF Finish
  <2>2. \A e \in Events :
           /\ e # a => publisher'[e] = publisher[e]
           /\ publisher'[e] = publisher[e] \/ publisher'[e] \in {"instance", "error"}
    BY <1>0, <2>1 DEF Reply, TypeOK
  <2>3. QED
    BY <1>0, <1>17, <2>2, IdleFrame DEF Finish, Elsewhere, Ack, At, TypeOK
<1>18. CASE Crash(c)
  <2>1. marks' = marks \/ Mark(a, "abandoned")
    BY <1>18 DEF Crash
  <2>2. QED
    BY <1>0, <1>18, <2>1, IdleFrame, MarkFrame DEF Crash, Elsewhere, At, sender, message
<1>19. QED
  BY <1>0, <1>1, <1>2, <1>3, <1>4, <1>5, <1>6, <1>7, <1>8, <1>9, <1>10, <1>11, <1>12, <1>13,
     <1>14, <1>15, <1>16, <1>17, <1>18 DEF ConsumerStep

\* What a publisher's step, a revocation or the passing of time leaves alone.
LEMMA OutsideFrame ==
  ASSUME TypeOK, NEW a \in Events,
         RecordQueued(a) \/ PublisherStep(a) \/ Revoke(a) \/ Age(a) \/ Forget(a) \/ Prune(a)
  PROVE  /\ consumer' = consumer /\ instances' = instances
         /\ \A e \in Events : e # a => /\ publisher'[e] = publisher[e] /\ stream'[e] = stream[e]
                                      /\ audit'[e] = audit[e]
         /\ \A e \in Events : /\ marks[e] \subseteq marks'[e]
                              /\ kv'[e] => kv[e]
                              /\ stream'[e] = "none" => stream[e] = "none"
                              /\ stream'[e] = "acked" => stream[e] = "acked"
                              /\ publisher'[e] = "idle" => publisher[e] = "idle"
<1>1. CASE RecordQueued(a)
  BY <1>1, AuditFrame DEF RecordQueued, message, TypeOK
<1>2. CASE Publish(a)
  BY <1>2 DEF Publish, TypeOK
<1>3. CASE PublishRaises(a)
  BY <1>3 DEF PublishRaises, TypeOK
<1>4. CASE PublisherReadsRow(a)
  BY <1>4 DEF PublisherReadsRow, message, TypeOK
<1>5. CASE PublisherWritesRow(a)
  BY <1>5, AuditFrame DEF PublisherWritesRow, message, TypeOK
<1>6. CASE ReplyTimeout(a)
  BY <1>6 DEF ReplyTimeout, message, TypeOK
<1>7. CASE Revoke(a) \/ Age(a)
  BY <1>7 DEF Revoke, Age, sender
<1>8. CASE Forget(a)
  BY <1>8 DEF Forget, sender, message, TypeOK
<1>9. CASE Prune(a)
  BY <1>9 DEF Prune, sender, message, TypeOK
<1>10. QED
  BY <1>1, <1>2, <1>3, <1>4, <1>5, <1>6, <1>7, <1>8, <1>9 DEF PublisherStep

\* Nothing happens to an event before its message exists.
LEMMA StartStep == TypeOK /\ FramesOK /\ StartOK /\ [Next]_vars => StartOK'
<1> SUFFICES ASSUME TypeOK, FramesOK, StartOK, [Next]_vars PROVE StartOK'
  OBVIOUS
<1>1. ASSUME NEW a \in Events,
             RecordQueued(a) \/ PublisherStep(a) \/ Revoke(a) \/ Age(a) \/ Forget(a) \/ Prune(a)
      PROVE  StartOK'
  <2> SUFFICES ASSUME NEW e \in Events
               PROVE  /\ publisher'[e] = "idle" => stream'[e] = "none"
                      /\ stream'[e] = "none" => ~kv'[e] /\ \A c \in Consumers : consumer'[c].event # e
    BY DEF StartOK
  <2>1. publisher'[a] # "idle" \/ (publisher' = publisher /\ stream' = stream)
    BY <1>1 DEF RecordQueued, PublisherStep, Publish, PublishRaises, PublisherReadsRow,
       PublisherWritesRow, ReplyTimeout, Revoke, Age, Forget, Prune, sender, message, TypeOK
  <2>2. QED
    BY <1>1, <2>1, OutsideFrame DEF StartOK
<1>2. ASSUME NEW c \in Consumers, NEW a \in Events, Receive(c, a) PROVE StartOK'
  <2>1. /\ UNCHANGED <<publisher, stream, kv>> /\ stream[a] = "pending"
        /\ consumer'[c].event = a /\ \A d \in Consumers : d # c => consumer'[d] = consumer[d]
    BY <1>2 DEF Receive, sender, message, TypeOK
  <2>2. QED
    BY <2>1 DEF StartOK
<1>3. ASSUME NEW c \in Consumers, ConsumerStep(c) \/ Crash(c) PROVE StartOK'
  <2> SUFFICES ASSUME NEW e \in Events
               PROVE  /\ publisher'[e] = "idle" => stream'[e] = "none"
                      /\ stream'[e] = "none" => ~kv'[e] /\ \A d \in Consumers : consumer'[d].event # e
    BY DEF StartOK
  <2>1. Elsewhere(c) /\ consumer[c].event \in Events
    BY <1>3, StepElsewhere
  <2>2. publisher[consumer[c].event] # "idle" /\ stream[consumer[c].event] # "none"
    BY <2>1 DEF StartOK
  <2>3. QED
    BY <2>1, <2>2, TriggerAssumption DEF Elsewhere, StartOK
<1>4. CASE UNCHANGED vars
  BY <1>4 DEF vars, sender, message, StartOK
<1>5. QED
  BY <1>1, <1>2, <1>3, <1>4 DEF Next

\* No write puts "queued" into a row that does not say so, except the publisher's first.
LEMMA NotRequeued ==
  ASSUME TypeOK, FramesOK, SeenOK, [Next]_vars, NEW e \in Events,
         audit'[e] = "queued", audit[e] # "queued"
  PROVE  RecordQueued(e)
<1>1. ASSUME NEW a \in Events, RecordQueued(a) PROVE a = e
  BY <1>1, OutsideFrame
<1>2. ASSUME NEW a \in Events, PublisherStep(a) \/ Revoke(a) \/ Age(a) \/ Forget(a) \/ Prune(a)
      PROVE  FALSE
  <2>1. a = e
    BY <1>2, OutsideFrame
  <2>2. CASE PublisherWritesRow(a)
    BY <2>1, <2>2, AuditFrame DEF PublisherWritesRow, Written
  <2>3. CASE Publish(a) \/ PublishRaises(a) \/ PublisherReadsRow(a) \/ ReplyTimeout(a)
    BY <2>3 DEF Publish, PublishRaises, PublisherReadsRow, ReplyTimeout
  <2>4. QED
    BY <1>2, <2>1, <2>2, <2>3 DEF PublisherStep, Revoke, Age, Forget, Prune, TypeOK
<1>3. ASSUME NEW c \in Consumers, ConsumerStep(c) \/ Crash(c) PROVE FALSE
  <2>0. Elsewhere(c) /\ consumer[c].event \in Events /\ consumer[c].event = e
    BY <1>3, StepElsewhere DEF Elsewhere
  <2>1. consumer[c].outcome # "queued"
    BY DEF SeenOK
  <2>2. ~RecordRejection(c)
    <3>1. SUFFICES ASSUME RecordRejection(c) PROVE FALSE
      OBVIOUS
    <3>2. audit'[e] = Inserted(audit[e], consumer[c].outcome) \/ audit'[e] = audit[e]
      BY <2>0, <3>1, AuditFrame DEF RecordRejection, TypeOK
    <3>3. QED
      BY <2>1, <3>2 DEF Inserted
  <2>3. ~RecordDuplicate(c)
    BY <2>0, AuditFrame DEF RecordDuplicate, Inserted
  <2>4. ~CommitSuccess(c)
    BY <2>0, AuditFrame DEF CommitSuccess, Written
  <2>5. ~RecordFailure(c)
    BY <2>0, <2>1, AuditFrame DEF RecordFailure, Written
  <2>6. QED
    BY <1>3, <2>2, <2>3, <2>4, <2>5 DEF ConsumerStep, Crash, Authenticate, AuthenticateRaises,
       Claim, ClaimUnavailable, Discard, CreateInstance, StartFails, RaisesLate,
       ReadForSuccess, ReadForFailure, Release, Drop, Finish
<1>4. ~UNCHANGED vars
  BY DEF vars
<1>5. ASSUME NEW c \in Consumers, NEW a \in Events, Receive(c, a) PROVE FALSE
  BY <1>5 DEF Receive
<1>6. QED
  BY <1>1, <1>2, <1>3, <1>4, <1>5 DEF Next

\* What a delivery read of the row stays as good as the row while it decides.
LEMMA SeenStep == TypeOK /\ FramesOK /\ StartOK /\ SeenOK /\ [Next]_vars => SeenOK'
<1> SUFFICES ASSUME TypeOK, FramesOK, StartOK, SeenOK, [Next]_vars, NEW d \in Consumers
             PROVE  /\ consumer'[d].outcome # "queued"
                    /\ At(d, "succeeding")' \/ At(d, "recording")' =>
                         consumer'[d].seen = "queued" \/ audit'[consumer'[d].event] # "queued"
  BY DEF SeenOK
<1>1. ASSUME consumer'[d] = consumer[d]
      PROVE  /\ consumer'[d].outcome # "queued"
             /\ At(d, "succeeding")' \/ At(d, "recording")' =>
                  consumer'[d].seen = "queued" \/ audit'[consumer'[d].event] # "queued"
  <2>1. At(d, "succeeding") \/ At(d, "recording") => consumer[d].event \in Events
    BY DEF FramesOK, At
  <2>2. consumer[d].event \in Events => ~RecordQueued(consumer[d].event)
    BY DEF RecordQueued, StartOK
  <2>3. QED
    BY <1>1, <2>1, <2>2, NotRequeued DEF SeenOK, At
<1>2. ASSUME NEW c \in Consumers, NEW a \in Events, Receive(c, a), c = d
      PROVE  consumer'[d].outcome # "queued" /\ ~At(d, "succeeding")' /\ ~At(d, "recording")'
  BY <1>2 DEF Receive, TypeOK, At
<1>3. ASSUME ConsumerStep(d) \/ Crash(d)
      PROVE  /\ consumer'[d].outcome # "queued"
             /\ At(d, "succeeding")' \/ At(d, "recording")' =>
                  consumer'[d].seen = "queued" \/ audit'[consumer'[d].event] # "queued"
  <2>0. consumer[d].outcome # "queued"
    BY DEF SeenOK
  <2>1. CASE Authenticate(d) \/ AuthenticateRaises(d)
    BY <2>1, MoveFrame DEF Authenticate, AuthenticateRaises, Rejection, At
  <2>2. CASE RecordRejection(d) \/ Discard(d) \/ RecordDuplicate(d) \/ CreateInstance(d) \/ Release(d)
    BY <2>0, <2>2, GotoFrame DEF RecordRejection, Discard, RecordDuplicate, CreateInstance, Release, At
  <2>3. CASE Claim(d) \/ ClaimUnavailable(d)
    BY <2>3, HoldFrame DEF Claim, ClaimUnavailable, At
  <2>4. CASE \E failure \in START_FAILURES : StartFails(d, failure)
    BY <2>4, MoveFrame DEF StartFails, START_FAILURES, At
  <2>5. CASE RaisesLate(d) \/ CommitSuccess(d) \/ RecordFailure(d)
    BY <2>0, <2>5, MoveFrame DEF RaisesLate, CommitSuccess, RecordFailure, At
  <2>6. CASE ReadForSuccess(d) \/ ReadForFailure(d)
    BY <2>0, <2>6, MoveFrame DEF ReadForSuccess, ReadForFailure, At
  <2>7. CASE Drop(d) \/ Finish(d) \/ Crash(d)
    BY <2>7, IdleFrame DEF Drop, Finish, Crash, At
  <2>8. QED
    BY <1>3, <2>1, <2>2, <2>3, <2>4, <2>5, <2>6, <2>7 DEF ConsumerStep
<1>4. ASSUME NEW c \in Consumers, ConsumerStep(c) \/ Crash(c), c # d PROVE consumer'[d] = consumer[d]
  BY <1>4, StepElsewhere DEF Elsewhere
<1>5. ASSUME NEW c \in Consumers, NEW a \in Events, Receive(c, a), c # d
      PROVE  consumer'[d] = consumer[d]
  BY <1>5 DEF Receive, TypeOK
<1>6. ASSUME NEW a \in Events,
             RecordQueued(a) \/ PublisherStep(a) \/ Revoke(a) \/ Age(a) \/ Forget(a) \/ Prune(a)
      PROVE  consumer'[d] = consumer[d]
  BY <1>6, OutsideFrame
<1>7. CASE UNCHANGED vars
  BY <1>1, <1>7 DEF vars
<1>8. QED
  BY <1>1, <1>2, <1>3, <1>4, <1>5, <1>6, <1>7 DEF Next

\* While the row of an event says queued, a delivery that settled that no other is needed
\* leaves one behind that has still to record the outcome.
InFlightAt(e) ==
    audit[e] = "queued" /\ ~Excused(e) /\ Settled(e) =>
        \E d \in Consumers : consumer[d].event = e /\ Unresolved(d)

\* A step that settles nothing and resolves nothing of an event.
Calm(e) ==
    /\ audit'[e] = "queued" => audit[e] = "queued"
    /\ marks[e] \subseteq marks'[e]
    /\ Settled(e)' => Settled(e)
    /\ \A d \in Consumers : consumer[d].event = e /\ Unresolved(d)
                                => consumer'[d].event = e /\ Unresolved(d)'

\* A calm step keeps the outcome in somebody's hands.
LEMMA CalmKeeps ==
  ASSUME NEW e \in Events, InFlightAt(e), Calm(e)
  PROVE  InFlightAt(e)'
BY DEF InFlightAt, Calm, Excused

\* A delivery's step within its event is calm when it settles nothing that was not settled
\* and the delivery had no outcome to record.
LEMMA CalmWithin ==
  ASSUME TypeOK, FramesOK, NEW c \in Consumers, Elsewhere(c), NEW e \in Events,
         audit'[e] = "queued" => audit[e] = "queued",
         Settled(e)' => Settled(e), ~Unresolved(c)
  PROVE  Calm(e)
<1>1. \A d \in Consumers : Unresolved(d) => d # c
  OBVIOUS
<1>2. \A d \in Consumers : d # c => (Unresolved(d) <=> Unresolved(d)')
  BY DEF Elsewhere, Unresolved, At
<1>3. QED
  BY <1>1, <1>2 DEF Elsewhere, Calm

\* Every step keeps it so.
LEMMA InFlightStep ==
  TypeOK /\ FramesOK /\ StartOK /\ SeenOK /\ InFlightOK /\ [Next]_vars => InFlightOK'
<1> SUFFICES ASSUME TypeOK, FramesOK, StartOK, SeenOK, InFlightOK, [Next]_vars, NEW e \in Events
             PROVE  InFlightAt(e)'
  BY DEF InFlightOK, InFlightAt
<1>0. InFlightAt(e)
  BY DEF InFlightOK, InFlightAt
<1>1. Calm(e) => InFlightAt(e)'
  BY <1>0, CalmKeeps
<1>2. ASSUME RecordQueued(e) PROVE InFlightAt(e)'
  <2>1. ~kv[e] /\ stream[e] = "none" /\ \A c \in Consumers : consumer[c].event # e
    BY <1>2 DEF RecordQueued, StartOK
  <2>2. ~Settled(e)'
    BY <1>2, <2>1 DEF RecordQueued, Settled, message
  <2>3. QED
    BY <2>2 DEF InFlightAt
<1>3. ASSUME NEW a \in Events, a # e \/ ~RecordQueued(e),
             RecordQueued(a) \/ PublisherStep(a) \/ Revoke(a) \/ Age(a) \/ Forget(a) \/ Prune(a)
      PROVE  Calm(e)
  <2>1. audit'[e] = "queued" => audit[e] = "queued"
    BY <1>3, OutsideFrame, NotRequeued
  <2>2. QED
    BY <1>3, <2>1, OutsideFrame DEF Calm, Settled, Unresolved, At
<1>4. ASSUME NEW c \in Consumers, NEW a \in Events, Receive(c, a) PROVE Calm(e)
  <2>1. /\ consumer[c].pc = "idle" /\ consumer'[c].pc = "received"
        /\ \A d \in Consumers : d # c => consumer'[d] = consumer[d]
    BY <1>4 DEF Receive, TypeOK, At
  <2>2. UNCHANGED <<kv, stream, audit, marks>>
    BY <1>4 DEF Receive, message
  <2>3. Settled(e)' => Settled(e)
    BY <2>1, <2>2 DEF Settled
  <2>4. QED
    BY <2>1, <2>2, <2>3 DEF Calm, Unresolved, At
<1>5. ASSUME NEW c \in Consumers, ConsumerStep(c) \/ Crash(c), consumer[c].event # e PROVE Calm(e)
  <2>1. Elsewhere(c)
    BY <1>5, StepElsewhere
  <2>2. consumer'[c].event # e
    BY <1>5, <2>1, TriggerAssumption DEF Elsewhere
  <2>3. Settled(e)' => Settled(e)
    BY <1>5, <2>1, <2>2 DEF Elsewhere, Settled
  <2>4. QED
    BY <1>5, <2>1, <2>3 DEF Elsewhere, Calm, Unresolved, At
<1>6. ASSUME NEW c \in Consumers, ConsumerStep(c) \/ Crash(c), consumer[c].event = e
      PROVE  InFlightAt(e)'
  <2>0. Elsewhere(c) /\ ~RecordQueued(e) /\ stream[e] # "none"
    BY <1>6, StepElsewhere DEF StartOK, RecordQueued
  <2>1. audit'[e] = "queued" => audit[e] = "queued"
    BY <2>0, NotRequeued
  <2>2. ASSUME Settled(e)' => Settled(e), ~Unresolved(c) PROVE InFlightAt(e)'
    BY <1>1, <2>0, <2>1, <2>2, CalmWithin
  <2>3. ASSUME consumer'[c].event = e, Unresolved(c)' PROVE InFlightAt(e)'
    BY <2>3 DEF InFlightAt
  <2>4. ASSUME audit'[e] # "queued" \/ Excused(e)' PROVE InFlightAt(e)'
    BY <2>4 DEF InFlightAt
  <2>5. ASSUME consumer'[c].event = e, consumer'[c].pc \in {"verified", "rejected"},
               UNCHANGED <<kv, stream>>
        PROVE  Settled(e)' => Settled(e)
    BY <2>0, <2>5 DEF Settled, Elsewhere
  <2>6. CASE Authenticate(c) \/ AuthenticateRaises(c)
    <3>1. consumer'[c].event = e /\ consumer'[c].pc \in {"verified", "rejected"}
      BY <1>6, <2>6, MoveFrame DEF Authenticate, AuthenticateRaises
    <3>2. ~Unresolved(c) /\ UNCHANGED <<kv, stream>>
      BY <2>6 DEF Authenticate, AuthenticateRaises, Unresolved, At, message
    <3>3. QED
      BY <2>2, <2>5, <3>1, <3>2
  <2>7. CASE RecordRejection(c)
    <3>1. CASE audit[e] = "none"
      BY <2>1, <2>4, <3>1
    <3>2. CASE audit[e] # "none"
      <4>1. "kept" \in marks'[e]
        BY <1>6, <2>7, <3>2, MarkFrame DEF RecordRejection
      <4>2. QED
        BY <2>4, <4>1 DEF Excused
    <3>3. QED
      BY <3>1, <3>2
  <2>8. CASE Claim(c) \/ ClaimUnavailable(c)
    BY <1>6, <2>3, <2>8, HoldFrame DEF Claim, ClaimUnavailable, Unresolved, At
  <2>9. CASE Discard(c) \/ RecordDuplicate(c) \/ Release(c)
    BY <1>6, <2>2, <2>9 DEF Discard, RecordDuplicate, Release, Settled, Unresolved, At
  <2>10. CASE CreateInstance(c)
    BY <1>6, <2>3, <2>10, GotoFrame DEF CreateInstance, Unresolved, At
  <2>11. CASE \E failure \in START_FAILURES : StartFails(c, failure)
    BY <1>6, <2>3, <2>11, MoveFrame DEF StartFails, Unresolved, At
  <2>12. CASE RaisesLate(c) \/ ReadForSuccess(c) \/ ReadForFailure(c)
    BY <1>6, <2>3, <2>12, MoveFrame DEF RaisesLate, ReadForSuccess, ReadForFailure, Unresolved, At
  <2>13. ASSUME NEW outcome, outcome # "queued",
                Audit(e, Written(audit[e], consumer[c].seen, outcome)),
                At(c, "succeeding") \/ At(c, "recording")
         PROVE  InFlightAt(e)'
    <3>1. CASE audit[e] # "queued"
      BY <2>1, <2>4, <3>1
    <3>2. CASE audit[e] = "queued"
      <4>1. consumer[c].seen = "queued"
        BY <1>6, <2>13, <3>2 DEF SeenOK
      <4>2. Written(audit[e], consumer[c].seen, outcome) = outcome
        BY <2>13, <3>2, <4>1 DEF Written, MayOverwrite
      <4>3. audit'[e] # "queued" \/ "unaudited" \in marks'[e]
        BY <2>13, <4>2, AuditFrame
      <4>4. QED
        BY <2>4, <4>3 DEF Excused
    <3>3. QED
      BY <3>1, <3>2
  <2>14. CASE CommitSuccess(c)
    BY <1>6, <2>13, <2>14 DEF CommitSuccess
  <2>15. CASE RecordFailure(c)
    BY <1>6, <2>13, <2>15 DEF RecordFailure, SeenOK
  <2>16. CASE Drop(c) \/ Finish(c)
    BY <1>6, <2>2, <2>16 DEF Drop, Finish, Settled, Unresolved, At
  <2>17. CASE Crash(c)
    <3>1. CASE Unresolved(c)
      BY <1>6, <2>4, <2>17, <3>1, MarkFrame DEF Crash, Excused
    <3>2. CASE ~Unresolved(c)
      <4>1. consumer'[c].event # e /\ UNCHANGED <<kv, stream>>
        BY <2>17, IdleFrame, TriggerAssumption DEF Crash, message
      <4>2. Settled(e)' => Settled(e)
        BY <2>0, <4>1 DEF Settled, Elsewhere
      <4>3. QED
        BY <2>2, <3>2, <4>2
    <3>3. QED
      BY <3>1, <3>2
  <2>18. QED
    BY <1>6, <2>6, <2>7, <2>8, <2>9, <2>10, <2>11, <2>12, <2>14, <2>15, <2>16, <2>17
       DEF ConsumerStep
<1>7. CASE UNCHANGED vars
  BY <1>1, <1>7 DEF vars, message, Calm, Settled, Unresolved, At
<1>8. QED
  BY <1>1, <1>2, <1>3, <1>4, <1>5, <1>6, <1>7 DEF Next

\* In the initial state nothing has been queued.
LEMMA BacklogInit == Init => StartOK /\ SeenOK /\ InFlightOK
BY TriggerAssumption DEF Init, StartOK, SeenOK, InFlightOK, At, Idle

\* The backlog is honest for every number of events, consumers and faults: when the stream
\* has forgotten a message whose row still says queued, another delivery of process_message
\* is on its way to the outcome, or its consumer died, its audit write was lost or a
\* rejection left the row alone.
THEOREM BacklogIsHonest == Spec => []QueuedIsInFlight
<1> DEFINE IInv == TypeOK /\ FramesOK /\ StartOK /\ SeenOK /\ InFlightOK
<1>1. Init => IInv
  BY TypeInit, BacklogInit
<1>2. IInv /\ [Next]_vars => IInv'
  BY TypeStep, FramesStep, StartStep, SeenStep, InFlightStep
<1>3. IInv => QueuedIsInFlight
  BY DEF QueuedIsInFlight, InFlightOK, Excused, Settled
<1>4. QED
  BY <1>1, <1>2, <1>3, PTL DEF Spec

\* A delivery with a failure to record has one, and a delivery past the engine's commit has
\* an instance.
LEMMA OutcomeStep == TypeOK /\ FramesOK /\ OutcomeOK /\ [Next]_vars /\ ~MayRaise => OutcomeOK'
<1> SUFFICES ASSUME TypeOK, FramesOK, OutcomeOK, [Next]_vars, ~MayRaise, NEW d \in Consumers
             PROVE  /\ At(d, "rejected")' \/ At(d, "failing")' \/ At(d, "recording")' =>
                          consumer'[d].outcome \in FAILURE_OUTCOMES
                    /\ At(d, "created")' \/ At(d, "succeeding")' => instances'[consumer'[d].event] > 0
  BY DEF OutcomeOK
<1> DEFINE Fine == /\ At(d, "rejected")' \/ At(d, "failing")' \/ At(d, "recording")' =>
                            consumer'[d].outcome \in FAILURE_OUTCOMES
                   /\ At(d, "created")' \/ At(d, "succeeding")' => instances'[consumer'[d].event] > 0
<1>0. /\ At(d, "rejected") \/ At(d, "failing") \/ At(d, "recording") =>
           consumer[d].outcome \in FAILURE_OUTCOMES
      /\ At(d, "created") \/ At(d, "succeeding") => instances[consumer[d].event] > 0
      /\ ~At(d, "idle") => consumer[d].event \in Events
  BY DEF OutcomeOK, FramesOK
<1>1. ASSUME consumer'[d] = consumer[d], instances' = instances PROVE Fine
  BY <1>0, <1>1 DEF At
<1>2. ASSUME NEW c \in Consumers, NEW a \in Events, Receive(c, a) PROVE Fine
  <2>1. CASE c = d
    BY <1>2, <2>1 DEF Receive, TypeOK, At
  <2>2. CASE c # d
    BY <1>1, <1>2, <2>2 DEF Receive, TypeOK
  <2>3. QED
    BY <2>1, <2>2
<1>3. ASSUME NEW c \in Consumers, ConsumerStep(c) \/ Crash(c), c # d PROVE Fine
  <2>1. consumer'[d] = consumer[d]
    BY <1>3, StepElsewhere DEF Elsewhere
  <2>2. \A e \in Events : instances[e] > 0 => instances'[e] > 0
    <3>1. instances' = instances \/ instances' = [instances EXCEPT ![consumer[c].event] = OneMore(@)]
      BY <1>3 DEF ConsumerStep, Crash, Authenticate, AuthenticateRaises, RecordRejection, Claim,
         ClaimUnavailable, Discard, RecordDuplicate, CreateInstance, StartFails, RaisesLate,
         ReadForSuccess, CommitSuccess, ReadForFailure, RecordFailure, Release, Drop, Finish
    <3>2. QED
      BY <3>1 DEF TypeOK, OneMore
  <2>3. QED
    BY <1>0, <2>1, <2>2 DEF At
<1>4. ASSUME ConsumerStep(d) \/ Crash(d) PROVE Fine
  <2>1. CASE Authenticate(d) \/ AuthenticateRaises(d)
    BY <2>1, MoveFrame DEF Authenticate, AuthenticateRaises, Rejection, FAILURE_OUTCOMES,
       START_FAILURES, REJECTIONS, At
  <2>2. CASE RecordRejection(d) \/ Discard(d) \/ RecordDuplicate(d) \/ Release(d)
    BY <2>2, GotoFrame DEF RecordRejection, Discard, RecordDuplicate, Release, At
  <2>3. CASE Claim(d) \/ ClaimUnavailable(d)
    BY <2>3, HoldFrame DEF Claim, ClaimUnavailable, At
  <2>4. CASE CreateInstance(d)
    <3>1. consumer[d].event \in Events
      BY <1>0, <2>4 DEF CreateInstance, At
    <3>2. consumer'[d].pc = "created" /\ consumer'[d].event = consumer[d].event
      BY <2>4, GotoFrame DEF CreateInstance
    <3>3. instances'[consumer[d].event] > 0
      BY <2>4, <3>1 DEF CreateInstance, OneMore, TypeOK
    <3>4. QED
      BY <3>2, <3>3 DEF At
  <2>5. CASE \E failure \in START_FAILURES : StartFails(d, failure)
    BY <2>5, MoveFrame DEF StartFails, FAILURE_OUTCOMES, At
  <2>6. CASE RaisesLate(d)
    BY <2>6, MoveFrame DEF RaisesLate, FAILURE_OUTCOMES, START_FAILURES, At
  <2>7. CASE ReadForSuccess(d)
    BY <1>0, <2>7, MoveFrame DEF ReadForSuccess, At
  <2>8. CASE ReadForFailure(d)
    BY <1>0, <2>8, MoveFrame DEF ReadForFailure, At
  <2>9. CASE CommitSuccess(d) \/ RecordFailure(d)
    BY <2>9, MoveFrame DEF CommitSuccess, RecordFailure, At
  <2>10. CASE Drop(d) \/ Finish(d) \/ Crash(d)
    BY <2>10, IdleFrame DEF Drop, Finish, Crash, At
  <2>11. QED
    BY <1>4, <2>1, <2>2, <2>3, <2>4, <2>5, <2>6, <2>7, <2>8, <2>9, <2>10 DEF ConsumerStep
<1>5. ASSUME NEW a \in Events,
             RecordQueued(a) \/ PublisherStep(a) \/ Revoke(a) \/ Age(a) \/ Forget(a) \/ Prune(a)
      PROVE  Fine
  BY <1>1, <1>5, OutsideFrame
<1>6. CASE UNCHANGED vars
  BY <1>1, <1>6 DEF vars
<1>7. QED
  BY <1>2, <1>3, <1>4, <1>5, <1>6 DEF Next

\* Where publish does not raise after the stream took the message, what the stream has not
\* taken stays unsent.
LEMMA UnsentStep ==
  TypeOK /\ FramesOK /\ StartOK /\ UnsentOK /\ [Next]_vars /\ ~MayRaise => UnsentOK'
<1> SUFFICES ASSUME TypeOK, FramesOK, StartOK, UnsentOK, [Next]_vars, ~MayRaise, NEW e \in Events
             PROVE  /\ publisher'[e] \in {"idle", "queued", "raised", "recording"} => stream'[e] = "none"
                    /\ stream'[e] = "none" => audit'[e] # "instantiated"
  BY DEF UnsentOK
<1> DEFINE Fine == /\ publisher'[e] \in {"idle", "queued", "raised", "recording"} => stream'[e] = "none"
                   /\ stream'[e] = "none" => audit'[e] # "instantiated"
<1>0. /\ publisher[e] \in {"idle", "queued", "raised", "recording"} => stream[e] = "none"
      /\ stream[e] = "none" => audit[e] # "instantiated"
      /\ stream[e] = "none" => \A c \in Consumers : consumer[c].event # e
  BY DEF UnsentOK, StartOK
<1>1. ASSUME NEW a \in Events, RecordQueued(a) PROVE Fine
  BY <1>0, <1>1, AuditFrame DEF RecordQueued, Inserted, message, TypeOK
<1>2. ASSUME NEW a \in Events, PublisherStep(a) PROVE Fine
  <2>1. CASE Publish(a)
    BY <1>0, <2>1 DEF Publish, TypeOK
  <2>2. CASE PublishRaises(a)
    BY <1>0, <2>2 DEF PublishRaises, TypeOK
  <2>3. CASE PublisherReadsRow(a)
    BY <1>0, <2>3 DEF PublisherReadsRow, message, TypeOK
  <2>4. CASE PublisherWritesRow(a)
    BY <1>0, <2>4, AuditFrame DEF PublisherWritesRow, Written, message, TypeOK
  <2>5. CASE ReplyTimeout(a)
    BY <1>0, <2>5 DEF ReplyTimeout, message, TypeOK
  <2>6. QED
    BY <1>2, <2>1, <2>2, <2>3, <2>4, <2>5 DEF PublisherStep
<1>3. ASSUME NEW a \in Events, Revoke(a) \/ Age(a) \/ Forget(a) \/ Prune(a) PROVE Fine
  BY <1>0, <1>3 DEF Revoke, Age, Forget, Prune, sender, message, TypeOK
<1>4. ASSUME NEW c \in Consumers, ConsumerStep(c) \/ Crash(c) PROVE Fine
  BY <1>0, <1>4, StepElsewhere DEF Elsewhere
<1>5. ASSUME NEW c \in Consumers, NEW a \in Events, Receive(c, a) PROVE Fine
  BY <1>0, <1>5 DEF Receive, sender, message
<1>6. CASE UNCHANGED vars
  BY <1>0, <1>6 DEF vars, sender, message
<1>7. QED
  BY <1>1, <1>2, <1>3, <1>4, <1>5, <1>6 DEF Next

\* One delivery at a time holds the key of an event, from the claim until it lets go, and
\* none once the success is recorded.
OwnerAt(e) ==
    /\ \A c \in Consumers : Owns(c, e) => Guarded(e) /\ audit[e] # "instantiated"
    /\ \A c, d \in Consumers : Owns(c, e) /\ Owns(d, e) => c = d
    /\ audit[e] = "instantiated" => Guarded(e)

\* A step that makes no delivery the owner, lets nobody past the freshness check, records
\* no success and takes no key away.
Tame(e) ==
    /\ audit'[e] = "instantiated" => audit[e] = "instantiated"
    /\ Guarded(e) => Guarded(e)'
    /\ \A c \in Consumers : Owns(c, e)' => Owns(c, e)

\* A tame step keeps the owner.
LEMMA TameKeeps == ASSUME NEW e \in Events, OwnerAt(e), Tame(e) PROVE OwnerAt(e)'
BY DEF OwnerAt, Tame

\* A delivery's step that is not a claim, a passed freshness check or a release keeps the
\* event guarded, and makes nobody else the owner.
LEMMA GuardWithin ==
  ASSUME NEW c \in Consumers, Elsewhere(c), NEW e \in Events,
         At(c, "verified")' => At(c, "verified") \/ fresh[e], kv'[e] = kv[e]
  PROVE  /\ Guarded(e) => Guarded(e)'
         /\ \A d \in Consumers : d # c => (Owns(d, e)' <=> Owns(d, e))
<1>1. consumer'[c].event = e => consumer[c].event = e \/ ~At(c, "verified")'
  BY DEF Elsewhere, At
<1>2. Guarded(e) => Guarded(e)'
  BY <1>1 DEF Elsewhere, Guarded, At
<1>3. \A d \in Consumers : d # c => (Owns(d, e)' <=> Owns(d, e))
  BY DEF Elsewhere, Owns, Unresolved, At
<1>4. QED
  BY <1>2, <1>3

\* Every step keeps the owner, where the bucket answers and no ack raises.
LEMMA OwnerStep ==
  TypeOK /\ FramesOK /\ StartOK /\ UnsentOK /\ OutcomeOK /\ OwnerOK /\ [Next]_vars
    /\ ~MayRaise /\ ~MayLoseKV => OwnerOK'
<1> SUFFICES ASSUME TypeOK, FramesOK, StartOK, UnsentOK, OutcomeOK, OwnerOK, [Next]_vars,
                    ~MayRaise, ~MayLoseKV, NEW e \in Events
             PROVE  OwnerAt(e)'
  BY DEF OwnerOK, OwnerAt
<1>0. OwnerAt(e)
  BY DEF OwnerOK, OwnerAt
<1>1. Tame(e) => OwnerAt(e)'
  BY <1>0, TameKeeps
<1>2. ASSUME NEW a \in Events,
             RecordQueued(a) \/ PublisherStep(a) \/ Revoke(a) \/ Age(a) \/ Forget(a) \/ Prune(a)
      PROVE  Tame(e)
  <2>1. audit'[e] = "instantiated" => audit[e] = "instantiated"
    <3>1. CASE RecordQueued(a)
      BY <3>1, AuditFrame DEF RecordQueued, Inserted
    <3>2. CASE PublisherWritesRow(a)
      BY <3>2, AuditFrame DEF PublisherWritesRow, Written
    <3>3. CASE Publish(a) \/ PublishRaises(a) \/ PublisherReadsRow(a) \/ ReplyTimeout(a)
      BY <3>3 DEF Publish, PublishRaises, PublisherReadsRow, ReplyTimeout
    <3>4. QED
      BY <1>2, <3>1, <3>2, <3>3 DEF PublisherStep, Revoke, Age, Forget, Prune, TypeOK
  <2>2. consumer' = consumer
    BY <1>2, OutsideFrame
  <2>3. Guarded(e) => Guarded(e)'
    <3>1. CASE Forget(a)
      BY <2>2, <3>1 DEF Forget, Guarded, At, message, TypeOK
    <3>2. CASE Age(a)
      BY <2>2, <3>2 DEF Age, Guarded, At, TypeOK
    <3>3. CASE RecordQueued(a) \/ PublisherStep(a) \/ Revoke(a) \/ Prune(a)
      <4>1. kv' = kv /\ fresh' = fresh
        BY <3>3 DEF RecordQueued, PublisherStep, Publish, PublishRaises, PublisherReadsRow,
           PublisherWritesRow, ReplyTimeout, Revoke, Prune, message
      <4>2. QED
        BY <2>2, <4>1 DEF Guarded, At
    <3>4. QED
      BY <1>2, <3>1, <3>2, <3>3
  <2>4. QED
    BY <2>1, <2>2, <2>3 DEF Tame, Owns, Unresolved, At
<1>3. ASSUME NEW c \in Consumers, NEW a \in Events, Receive(c, a) PROVE Tame(e)
  <2>1. /\ consumer'[c].pc = "received"
        /\ \A d \in Consumers : d # c => consumer'[d] = consumer[d]
        /\ UNCHANGED <<kv, fresh, audit>>
    BY <1>3 DEF Receive, TypeOK, message
  <2>2. QED
    BY <2>1 DEF Tame, Guarded, Owns, Unresolved, At
<1>4. ASSUME NEW c \in Consumers, ConsumerStep(c) \/ Crash(c), consumer[c].event # e PROVE Tame(e)
  <2>1. Elsewhere(c)
    BY <1>4, StepElsewhere
  <2>2. consumer'[c].event # e
    BY <1>4, <2>1, TriggerAssumption DEF Elsewhere
  <2>3. QED
    BY <1>4, <2>1, <2>2 DEF Elsewhere, Tame, Guarded, Owns, Unresolved, At
<1>5. ASSUME NEW c \in Consumers, ConsumerStep(c) \/ Crash(c), consumer[c].event = e
      PROVE  OwnerAt(e)'
  <2>0. Elsewhere(c)
    BY <1>5, StepElsewhere
  <2>1. ASSUME At(c, "verified")' => At(c, "verified") \/ fresh[e], kv'[e] = kv[e],
               audit'[e] = "instantiated" => audit[e] = "instantiated",
               Owns(c, e)' => Owns(c, e)
        PROVE  OwnerAt(e)'
    BY <1>1, <2>0, <2>1, GuardWithin DEF Tame
  <2>2. CASE Authenticate(c)
    <3>1. consumer'[c].pc = "verified" \/ consumer'[c].pc = "rejected"
      BY <2>2, MoveFrame DEF Authenticate
    <3>2. consumer'[c].pc = "verified" => fresh[e]
      BY <1>5, <2>2, MoveFrame DEF Authenticate, Rejection
    <3>3. QED
      BY <2>1, <2>2, <3>1, <3>2 DEF Authenticate, Owns, Unresolved, At
  <2>3. CASE AuthenticateRaises(c)
    BY <2>1, <2>3, MoveFrame DEF AuthenticateRaises, Owns, Unresolved, At
  <2>4. CASE RecordRejection(c)
    <3>1. consumer[c].outcome # "instantiated"
      BY <2>4 DEF RecordRejection, OutcomeOK, FAILURE_OUTCOMES, START_FAILURES, REJECTIONS
    <3>2. audit'[e] = "instantiated" => audit[e] = "instantiated"
      BY <1>5, <2>4, <3>1, AuditFrame DEF RecordRejection, Inserted, TypeOK
    <3>3. QED
      BY <2>1, <2>4, <3>2, GotoFrame DEF RecordRejection, Owns, Unresolved, At
  <2>5. CASE Claim(c)
    <3>1. At(c, "verified") /\ ~kv[e] /\ kv'[e] /\ audit' = audit
      BY <1>5, <2>5 DEF Claim, TypeOK
    <3>2. ~Guarded(e)
      BY <1>5, <3>1 DEF Guarded
    <3>3. audit[e] # "instantiated" /\ \A d \in Consumers : ~Owns(d, e)
      BY <1>0, <3>2 DEF OwnerAt
    <3>4. \A d \in Consumers : Owns(d, e)' => d = c
      BY <2>0, <3>3 DEF Elsewhere, Owns, Unresolved, At
    <3>5. Guarded(e)'
      BY <3>1 DEF Guarded
    <3>6. QED
      BY <3>1, <3>3, <3>4, <3>5 DEF OwnerAt
  <2>6. CASE ClaimUnavailable(c)
    BY <2>6 DEF ClaimUnavailable
  <2>7. CASE Discard(c)
    BY <2>1, <2>7, GotoFrame DEF Discard, Owns, Unresolved, At
  <2>8. CASE RecordDuplicate(c)
    <3>1. audit'[e] = "instantiated" => audit[e] = "instantiated"
      BY <1>5, <2>8, AuditFrame DEF RecordDuplicate, Inserted
    <3>2. QED
      BY <2>1, <2>8, <3>1, GotoFrame DEF RecordDuplicate, Owns, Unresolved, At
  <2>9. CASE CreateInstance(c)
    <3>1. Owns(c, e) /\ ~At(c, "verified")'
      BY <1>5, <2>9, GotoFrame DEF CreateInstance, Owns, Unresolved, At
    <3>2. QED
      BY <2>1, <2>9, <3>1 DEF CreateInstance
  <2>10. CASE \E failure \in START_FAILURES : StartFails(c, failure)
    <3>1. Owns(c, e) /\ ~At(c, "verified")'
      BY <1>5, <2>10, MoveFrame DEF StartFails, Owns, Unresolved, At
    <3>2. QED
      BY <2>1, <2>10, <3>1 DEF StartFails
  <2>11. CASE RaisesLate(c)
    <3>1. Owns(c, e) /\ ~At(c, "verified")'
      BY <1>5, <2>11, MoveFrame DEF RaisesLate, Owns, Unresolved, At
    <3>2. QED
      BY <2>1, <2>11, <3>1 DEF RaisesLate
  <2>12. CASE ReadForSuccess(c) \/ ReadForFailure(c)
    <3>1. Owns(c, e) /\ ~At(c, "verified")'
      BY <1>5, <2>12, MoveFrame DEF ReadForSuccess, ReadForFailure, Owns, Unresolved, At
    <3>2. QED
      BY <2>1, <2>12, <3>1 DEF ReadForSuccess, ReadForFailure
  <2>13. CASE CommitSuccess(c)
    <3>1. Owns(c, e) /\ ~At(c, "verified")' /\ ~Owns(c, e)' /\ kv' = kv
      BY <1>5, <2>13, MoveFrame DEF CommitSuccess, Owns, Unresolved, At
    <3>2. Guarded(e) /\ \A d \in Consumers : d # c => ~Owns(d, e)
      BY <1>0, <3>1 DEF OwnerAt
    <3>3. Guarded(e)' /\ \A d \in Consumers : d # c => (Owns(d, e)' <=> Owns(d, e))
      BY <2>0, <3>1, <3>2, GuardWithin
    <3>4. QED
      BY <3>1, <3>2, <3>3 DEF OwnerAt
  <2>14. CASE RecordFailure(c)
    <3>1. Owns(c, e) /\ ~At(c, "verified")'
      BY <1>5, <2>14, MoveFrame DEF RecordFailure, Owns, Unresolved, At
    <3>2. consumer[c].outcome # "instantiated" /\ audit[e] # "instantiated"
      BY <1>0, <2>14, <3>1 DEF RecordFailure, OutcomeOK, OwnerAt, FAILURE_OUTCOMES,
         START_FAILURES, REJECTIONS
    <3>3. audit'[e] # "instantiated"
      BY <1>5, <2>14, <3>2, AuditFrame DEF RecordFailure, Written
    <3>4. QED
      BY <2>1, <2>14, <3>1, <3>3 DEF RecordFailure
  <2>15. CASE Release(c)
    <3>1. Owns(c, e) /\ ~At(c, "verified")' /\ ~Owns(c, e)' /\ audit' = audit
      BY <1>5, <2>15, GotoFrame DEF Release, Owns, Unresolved, At
    <3>2. audit[e] # "instantiated" /\ \A d \in Consumers : d # c => ~Owns(d, e)
      BY <1>0, <3>1 DEF OwnerAt
    <3>3. \A d \in Consumers : ~Owns(d, e)'
      BY <2>0, <3>1, <3>2 DEF Elsewhere, Owns, Unresolved, At
    <3>4. QED
      BY <3>1, <3>2, <3>3 DEF OwnerAt
  <2>16. CASE Drop(c) \/ Finish(c) \/ Crash(c)
    <3>1. consumer'[c].pc = "idle" /\ kv' = kv /\ audit' = audit
      BY <2>16, IdleFrame DEF Drop, Finish, Crash
    <3>2. QED
      BY <2>1, <3>1 DEF Owns, Unresolved, At
  <2>17. QED
    BY <1>5, <2>2, <2>3, <2>4, <2>5, <2>6, <2>7, <2>8, <2>9, <2>10, <2>11, <2>12, <2>13,
       <2>14, <2>15, <2>16 DEF ConsumerStep
<1>6. CASE UNCHANGED vars
  BY <1>1, <1>6 DEF vars, message, Tame, Guarded, Owns, Unresolved, At
<1>7. QED
  BY <1>1, <1>2, <1>3, <1>4, <1>5, <1>6 DEF Next

\* In the initial state nobody holds a key and nothing is sent.
LEMMA OwnerInit == Init => UnsentOK /\ OutcomeOK /\ OwnerOK
BY TriggerAssumption DEF Init, UnsentOK, OutcomeOK, OwnerOK, Owns, Unresolved, Guarded, At, Idle

\* A step that writes at most the row of one event, and in one of the ways the audit table
\* promises, and starts no instance, is a step of the audit table.
LEMMA RowStep ==
  ASSUME TypeOK, NEW e \in Events, instances' = instances, NEW row,
         audit' = audit \/ audit' = [audit EXCEPT ![e] = row],
         \/ row = audit[e]
         \/ audit[e] = "none" /\ row = "queued"
         \/ instances[e] > 0 /\ row = "instantiated"
         \/ audit[e] # "instantiated" /\ row \in FAILURE_OUTCOMES \cup {"duplicate"}
         \/ audit[e] \notin {"none", "queued"} /\ row = "none"
  PROVE  AT!TrailNext \/ UNCHANGED AT!trail
<1> DEFINE begun == [x \in Events |-> instances[x] > 0]
<1>1. begun' = begun
  OBVIOUS
<1>2. CASE audit' = audit
  BY <1>1, <1>2 DEF AT!trail
<1>3. CASE audit' = [audit EXCEPT ![e] = row]
  <2>1. CASE row = audit[e]
    <3>1. audit' = audit
      BY <1>3, <2>1 DEF TypeOK
    <3>2. QED
      BY <1>2, <3>1
  <2>2. CASE audit[e] = "none" /\ row = "queued"
    BY <1>1, <1>3, <2>2 DEF AT!TrailNext, AT!Queue
  <2>3. CASE instances[e] > 0 /\ row = "instantiated"
    BY <1>1, <1>3, <2>3 DEF AT!TrailNext, AT!Succeed
  <2>4. CASE audit[e] # "instantiated" /\ row \in FAILURE_OUTCOMES \cup {"duplicate"}
    BY <1>1, <1>3, <2>4 DEF AT!TrailNext, AT!Fail
  <2>5. CASE audit[e] \notin {"none", "queued"} /\ row = "none"
    BY <1>1, <1>3, <2>5 DEF AT!TrailNext, AT!Prune
  <2>6. QED
    BY <2>1, <2>2, <2>3, <2>4, <2>5
<1>4. QED
  BY <1>2, <1>3

\* Every step of publisher, consumers, stream and pruning job is a step of the audit table
\* or leaves it alone.
LEMMA TrailStep ==
  TypeOK /\ FramesOK /\ StartOK /\ UnsentOK /\ OutcomeOK /\ OwnerOK /\ [Next]_vars
    /\ ~MayRaise /\ ~MayLoseKV => AT!TrailNext \/ UNCHANGED AT!trail
<1> SUFFICES ASSUME TypeOK, FramesOK, StartOK, UnsentOK, OutcomeOK, OwnerOK, [Next]_vars,
                    ~MayRaise, ~MayLoseKV
             PROVE  AT!TrailNext \/ UNCHANGED AT!trail
  OBVIOUS
<1>1. ASSUME audit' = audit, instances' = instances PROVE AT!TrailNext \/ UNCHANGED AT!trail
  BY <1>1 DEF AT!trail
<1>2. ASSUME NEW e \in Events, NEW row, Audit(e, row), instances' = instances,
             \/ row = audit[e]
             \/ audit[e] = "none" /\ row = "queued"
             \/ instances[e] > 0 /\ row = "instantiated"
             \/ audit[e] # "instantiated" /\ row \in FAILURE_OUTCOMES \cup {"duplicate"}
      PROVE  AT!TrailNext \/ UNCHANGED AT!trail
  BY <1>2, RowStep DEF Audit
<1>3. ASSUME NEW e \in Events, RecordQueued(e) PROVE AT!TrailNext \/ UNCHANGED AT!trail
  <2>1. Inserted(audit[e], "queued") = audit[e] \/ (audit[e] = "none" /\ Inserted(audit[e], "queued") = "queued")
    BY DEF Inserted
  <2>2. QED
    BY <1>2, <1>3, <2>1 DEF RecordQueued
<1>4. ASSUME NEW e \in Events, PublisherStep(e) PROVE AT!TrailNext \/ UNCHANGED AT!trail
  <2>1. CASE PublisherWritesRow(e)
    <3>1. audit[e] # "instantiated"
      BY <2>1 DEF PublisherWritesRow, UnsentOK
    <3>2. Written(audit[e], published[e], "transient_error") \in {audit[e], "transient_error"}
      BY DEF Written
    <3>3. QED
      BY <1>2, <2>1, <3>1, <3>2 DEF PublisherWritesRow, FAILURE_OUTCOMES, START_FAILURES
  <2>2. CASE Publish(e) \/ PublishRaises(e) \/ PublisherReadsRow(e) \/ ReplyTimeout(e)
    BY <1>1, <2>2 DEF Publish, PublishRaises, PublisherReadsRow, ReplyTimeout
  <2>3. QED
    BY <1>4, <2>1, <2>2 DEF PublisherStep
<1>5. ASSUME NEW e \in Events, Revoke(e) \/ Age(e) \/ Forget(e)
      PROVE  AT!TrailNext \/ UNCHANGED AT!trail
  BY <1>1, <1>5 DEF Revoke, Age, Forget
<1>6. ASSUME NEW e \in Events, Prune(e) PROVE AT!TrailNext \/ UNCHANGED AT!trail
  BY <1>6, RowStep DEF Prune
<1>7. ASSUME NEW c \in Consumers, NEW e \in Events, Receive(c, e)
      PROVE  AT!TrailNext \/ UNCHANGED AT!trail
  BY <1>1, <1>7 DEF Receive
<1>8. ASSUME NEW c \in Consumers, ConsumerStep(c) PROVE AT!TrailNext \/ UNCHANGED AT!trail
  <2> DEFINE e == consumer[c].event
  <2>0. e \in Events
    BY <1>8, StepElsewhere
  <2>1. CASE RecordRejection(c)
    <3>1. consumer[c].outcome \in FAILURE_OUTCOMES
      BY <2>1 DEF RecordRejection, OutcomeOK
    <3>2. CASE audit[e] = "none"
      <4>1. Inserted(audit[e], consumer[c].outcome) = consumer[c].outcome
        BY <3>2 DEF Inserted
      <4>2. Audit(e, consumer[c].outcome) /\ instances' = instances
        BY <2>1, <3>2, <4>1 DEF RecordRejection
      <4>3. QED
        BY <1>2, <2>0, <3>1, <3>2, <4>2
    <3>3. CASE audit[e] # "none"
      <4>1. audit' = [audit EXCEPT ![e] = audit[e]] /\ instances' = instances
        BY <2>1, <3>3 DEF RecordRejection, Inserted
      <4>2. QED
        BY <2>0, <4>1, RowStep
    <3>4. QED
      BY <3>2, <3>3
  <2>2. CASE RecordDuplicate(c)
    <3>1. Inserted(audit[e], "duplicate") = audit[e]
            \/ (audit[e] = "none" /\ Inserted(audit[e], "duplicate") = "duplicate")
      BY DEF Inserted
    <3>2. QED
      BY <1>2, <2>0, <2>2, <3>1 DEF RecordDuplicate
  <2>3. CASE CommitSuccess(c)
    <3>1. instances[e] > 0
      BY <2>3 DEF CommitSuccess, OutcomeOK
    <3>2. Written(audit[e], consumer[c].seen, "instantiated") \in {audit[e], "instantiated"}
      BY DEF Written
    <3>3. QED
      BY <1>2, <2>0, <2>3, <3>1, <3>2 DEF CommitSuccess
  <2>4. CASE RecordFailure(c)
    <3>1. Owns(c, e)
      BY <2>4 DEF RecordFailure, Owns, Unresolved
    <3>2. audit[e] # "instantiated" /\ consumer[c].outcome \in FAILURE_OUTCOMES
      BY <2>0, <2>4, <3>1 DEF RecordFailure, OwnerOK, OutcomeOK
    <3>3. Written(audit[e], consumer[c].seen, consumer[c].outcome) \in {audit[e], consumer[c].outcome}
      BY DEF Written
    <3>4. QED
      BY <1>2, <2>0, <2>4, <3>2, <3>3 DEF RecordFailure
  <2>5. CASE CreateInstance(c)
    <3>1. instances' = [instances EXCEPT ![e] = OneMore(@)] /\ audit' = audit
      BY <2>5 DEF CreateInstance
    <3>2. OneMore(instances[e]) > 0
      BY <2>0 DEF OneMore, TypeOK
    <3>3. [x \in Events |-> instances'[x] > 0]
            = [[x \in Events |-> instances[x] > 0] EXCEPT ![e] = TRUE]
      BY <2>0, <3>1, <3>2 DEF TypeOK
    <3>4. QED
      BY <2>0, <3>1, <3>3 DEF AT!TrailNext, AT!Start
  <2>6. CASE Authenticate(c) \/ AuthenticateRaises(c) \/ Claim(c) \/ ClaimUnavailable(c) \/ Discard(c)
    BY <1>1, <2>6 DEF Authenticate, AuthenticateRaises, Claim, ClaimUnavailable, Discard
  <2>7. CASE RaisesLate(c) \/ ReadForSuccess(c) \/ ReadForFailure(c) \/ Release(c)
               \/ Drop(c) \/ Finish(c)
    BY <1>1, <2>7 DEF RaisesLate, ReadForSuccess, ReadForFailure, Release, Drop, Finish
  <2>8. CASE \E failure \in START_FAILURES : StartFails(c, failure)
    BY <1>1, <2>8 DEF StartFails
  <2>9. QED
    BY <1>8, <2>1, <2>2, <2>3, <2>4, <2>5, <2>6, <2>7, <2>8 DEF ConsumerStep
<1>9. ASSUME NEW c \in Consumers, Crash(c) PROVE AT!TrailNext \/ UNCHANGED AT!trail
  BY <1>1, <1>9 DEF Crash
<1>10. CASE UNCHANGED vars
  BY <1>1, <1>10 DEF vars
<1>11. QED
  BY <1>3, <1>4, <1>5, <1>6, <1>7, <1>8, <1>9, <1>10 DEF Next

\* The protocol of publisher and consumers implements the audit table for every number of
\* events, consumers and crashes, as long as the dedup bucket answers and neither publish
\* nor an ack raises after it took effect: a recorded success was one and is final.
THEOREM AuditTrailImplemented ==
  ASSUME ~MayRaise, ~MayLoseKV
  PROVE  Spec => AuditTrailHolds
<1> DEFINE IInv == TypeOK /\ FramesOK /\ StartOK /\ UnsentOK /\ OutcomeOK /\ OwnerOK
<1>1. Init => IInv
  BY TypeInit, BacklogInit, OwnerInit
<1>2. IInv /\ [Next]_vars => IInv'
  BY TypeStep, FramesStep, StartStep, UnsentStep, OutcomeStep, OwnerStep
<1>3. Init => AT!TrailInit
  <2>1. SUFFICES ASSUME Init PROVE AT!TrailInit
    OBVIOUS
  <2>2. \A e \in Events : (instances[e] > 0) = FALSE
    BY <2>1 DEF Init
  <2>3. [e \in Events |-> instances[e] > 0] = [e \in Events |-> FALSE]
    BY <2>2
  <2>4. QED
    BY <2>1, <2>3 DEF Init, AT!TrailInit
<1>4. IInv /\ [Next]_vars => [AT!TrailNext]_(AT!trail)
  BY TrailStep
<1>5. QED
  BY <1>1, <1>2, <1>3, <1>4, PTL DEF Spec, AuditTrailHolds, AT!Trail
=============================================================================
