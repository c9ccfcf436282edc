------------------------- MODULE ExternalFormProofs -------------------------
(***************************************************************************)
(* Theorems about ExternalForm, for every set of links, workers and        *)
(* requests and every value of the bounds.                                 *)
(***************************************************************************)
EXTENDS ExternalForm, TLAPS

\* Moving a call to another point of its handler keeps its frame well typed.
LEMMA WorkerMove ==
  ASSUME NEW f \in [Workers -> WorkerFrames], NEW w \in Workers,
         NEW pc \in {"idle", "read", "ready", "claimed", "accepted", "refused"}
  PROVE  [f EXCEPT ![w].pc = pc] \in [Workers -> WorkerFrames]
BY DEF WorkerFrames

\* The same for the calls of submit().
LEMMA SubmitterMove ==
  ASSUME NEW f \in [Submitters -> SubmitterFrames], NEW s \in Submitters,
         NEW pc \in {"idle", "locked", "completing", "failing", "tooLate", "superseding"}
  PROVE  [f EXCEPT ![s].pc = pc] \in [Submitters -> SubmitterFrames]
BY DEF SubmitterFrames

\* attempts + 1 stays within notification_max_attempts().
LEMMA OneMoreBounded ==
  ASSUME NEW f \in [Links -> 0..MaxAttempts], NEW l
  PROVE  [f EXCEPT ![l] = OneMore(@)] \in [Links -> 0..MaxAttempts]
<1>1. ASSUME NEW n \in 0..MaxAttempts PROVE OneMore(n) \in 0..MaxAttempts
  BY ConstantsAssumption DEF OneMore
<1>2. QED
  BY <1>1

\* One more accepted email keeps the saturating count within its range.
LEMMA MailsBounded ==
  ASSUME NEW f \in [Links \X References -> 0..2], NEW l, NEW r
  PROVE  [f EXCEPT ![<<l, r>>] = OneMail(@)] \in [Links \X References -> 0..2]
<1>1. ASSUME NEW n \in 0..2 PROVE OneMail(n) \in 0..2
  BY DEF OneMail
<1>2. QED
  BY <1>1

\* Every variable keeps its type under every operation of the link table.
LEMMA TypeStep == TypeOK /\ FramesOK /\ [Next]_vars => TypeOK'
<1> SUFFICES ASSUME TypeOK, FramesOK, [Next]_vars PROVE TypeOK'
  OBVIOUS
<1> USE ConstantsAssumption
    DEF TypeOK, columns, locks, engine, delivery, frames, history,
        References, Statuses, OPEN_STATUSES, ACTIONABLE_STATUSES, NOT_REISSUABLE
<1>1. ASSUME NEW new \in SUBSET Links, NEW published \in BOOLEAN, CreateRequests(new, published)
     PROVE  TypeOK'
  BY <1>1 DEF CreateRequests
<1>2. ASSUME NEW w \in Workers, NEW l \in Links, NEW event \in BOOLEAN, NotifyStart(w, l, event)
     PROVE  TypeOK'
  <2>1. worker' \in [Workers -> WorkerFrames]
    BY <1>2 DEF NotifyStart, WorkerFrames, IdleWorker
  <2>2. QED
    BY <1>2, <2>1 DEF NotifyStart
<1>3. ASSUME NEW w \in Workers, NotifyFindsTaskClosed(w)
     PROVE  TypeOK'
  <2>1. worker' \in [Workers -> WorkerFrames]
    BY <1>3 DEF NotifyFindsTaskClosed, Finish, WorkerFrames, IdleWorker
  <2>2. QED
    BY <1>3, <2>1 DEF NotifyFindsTaskClosed, WriteStatus, Finish
<1>4. ASSUME NEW w \in Workers, NotifyProceeds(w)
     PROVE  TypeOK'
  <2>1. worker' \in [Workers -> WorkerFrames]
    BY <1>4 DEF NotifyProceeds, WorkerFrames
  <2>2. QED
    BY <1>4, <2>1 DEF NotifyProceeds
<1>5. ASSUME NEW w \in Workers, NotifyParks(w)
     PROVE  TypeOK'
  <2>1. worker' \in [Workers -> WorkerFrames]
    BY <1>5 DEF NotifyParks, Finish, WorkerFrames, IdleWorker
  <2>2. QED
    BY <1>5, <2>1 DEF NotifyParks, Finish
<1>6. ASSUME NEW w \in Workers, Claim(w)
     PROVE  TypeOK'
  <2>1. worker' \in [Workers -> WorkerFrames]
    <3>1. reference[worker[w].link] \in References
      BY <1>6 DEF Claim, FramesOK
    <3>2. QED
      BY <1>6, <3>1 DEF Claim, WorkerFrames
  <2>2. attempts' \in [Links -> 0..MaxAttempts]
    BY <1>6, OneMoreBounded DEF Claim
  <2>3. QED
    BY <1>6, <2>1, <2>2 DEF Claim
<1>7. ASSUME NEW w \in Workers, ClaimRefused(w)
     PROVE  TypeOK'
  <2>1. worker' \in [Workers -> WorkerFrames]
    BY <1>7 DEF ClaimRefused, Finish, WorkerFrames, IdleWorker
  <2>2. QED
    BY <1>7, <2>1 DEF ClaimRefused, Finish
<1>8. ASSUME NEW w \in Workers, Send(w)
     PROVE  TypeOK'
  <2>1. worker' \in [Workers -> WorkerFrames]
    BY <1>8, WorkerMove DEF Send
  <2>2. mails' \in [Links \X References -> 0..2]
    BY <1>8, MailsBounded DEF Send
  <2>3. QED
    BY <1>8, <2>1, <2>2 DEF Send
<1>9. ASSUME NEW w \in Workers, SendFails(w)
     PROVE  TypeOK'
  <2>1. worker' \in [Workers -> WorkerFrames]
    BY <1>9, WorkerMove DEF SendFails
  <2>2. QED
    BY <1>9, <2>1 DEF SendFails
<1>9a. ASSUME NEW w \in Workers, SendLosesReply(w)
     PROVE  TypeOK'
  <2>1. worker' \in [Workers -> WorkerFrames]
    BY <1>9a, WorkerMove DEF SendLosesReply
  <2>2. mails' \in [Links \X References -> 0..2]
    BY <1>9a, MailsBounded DEF SendLosesReply
  <2>3. QED
    BY <1>9a, <2>1, <2>2 DEF SendLosesReply
<1>10. ASSUME NEW w \in Workers, RecordSent(w)
     PROVE  TypeOK'
  <2>1. worker' \in [Workers -> WorkerFrames]
    BY <1>10 DEF RecordSent, Finish, WorkerFrames, IdleWorker
  <2>2. QED
    BY <1>10, <2>1 DEF RecordSent, Finish
<1>11. ASSUME NEW w \in Workers, RecordSentFails(w)
     PROVE  TypeOK'
  <2>1. worker' \in [Workers -> WorkerFrames]
    BY <1>11 DEF RecordSentFails, Finish, WorkerFrames, IdleWorker
  <2>2. QED
    BY <1>11, <2>1 DEF RecordSentFails, Finish
<1>12. ASSUME NEW w \in Workers, ReleaseFailed(w)
     PROVE  TypeOK'
  <2>1. worker' \in [Workers -> WorkerFrames]
    BY <1>12 DEF ReleaseFailed, Finish, WorkerFrames, IdleWorker
  <2>2. QED
    BY <1>12, <2>1 DEF ReleaseFailed, Finish
<1>13. ASSUME NEW w \in Workers, WorkerCrash(w)
     PROVE  TypeOK'
  <2>1. worker' \in [Workers -> WorkerFrames]
    BY <1>13 DEF WorkerCrash, WorkerFrames, IdleWorker
  <2>2. QED
    BY <1>13, <2>1 DEF WorkerCrash
<1>14. ASSUME SweepParks
     PROVE  TypeOK'
  BY <1>14 DEF SweepParks
<1>15. ASSUME Revive
     PROVE  TypeOK'
  BY <1>15 DEF Revive
<1>16. ASSUME ChangeSmtp
     PROVE  TypeOK'
  BY <1>16 DEF ChangeSmtp
<1>17. ASSUME NEW l \in Links, LeaseLapses(l)
     PROVE  TypeOK'
  BY <1>17 DEF LeaseLapses
<1>18. ASSUME NEW l \in Links, LinkExpires(l)
     PROVE  TypeOK'
  BY <1>18 DEF LinkExpires
<1>19. ASSUME NEW l \in Links, ReissueFindsTaskClosed(l)
     PROVE  TypeOK'
  BY <1>19 DEF ReissueFindsTaskClosed, WriteStatus
<1>20. ASSUME NEW l \in Links, Reissue(l)
     PROVE  TypeOK'
  BY <1>20 DEF Reissue
<1>21. ASSUME NEW l \in Links, SubmitRetires(l)
     PROVE  TypeOK'
  BY <1>21 DEF SubmitRetires, WriteStatus
<1>22. ASSUME NEW v \in Visitors, NEW l \in Links, ShowStart(v, l)
     PROVE  TypeOK'
  <2>1. visitor' \in [Visitors -> VisitorFrames]
    BY <1>22 DEF ShowStart, VisitorFrames, IdleVisitor
  <2>2. QED
    BY <1>22, <2>1 DEF ShowStart
<1>23. ASSUME NEW v \in Visitors, Show(v)
     PROVE  TypeOK'
  <2>1. visitor' \in [Visitors -> VisitorFrames]
    BY <1>23 DEF Show, VisitorFrames, IdleVisitor
  <2>2. QED
    BY <1>23, <2>1 DEF Show, WriteStatus
<1>24. ASSUME NEW s \in Submitters, NEW l \in Links, SubmitStart(s, l)
     PROVE  TypeOK'
  <2>1. submitter' \in [Submitters -> SubmitterFrames]
    BY <1>24 DEF SubmitStart, SubmitterFrames, IdleSubmitter
  <2>2. QED
    BY <1>24, <2>1 DEF SubmitStart
<1>25. ASSUME NEW s \in Submitters, SubmitCompletesTask(s)
     PROVE  TypeOK'
  <2>1. submitter' \in [Submitters -> SubmitterFrames]
    BY <1>25, SubmitterMove DEF SubmitCompletesTask, Goto
  <2>2. QED
    BY <1>25, <2>1 DEF SubmitCompletesTask, Goto
<1>26. ASSUME NEW s \in Submitters, SubmitInvalidState(s)
     PROVE  TypeOK'
  <2>1. submitter' \in [Submitters -> SubmitterFrames]
    BY <1>26, SubmitterMove DEF SubmitInvalidState, Goto
  <2>2. QED
    BY <1>26, <2>1 DEF SubmitInvalidState, Goto, ReleaseLocks
<1>27. ASSUME NEW s \in Submitters, SubmitError(s)
     PROVE  TypeOK'
  <2>1. submitter' \in [Submitters -> SubmitterFrames]
    BY <1>27, SubmitterMove DEF SubmitError, Goto
  <2>2. QED
    BY <1>27, <2>1 DEF SubmitError, Goto, ReleaseLocks
<1>28. ASSUME NEW s \in Submitters, SubmitCommits(s)
     PROVE  TypeOK'
  <2>1. submitter' \in [Submitters -> SubmitterFrames]
    BY <1>28 DEF SubmitCommits, Return, SubmitterFrames, IdleSubmitter
  <2>2. winner' \in Links \cup {NoOne}
    BY <1>28 DEF SubmitCommits, SubmitterFrames
  <2>3. QED
    BY <1>28, <2>1, <2>2 DEF SubmitCommits, CommitSuperseding, ReleaseLocks, Return
<1>29. ASSUME NEW s \in Submitters, NEW next \in {"failing", "superseding"}, SubmitCommitsEarly(s, next)
     PROVE  TypeOK'
  <2>1. submitter' \in [Submitters -> SubmitterFrames]
    BY <1>29, SubmitterMove DEF SubmitCommitsEarly, Goto
  <2>2. winner' \in Links \cup {NoOne}
    BY <1>29 DEF SubmitCommitsEarly, SubmitterFrames
  <2>3. QED
    BY <1>29, <2>1, <2>2 DEF SubmitCommitsEarly, ReleaseLocks, Goto
<1>30. ASSUME NEW s \in Submitters, SubmitSupersedes(s)
     PROVE  TypeOK'
  <2>1. submitter' \in [Submitters -> SubmitterFrames]
    BY <1>30 DEF SubmitSupersedes, Return, SubmitterFrames, IdleSubmitter
  <2>2. QED
    BY <1>30, <2>1 DEF SubmitSupersedes, CommitSuperseding, Return
<1>31. ASSUME NEW s \in Submitters, RecordFailure(s)
     PROVE  TypeOK'
  <2>1. submitter' \in [Submitters -> SubmitterFrames]
    BY <1>31 DEF RecordFailure, Return, SubmitterFrames, IdleSubmitter
  <2>2. attempts' \in [Links -> 0..MaxAttempts]
    BY <1>31, OneMoreBounded DEF RecordFailure
  <2>3. QED
    BY <1>31, <2>1, <2>2 DEF RecordFailure, WriteStatus, Return
<1>32. ASSUME NEW s \in Submitters, RecordTooLate(s)
     PROVE  TypeOK'
  <2>1. submitter' \in [Submitters -> SubmitterFrames]
    BY <1>32 DEF RecordTooLate, Return, SubmitterFrames, IdleSubmitter
  <2>2. QED
    BY <1>32, <2>1 DEF RecordTooLate, WriteStatus, Return
<1>33. ASSUME NEW s \in Submitters, SubmitDeadlockVictim(s)
     PROVE  TypeOK'
  <2>1. submitter' \in [Submitters -> SubmitterFrames]
    BY <1>33 DEF SubmitDeadlockVictim, Return, SubmitterFrames, IdleSubmitter
  <2>2. QED
    BY <1>33, <2>1 DEF SubmitDeadlockVictim, ReleaseLocks, Return
<1>34. ASSUME NEW s \in Submitters, SubmitCrash(s)
     PROVE  TypeOK'
  <2>1. submitter' \in [Submitters -> SubmitterFrames]
    BY <1>34 DEF SubmitCrash, Return, SubmitterFrames, IdleSubmitter
  <2>2. QED
    BY <1>34, <2>1 DEF SubmitCrash, ReleaseLocks, Return
<1>35. ASSUME NEW u \in InAppUsers, InAppCheck(u)
     PROVE  TypeOK'
  BY <1>35 DEF InAppCheck
<1>36. ASSUME NEW u \in InAppUsers, InAppComplete(u)
     PROVE  TypeOK'
  BY <1>36 DEF InAppComplete
<1>37. ASSUME Terminate
     PROVE  TypeOK'
  BY <1>37 DEF Terminate
<1>38. ASSUME CloseWithoutLinks
     PROVE  TypeOK'
  BY <1>38 DEF CloseWithoutLinks
<1>39. ASSUME Suspend
     PROVE  TypeOK'
  BY <1>39 DEF Suspend
<1>40. ASSUME UNCHANGED vars PROVE TypeOK'
  BY <1>40 DEF vars
<1>41. QED
  <2> HIDE DEF TypeOK
  <2>1. ASSUME NEW w \in Workers, WorkerStep(w) PROVE TypeOK'
    BY <2>1, <1>3, <1>4, <1>5, <1>6, <1>7, <1>8, <1>9, <1>9a, <1>10, <1>11, <1>12
       DEF WorkerStep
  <2>2. ASSUME NEW s \in Submitters, SubmitStep(s) PROVE TypeOK'
    BY <2>2, <1>25, <1>26, <1>27, <1>28, <1>29, <1>30, <1>31, <1>32, <1>33 DEF SubmitStep
  <2>3. QED
    BY <2>1, <2>2, <1>1, <1>2, <1>13, <1>14, <1>15, <1>16, <1>17, <1>18, <1>19, <1>20, <1>21, <1>22,
       <1>23, <1>24, <1>34, <1>35, <1>36, <1>37, <1>38, <1>39, <1>40 DEF Next

\* A call in progress keeps the row it works on.
LEMMA FramesStep == TypeOK /\ FramesOK /\ [Next]_vars => FramesOK'
<1> SUFFICES ASSUME TypeOK, FramesOK, [Next]_vars PROVE FramesOK'
  OBVIOUS
<1>1. ASSUME NEW new \in SUBSET Links, NEW published \in BOOLEAN, CreateRequests(new, published)
      PROVE  FramesOK'
  BY <1>1 DEF CreateRequests, FramesOK, frames
<1>2. ASSUME NEW w \in Workers, NEW l \in Links, NEW event \in BOOLEAN, NotifyStart(w, l, event)
      PROVE  FramesOK'
  BY <1>2 DEF NotifyStart, FramesOK, TypeOK, WorkerFrames, IdleWorker
<1>3. ASSUME NEW w \in Workers, NotifyFindsTaskClosed(w) PROVE FramesOK'
  BY <1>3 DEF NotifyFindsTaskClosed, Finish, FramesOK, TypeOK, WorkerFrames, IdleWorker
<1>4. ASSUME NEW w \in Workers, NotifyProceeds(w) PROVE FramesOK'
  BY <1>4 DEF NotifyProceeds, FramesOK, TypeOK, WorkerFrames, IdleWorker
<1>5. ASSUME NEW w \in Workers, NotifyParks(w) PROVE FramesOK'
  BY <1>5 DEF NotifyParks, Finish, FramesOK, TypeOK, WorkerFrames, IdleWorker
<1>6. ASSUME NEW w \in Workers, Claim(w) PROVE FramesOK'
  BY <1>6 DEF Claim, FramesOK, TypeOK, WorkerFrames, IdleWorker
<1>7. ASSUME NEW w \in Workers, ClaimRefused(w) PROVE FramesOK'
  BY <1>7 DEF ClaimRefused, Finish, FramesOK, TypeOK, WorkerFrames, IdleWorker
<1>8. ASSUME NEW w \in Workers, Send(w) PROVE FramesOK'
  BY <1>8 DEF Send, FramesOK, TypeOK, WorkerFrames, IdleWorker
<1>9. ASSUME NEW w \in Workers, SendFails(w) PROVE FramesOK'
  BY <1>9 DEF SendFails, FramesOK, TypeOK, WorkerFrames, IdleWorker
<1>9a. ASSUME NEW w \in Workers, SendLosesReply(w) PROVE FramesOK'
  BY <1>9a DEF SendLosesReply, FramesOK, TypeOK, WorkerFrames, IdleWorker
<1>10. ASSUME NEW w \in Workers, RecordSent(w) PROVE FramesOK'
  BY <1>10 DEF RecordSent, Finish, FramesOK, TypeOK, WorkerFrames, IdleWorker
<1>11. ASSUME NEW w \in Workers, RecordSentFails(w) PROVE FramesOK'
  BY <1>11 DEF RecordSentFails, Finish, FramesOK, TypeOK, WorkerFrames, IdleWorker
<1>12. ASSUME NEW w \in Workers, ReleaseFailed(w) PROVE FramesOK'
  BY <1>12 DEF ReleaseFailed, Finish, FramesOK, TypeOK, WorkerFrames, IdleWorker
<1>13. ASSUME NEW w \in Workers, WorkerCrash(w) PROVE FramesOK'
  BY <1>13 DEF WorkerCrash, FramesOK, TypeOK, WorkerFrames, IdleWorker
<1>14. ASSUME SweepParks PROVE FramesOK'
  BY <1>14 DEF SweepParks, FramesOK, frames
<1>15. ASSUME Revive PROVE FramesOK'
  BY <1>15 DEF Revive, FramesOK, frames
<1>16. ASSUME ChangeSmtp PROVE FramesOK'
  BY <1>16 DEF ChangeSmtp, FramesOK, frames
<1>17. ASSUME NEW l \in Links, LeaseLapses(l) PROVE FramesOK'
  BY <1>17 DEF LeaseLapses, FramesOK, frames
<1>18. ASSUME NEW l \in Links, LinkExpires(l) PROVE FramesOK'
  BY <1>18 DEF LinkExpires, FramesOK, frames
<1>19. ASSUME NEW l \in Links, ReissueFindsTaskClosed(l) PROVE FramesOK'
  BY <1>19 DEF ReissueFindsTaskClosed, FramesOK, frames
<1>20. ASSUME NEW l \in Links, Reissue(l) PROVE FramesOK'
  BY <1>20 DEF Reissue, FramesOK, frames
<1>21. ASSUME NEW l \in Links, SubmitRetires(l) PROVE FramesOK'
  BY <1>21 DEF SubmitRetires, FramesOK, frames
<1>22. ASSUME NEW v \in Visitors, NEW l \in Links, ShowStart(v, l) PROVE FramesOK'
  BY <1>22 DEF ShowStart, FramesOK, TypeOK, VisitorFrames, IdleVisitor
<1>23. ASSUME NEW v \in Visitors, Show(v) PROVE FramesOK'
  BY <1>23 DEF Show, FramesOK, TypeOK, VisitorFrames, IdleVisitor
<1>24. ASSUME NEW s \in Submitters, NEW l \in Links, SubmitStart(s, l) PROVE FramesOK'
  BY <1>24 DEF SubmitStart, FramesOK, TypeOK, SubmitterFrames, IdleSubmitter
<1>25. ASSUME NEW s \in Submitters, SubmitCompletesTask(s) PROVE FramesOK'
  BY <1>25 DEF SubmitCompletesTask, Goto, FramesOK, TypeOK, SubmitterFrames, IdleSubmitter
<1>26. ASSUME NEW s \in Submitters, SubmitInvalidState(s) PROVE FramesOK'
  BY <1>26 DEF SubmitInvalidState, Goto, FramesOK, TypeOK, SubmitterFrames, IdleSubmitter
<1>27. ASSUME NEW s \in Submitters, SubmitError(s) PROVE FramesOK'
  BY <1>27 DEF SubmitError, Goto, FramesOK, TypeOK, SubmitterFrames, IdleSubmitter
<1>28. ASSUME NEW s \in Submitters, SubmitCommits(s) PROVE FramesOK'
  BY <1>28 DEF SubmitCommits, Return, FramesOK, TypeOK, SubmitterFrames, IdleSubmitter
<1>29. ASSUME NEW s \in Submitters, NEW next \in {"failing", "superseding"}, SubmitCommitsEarly(s, next)
      PROVE  FramesOK'
  BY <1>29 DEF SubmitCommitsEarly, Goto, FramesOK, TypeOK, SubmitterFrames, IdleSubmitter
<1>30. ASSUME NEW s \in Submitters, SubmitSupersedes(s) PROVE FramesOK'
  BY <1>30 DEF SubmitSupersedes, Return, FramesOK, TypeOK, SubmitterFrames, IdleSubmitter
<1>31. ASSUME NEW s \in Submitters, RecordFailure(s) PROVE FramesOK'
  BY <1>31 DEF RecordFailure, Return, FramesOK, TypeOK, SubmitterFrames, IdleSubmitter
<1>32. ASSUME NEW s \in Submitters, RecordTooLate(s) PROVE FramesOK'
  BY <1>32 DEF RecordTooLate, Return, FramesOK, TypeOK, SubmitterFrames, IdleSubmitter
<1>33. ASSUME NEW s \in Submitters, SubmitDeadlockVictim(s) PROVE FramesOK'
  BY <1>33 DEF SubmitDeadlockVictim, Return, FramesOK, TypeOK, SubmitterFrames, IdleSubmitter
<1>34. ASSUME NEW s \in Submitters, SubmitCrash(s) PROVE FramesOK'
  BY <1>34 DEF SubmitCrash, Return, FramesOK, TypeOK, SubmitterFrames, IdleSubmitter
<1>35. ASSUME NEW u \in InAppUsers, InAppCheck(u) PROVE FramesOK'
  BY <1>35 DEF InAppCheck, FramesOK, frames
<1>36. ASSUME NEW u \in InAppUsers, InAppComplete(u) PROVE FramesOK'
  BY <1>36 DEF InAppComplete, FramesOK, frames
<1>37. ASSUME Terminate PROVE FramesOK'
  BY <1>37 DEF Terminate, FramesOK, frames
<1>38. ASSUME CloseWithoutLinks PROVE FramesOK'
  BY <1>38 DEF CloseWithoutLinks, FramesOK, frames
<1>39. ASSUME Suspend PROVE FramesOK'
  BY <1>39 DEF Suspend, FramesOK, frames
<1>40. ASSUME UNCHANGED vars PROVE FramesOK'
  BY <1>40 DEF vars, frames, FramesOK
<1>41. QED
  <2> HIDE DEF FramesOK
  <2>1. ASSUME NEW w \in Workers, WorkerStep(w) PROVE FramesOK'
    BY <2>1, <1>3, <1>4, <1>5, <1>6, <1>7, <1>8, <1>9, <1>9a, <1>10, <1>11, <1>12
       DEF WorkerStep
  <2>2. ASSUME NEW s \in Submitters, SubmitStep(s) PROVE FramesOK'
    BY <2>2, <1>25, <1>26, <1>27, <1>28, <1>29, <1>30, <1>31, <1>32, <1>33 DEF SubmitStep
  <2>3. QED
    BY <2>1, <2>2, <1>1, <1>2, <1>13, <1>14, <1>15, <1>16, <1>17, <1>18, <1>19, <1>20, <1>21, <1>22,
       <1>23, <1>24, <1>34, <1>35, <1>36, <1>37, <1>38, <1>39, <1>40 DEF Next

\* The types and the frames at the start.
LEMMA TypeInit == Init => TypeOK /\ FramesOK
<1> SUFFICES ASSUME Init PROVE TypeOK /\ FramesOK
  OBVIOUS
<1> USE ConstantsAssumption DEF Init
<1>1. worker \in [Workers -> WorkerFrames]
  BY DEF WorkerFrames, IdleWorker, Statuses, References
<1>2. visitor \in [Visitors -> VisitorFrames]
  BY DEF VisitorFrames, IdleVisitor, Statuses
<1>3. submitter \in [Submitters -> SubmitterFrames]
  BY DEF SubmitterFrames, IdleSubmitter, References
<1>4. /\ attempts \in [Links -> 0..MaxAttempts]
      /\ crashes \in 0..MaxCrashes
      /\ reference \in [Links -> References]
      /\ mails \in [Links \X References -> 0..2]
  BY DEF References
<1>5. TypeOK
  BY <1>1, <1>2, <1>3, <1>4 DEF TypeOK, Statuses
<1>6. FramesOK
  BY DEF FramesOK, IdleWorker, IdleVisitor, IdleSubmitter
<1>7. QED
  BY <1>5, <1>6

\* Type correctness of the link table and of the calls that work on it; a call in
\* progress always works on a row.
THEOREM TypeCorrect == Spec => [](TypeOK /\ FramesOK)
BY TypeInit, TypeStep, FramesStep, PTL DEF Spec

\* Nobody writes a row, or closes the task, under a submit() that holds its lock.
LEMMA LocksStep == TypeOK /\ FramesOK /\ LocksOK /\ [Next]_vars => LocksOK'
<1> SUFFICES ASSUME TypeOK, FramesOK, LocksOK, [Next]_vars PROVE LocksOK'
  OBVIOUS
<1>1. ASSUME NEW new \in SUBSET Links, NEW published \in BOOLEAN, CreateRequests(new, published)
      PROVE  LocksOK'
  BY <1>1, ConstantsAssumption DEF CreateRequests, LocksOK, InTransaction, Closed, IsOpen, Unlocked,
     OPEN_STATUSES, ACTIONABLE_STATUSES, TypeOK, FramesOK, columns, locks, engine, frames, history
<1>2. ASSUME NEW w \in Workers, NEW l \in Links, NEW event \in BOOLEAN, NotifyStart(w, l, event)
      PROVE  LocksOK'
  BY <1>2 DEF NotifyStart, columns, locks, engine, frames, history, LocksOK, InTransaction, Closed
<1>3. ASSUME NEW w \in Workers, NotifyFindsTaskClosed(w) PROVE LocksOK'
  BY <1>3, ConstantsAssumption DEF NotifyFindsTaskClosed, WriteStatus, Finish, LocksOK,
     InTransaction, Closed, IsOpen, Unlocked, OPEN_STATUSES, ACTIONABLE_STATUSES, TypeOK, FramesOK,
     columns, locks, engine, frames, history
<1>4. ASSUME NEW w \in Workers, NotifyProceeds(w) PROVE LocksOK'
  BY <1>4 DEF NotifyProceeds, columns, locks, engine, frames, history, LocksOK, InTransaction, Closed
<1>5. ASSUME NEW w \in Workers, NotifyParks(w) PROVE LocksOK'
  BY <1>5, ConstantsAssumption DEF NotifyParks, Finish, LocksOK, InTransaction, Closed, IsOpen,
     Unlocked, OPEN_STATUSES, ACTIONABLE_STATUSES, Claimable, CLAIMABLE_STATUSES, TypeOK, FramesOK,
     columns, locks, engine, frames, history
<1>6. ASSUME NEW w \in Workers, Claim(w) PROVE LocksOK'
  BY <1>6, ConstantsAssumption DEF Claim, LocksOK, InTransaction, Closed, IsOpen, Unlocked,
     OPEN_STATUSES, ACTIONABLE_STATUSES, Claimable, CLAIMABLE_STATUSES, TypeOK, FramesOK, columns,
     locks, engine, frames, history
<1>7. ASSUME NEW w \in Workers, ClaimRefused(w) PROVE LocksOK'
  BY <1>7 DEF ClaimRefused, columns, locks, engine, frames, history, LocksOK, InTransaction, Closed
<1>8. ASSUME NEW w \in Workers, Send(w) PROVE LocksOK'
  BY <1>8 DEF Send, columns, locks, engine, frames, history, LocksOK, InTransaction, Closed
<1>9. ASSUME NEW w \in Workers, SendFails(w) PROVE LocksOK'
  BY <1>9 DEF SendFails, columns, locks, engine, frames, history, LocksOK, InTransaction, Closed
<1>9a. ASSUME NEW w \in Workers, SendLosesReply(w) PROVE LocksOK'
  BY <1>9a DEF SendLosesReply, columns, locks, engine, frames, LocksOK, InTransaction, Closed
<1>10. ASSUME NEW w \in Workers, RecordSent(w) PROVE LocksOK'
  BY <1>10, ConstantsAssumption DEF RecordSent, Finish, LocksOK, InTransaction, Closed, IsOpen,
     Unlocked, OPEN_STATUSES, ACTIONABLE_STATUSES, TypeOK, FramesOK, columns, locks, engine, frames,
     history
<1>11. ASSUME NEW w \in Workers, RecordSentFails(w) PROVE LocksOK'
  BY <1>11 DEF RecordSentFails, columns, locks, engine, frames, history, LocksOK, InTransaction, Closed
<1>12. ASSUME NEW w \in Workers, ReleaseFailed(w) PROVE LocksOK'
  BY <1>12, ConstantsAssumption DEF ReleaseFailed, Finish, LocksOK, InTransaction, Closed, IsOpen,
     Unlocked, OPEN_STATUSES, ACTIONABLE_STATUSES, TypeOK, FramesOK, columns, locks, engine, frames,
     history
<1>13. ASSUME NEW w \in Workers, WorkerCrash(w) PROVE LocksOK'
  BY <1>13 DEF WorkerCrash, columns, locks, engine, frames, history, LocksOK, InTransaction, Closed
<1>14. ASSUME SweepParks PROVE LocksOK'
  BY <1>14, ConstantsAssumption DEF SweepParks, LocksOK, InTransaction, Closed, IsOpen, Unlocked,
     OPEN_STATUSES, ACTIONABLE_STATUSES, Claimable, CLAIMABLE_STATUSES, SweepCandidate, TypeOK,
     FramesOK, columns, locks, engine, frames, history
<1>15. ASSUME Revive PROVE LocksOK'
  BY <1>15, ConstantsAssumption DEF Revive, LocksOK, InTransaction, Closed, IsOpen, Unlocked,
     OPEN_STATUSES, ACTIONABLE_STATUSES, TypeOK, FramesOK, columns, locks, engine, frames, history
<1>16. ASSUME ChangeSmtp PROVE LocksOK'
  BY <1>16 DEF ChangeSmtp, columns, locks, engine, frames, history, LocksOK, InTransaction, Closed
<1>17. ASSUME NEW l \in Links, LeaseLapses(l) PROVE LocksOK'
  BY <1>17 DEF LeaseLapses, columns, locks, engine, frames, history, LocksOK, InTransaction, Closed
<1>18. ASSUME NEW l \in Links, LinkExpires(l) PROVE LocksOK'
  BY <1>18 DEF LinkExpires, columns, locks, engine, frames, history, LocksOK, InTransaction, Closed
<1>19. ASSUME NEW l \in Links, ReissueFindsTaskClosed(l) PROVE LocksOK'
  BY <1>19, ConstantsAssumption DEF ReissueFindsTaskClosed, WriteStatus, LocksOK, InTransaction,
     Closed, IsOpen, Unlocked, OPEN_STATUSES, ACTIONABLE_STATUSES, TypeOK, FramesOK, columns, locks,
     engine, frames, history
<1>20. ASSUME NEW l \in Links, Reissue(l) PROVE LocksOK'
  BY <1>20, ConstantsAssumption DEF Reissue, LocksOK, InTransaction, Closed, IsOpen, Unlocked,
     OPEN_STATUSES, ACTIONABLE_STATUSES, TypeOK, FramesOK, columns, locks, engine, frames, history
<1>21. ASSUME NEW l \in Links, SubmitRetires(l) PROVE LocksOK'
  BY <1>21, ConstantsAssumption DEF SubmitRetires, WriteStatus, LocksOK, InTransaction, Closed,
     IsOpen, Unlocked, OPEN_STATUSES, ACTIONABLE_STATUSES, TypeOK, FramesOK, columns, locks, engine,
     frames, history
<1>22. ASSUME NEW v \in Visitors, NEW l \in Links, ShowStart(v, l) PROVE LocksOK'
  BY <1>22 DEF ShowStart, columns, locks, engine, frames, history, LocksOK, InTransaction, Closed
<1>23. ASSUME NEW v \in Visitors, Show(v) PROVE LocksOK'
  BY <1>23, ConstantsAssumption DEF Show, WriteStatus, LocksOK, InTransaction, Closed, IsOpen,
     Unlocked, OPEN_STATUSES, ACTIONABLE_STATUSES, TypeOK, FramesOK, columns, locks, engine, frames,
     history
<1>24. ASSUME NEW s \in Submitters, NEW l \in Links, SubmitStart(s, l) PROVE LocksOK'
  BY <1>24, ConstantsAssumption DEF SubmitStart, LocksOK, InTransaction, Closed, IsOpen, Unlocked,
     OPEN_STATUSES, ACTIONABLE_STATUSES, SubmitterFrames, IdleSubmitter, TypeOK, FramesOK, columns,
     locks, engine, frames, history
<1>25. ASSUME NEW s \in Submitters, SubmitCompletesTask(s) PROVE LocksOK'
  BY <1>25, ConstantsAssumption DEF SubmitCompletesTask, Goto, LocksOK, InTransaction, Closed,
     IsOpen, Unlocked, OPEN_STATUSES, ACTIONABLE_STATUSES, SubmitterFrames, IdleSubmitter, TypeOK,
     FramesOK, columns, locks, engine, frames, history
<1>26. ASSUME NEW s \in Submitters, SubmitInvalidState(s) PROVE LocksOK'
  BY <1>26, ConstantsAssumption DEF SubmitInvalidState, Goto, ReleaseLocks, LocksOK, InTransaction,
     Closed, IsOpen, Unlocked, OPEN_STATUSES, ACTIONABLE_STATUSES, SubmitterFrames, IdleSubmitter,
     TypeOK, FramesOK, columns, locks, engine, frames, history
<1>27. ASSUME NEW s \in Submitters, SubmitError(s) PROVE LocksOK'
  BY <1>27, ConstantsAssumption DEF SubmitError, Goto, ReleaseLocks, LocksOK, InTransaction, Closed,
     IsOpen, Unlocked, OPEN_STATUSES, ACTIONABLE_STATUSES, SubmitterFrames, IdleSubmitter, TypeOK,
     FramesOK, columns, locks, engine, frames, history
<1>28. ASSUME NEW s \in Submitters, SubmitCommits(s) PROVE LocksOK'
  BY <1>28, ConstantsAssumption DEF SubmitCommits, CommitSuperseding, ReleaseLocks, Return, LocksOK,
     InTransaction, Closed, IsOpen, Unlocked, OPEN_STATUSES, ACTIONABLE_STATUSES, Supersedes,
     SubmitterFrames, IdleSubmitter, TypeOK, FramesOK, columns, locks, engine, frames, history
<1>29. ASSUME NEW s \in Submitters, NEW next \in {"failing", "superseding"}, SubmitCommitsEarly(s, next)
      PROVE  LocksOK'
  BY <1>29, ConstantsAssumption DEF SubmitCommitsEarly, ReleaseLocks, Goto, LocksOK, InTransaction,
     Closed, IsOpen, Unlocked, OPEN_STATUSES, ACTIONABLE_STATUSES, SubmitterFrames, IdleSubmitter,
     TypeOK, FramesOK, columns, locks, engine, frames, history
<1>30. ASSUME NEW s \in Submitters, SubmitSupersedes(s) PROVE LocksOK'
  BY <1>30, ConstantsAssumption DEF SubmitSupersedes, CommitSuperseding, Return, LocksOK,
     InTransaction, Closed, IsOpen, Unlocked, OPEN_STATUSES, ACTIONABLE_STATUSES, Supersedes,
     SubmitterFrames, IdleSubmitter, TypeOK, FramesOK, columns, locks, engine, frames, history
<1>31. ASSUME NEW s \in Submitters, RecordFailure(s) PROVE LocksOK'
  BY <1>31, ConstantsAssumption DEF RecordFailure, WriteStatus, Return, LocksOK, InTransaction,
     Closed, IsOpen, Unlocked, OPEN_STATUSES, ACTIONABLE_STATUSES, SubmitterFrames, IdleSubmitter,
     TypeOK, FramesOK, columns, locks, engine, frames, history
<1>32. ASSUME NEW s \in Submitters, RecordTooLate(s) PROVE LocksOK'
  BY <1>32, ConstantsAssumption DEF RecordTooLate, WriteStatus, Return, LocksOK, InTransaction,
     Closed, IsOpen, Unlocked, OPEN_STATUSES, ACTIONABLE_STATUSES, SubmitterFrames, IdleSubmitter,
     TypeOK, FramesOK, columns, locks, engine, frames, history
<1>33. ASSUME NEW s \in Submitters, SubmitDeadlockVictim(s) PROVE LocksOK'
  BY <1>33, ConstantsAssumption DEF SubmitDeadlockVictim, ReleaseLocks, Return, LocksOK,
     InTransaction, Closed, IsOpen, Unlocked, OPEN_STATUSES, ACTIONABLE_STATUSES, Supersedes,
     SubmitterFrames, IdleSubmitter, TypeOK, FramesOK, columns, locks, engine, frames, history
<1>34. ASSUME NEW s \in Submitters, SubmitCrash(s) PROVE LocksOK'
  BY <1>34, ConstantsAssumption DEF SubmitCrash, ReleaseLocks, Return, LocksOK, InTransaction,
     Closed, IsOpen, Unlocked, OPEN_STATUSES, ACTIONABLE_STATUSES, SubmitterFrames, IdleSubmitter,
     TypeOK, FramesOK, columns, locks, engine, frames, history
<1>35. ASSUME NEW u \in InAppUsers, InAppCheck(u) PROVE LocksOK'
  BY <1>35 DEF InAppCheck, columns, locks, engine, frames, history, LocksOK, InTransaction, Closed
<1>36. ASSUME NEW u \in InAppUsers, InAppComplete(u) PROVE LocksOK'
  BY <1>36, ConstantsAssumption DEF InAppComplete, LocksOK, InTransaction, Closed, IsOpen, Unlocked,
     OPEN_STATUSES, ACTIONABLE_STATUSES, TypeOK, FramesOK, columns, locks, engine, frames, history
<1>37. ASSUME Terminate PROVE LocksOK'
  BY <1>37, ConstantsAssumption DEF Terminate, LocksOK, InTransaction, Closed, IsOpen, Unlocked,
     OPEN_STATUSES, ACTIONABLE_STATUSES, TypeOK, FramesOK, columns, locks, engine, frames, history
<1>38. ASSUME CloseWithoutLinks PROVE LocksOK'
  BY <1>38, ConstantsAssumption DEF CloseWithoutLinks, LocksOK, InTransaction, Closed, IsOpen,
     Unlocked, OPEN_STATUSES, ACTIONABLE_STATUSES, TypeOK, FramesOK, columns, locks, engine, frames,
     history
<1>39. ASSUME Suspend PROVE LocksOK'
  BY <1>39 DEF Suspend, columns, locks, engine, frames, history, LocksOK, InTransaction, Closed
<1>40. ASSUME UNCHANGED vars PROVE LocksOK'
  BY <1>40 DEF vars, columns, locks, engine, frames, history, LocksOK, InTransaction, Closed
<1>41. QED
  <2> HIDE DEF LocksOK
  <2>1. ASSUME NEW w \in Workers, WorkerStep(w) PROVE LocksOK'
    BY <2>1, <1>3, <1>4, <1>5, <1>6, <1>7, <1>8, <1>9, <1>9a, <1>10, <1>11, <1>12
       DEF WorkerStep
  <2>2. ASSUME NEW s \in Submitters, SubmitStep(s) PROVE LocksOK'
    BY <2>2, <1>25, <1>26, <1>27, <1>28, <1>29, <1>30, <1>31, <1>32, <1>33 DEF SubmitStep
  <2>3. QED
    BY <2>1, <2>2, <1>1, <1>2, <1>13, <1>14, <1>15, <1>16, <1>17, <1>18, <1>19, <1>20, <1>21, <1>22,
       <1>23, <1>24, <1>34, <1>35, <1>36, <1>37, <1>38, <1>39, <1>40 DEF Next

\* submit() keeps its exclusive hold on the row and on the work item in every state.
THEOREM LocksHold == Spec => []LocksOK
<1>1. Init => LocksOK
  BY DEF Init, LocksOK, InTransaction, IdleSubmitter
<1>2. QED
  BY <1>1, LocksStep, TypeCorrect, PTL DEF Spec

\* Only submit()'s commits complete the task through a link, and they hold its lock.
LEMMA CompletionStep == TypeOK /\ FramesOK /\ LocksOK /\ [Next]_vars => CompletionIsLive
<1> SUFFICES ASSUME TypeOK, FramesOK, LocksOK, [Next]_vars PROVE CompletionIsLive
  OBVIOUS
<1>1. ASSUME NEW new \in SUBSET Links, NEW published \in BOOLEAN, CreateRequests(new, published)
      PROVE  CompletionIsLive
  BY <1>1 DEF CreateRequests, history, CompletionIsLive
<1>2. ASSUME NEW w \in Workers, NEW l \in Links, NEW event \in BOOLEAN, NotifyStart(w, l, event)
      PROVE  CompletionIsLive
  BY <1>2 DEF NotifyStart, history, CompletionIsLive
<1>3. ASSUME NEW w \in Workers, NotifyFindsTaskClosed(w) PROVE CompletionIsLive
  BY <1>3 DEF NotifyFindsTaskClosed, history, CompletionIsLive
<1>4. ASSUME NEW w \in Workers, NotifyProceeds(w) PROVE CompletionIsLive
  BY <1>4 DEF NotifyProceeds, history, CompletionIsLive
<1>5. ASSUME NEW w \in Workers, NotifyParks(w) PROVE CompletionIsLive
  BY <1>5 DEF NotifyParks, history, CompletionIsLive
<1>6. ASSUME NEW w \in Workers, Claim(w) PROVE CompletionIsLive
  BY <1>6 DEF Claim, history, CompletionIsLive
<1>7. ASSUME NEW w \in Workers, ClaimRefused(w) PROVE CompletionIsLive
  BY <1>7 DEF ClaimRefused, history, CompletionIsLive
<1>8. ASSUME NEW w \in Workers, Send(w) PROVE CompletionIsLive
  BY <1>8 DEF Send, history, CompletionIsLive
<1>9. ASSUME NEW w \in Workers, SendFails(w) PROVE CompletionIsLive
  BY <1>9 DEF SendFails, history, CompletionIsLive
<1>9a. ASSUME NEW w \in Workers, SendLosesReply(w) PROVE CompletionIsLive
  BY <1>9a DEF SendLosesReply, CompletionIsLive
<1>10. ASSUME NEW w \in Workers, RecordSent(w) PROVE CompletionIsLive
  BY <1>10 DEF RecordSent, history, CompletionIsLive
<1>11. ASSUME NEW w \in Workers, RecordSentFails(w) PROVE CompletionIsLive
  BY <1>11 DEF RecordSentFails, history, CompletionIsLive
<1>12. ASSUME NEW w \in Workers, ReleaseFailed(w) PROVE CompletionIsLive
  BY <1>12 DEF ReleaseFailed, history, CompletionIsLive
<1>13. ASSUME NEW w \in Workers, WorkerCrash(w) PROVE CompletionIsLive
  BY <1>13 DEF WorkerCrash, history, CompletionIsLive
<1>14. ASSUME SweepParks PROVE CompletionIsLive
  BY <1>14 DEF SweepParks, history, CompletionIsLive
<1>15. ASSUME Revive PROVE CompletionIsLive
  BY <1>15 DEF Revive, history, CompletionIsLive
<1>16. ASSUME ChangeSmtp PROVE CompletionIsLive
  BY <1>16 DEF ChangeSmtp, history, CompletionIsLive
<1>17. ASSUME NEW l \in Links, LeaseLapses(l) PROVE CompletionIsLive
  BY <1>17 DEF LeaseLapses, history, CompletionIsLive
<1>18. ASSUME NEW l \in Links, LinkExpires(l) PROVE CompletionIsLive
  BY <1>18 DEF LinkExpires, history, CompletionIsLive
<1>19. ASSUME NEW l \in Links, ReissueFindsTaskClosed(l) PROVE CompletionIsLive
  BY <1>19 DEF ReissueFindsTaskClosed, history, CompletionIsLive
<1>20. ASSUME NEW l \in Links, Reissue(l) PROVE CompletionIsLive
  BY <1>20 DEF Reissue, history, CompletionIsLive
<1>21. ASSUME NEW l \in Links, SubmitRetires(l) PROVE CompletionIsLive
  BY <1>21 DEF SubmitRetires, history, CompletionIsLive
<1>22. ASSUME NEW v \in Visitors, NEW l \in Links, ShowStart(v, l) PROVE CompletionIsLive
  BY <1>22 DEF ShowStart, history, CompletionIsLive
<1>23. ASSUME NEW v \in Visitors, Show(v) PROVE CompletionIsLive
  BY <1>23 DEF Show, history, CompletionIsLive
<1>24. ASSUME NEW s \in Submitters, NEW l \in Links, SubmitStart(s, l) PROVE CompletionIsLive
  BY <1>24 DEF SubmitStart, history, CompletionIsLive
<1>25. ASSUME NEW s \in Submitters, SubmitCompletesTask(s) PROVE CompletionIsLive
  BY <1>25 DEF SubmitCompletesTask, history, CompletionIsLive
<1>26. ASSUME NEW s \in Submitters, SubmitInvalidState(s) PROVE CompletionIsLive
  BY <1>26 DEF SubmitInvalidState, history, CompletionIsLive
<1>27. ASSUME NEW s \in Submitters, SubmitError(s) PROVE CompletionIsLive
  BY <1>27 DEF SubmitError, history, CompletionIsLive
<1>28. ASSUME NEW s \in Submitters, SubmitCommits(s) PROVE CompletionIsLive
  BY <1>28, ConstantsAssumption DEF SubmitCommits, CompletionIsLive, FramesOK, LocksOK, InTransaction, Closed
<1>29. ASSUME NEW s \in Submitters, NEW next \in {"failing", "superseding"}, SubmitCommitsEarly(s, next)
      PROVE  CompletionIsLive
  BY <1>29, ConstantsAssumption DEF SubmitCommitsEarly, CompletionIsLive, FramesOK, LocksOK, InTransaction, Closed
<1>30. ASSUME NEW s \in Submitters, SubmitSupersedes(s) PROVE CompletionIsLive
  BY <1>30 DEF SubmitSupersedes, history, CompletionIsLive
<1>31. ASSUME NEW s \in Submitters, RecordFailure(s) PROVE CompletionIsLive
  BY <1>31 DEF RecordFailure, history, CompletionIsLive
<1>32. ASSUME NEW s \in Submitters, RecordTooLate(s) PROVE CompletionIsLive
  BY <1>32 DEF RecordTooLate, history, CompletionIsLive
<1>33. ASSUME NEW s \in Submitters, SubmitDeadlockVictim(s) PROVE CompletionIsLive
  BY <1>33 DEF SubmitDeadlockVictim, history, CompletionIsLive
<1>34. ASSUME NEW s \in Submitters, SubmitCrash(s) PROVE CompletionIsLive
  BY <1>34 DEF SubmitCrash, history, CompletionIsLive
<1>35. ASSUME NEW u \in InAppUsers, InAppCheck(u) PROVE CompletionIsLive
  BY <1>35 DEF InAppCheck, history, CompletionIsLive
<1>36. ASSUME NEW u \in InAppUsers, InAppComplete(u) PROVE CompletionIsLive
  BY <1>36 DEF InAppComplete, history, CompletionIsLive
<1>37. ASSUME Terminate PROVE CompletionIsLive
  BY <1>37 DEF Terminate, history, CompletionIsLive
<1>38. ASSUME CloseWithoutLinks PROVE CompletionIsLive
  BY <1>38 DEF CloseWithoutLinks, history, CompletionIsLive
<1>39. ASSUME Suspend PROVE CompletionIsLive
  BY <1>39 DEF Suspend, history, CompletionIsLive
<1>40. ASSUME UNCHANGED vars PROVE CompletionIsLive
  BY <1>40 DEF vars, history, CompletionIsLive
<1>41. QED
  <2> HIDE DEF CompletionIsLive
  <2>1. ASSUME NEW w \in Workers, WorkerStep(w) PROVE CompletionIsLive
    BY <2>1, <1>3, <1>4, <1>5, <1>6, <1>7, <1>8, <1>9, <1>9a, <1>10, <1>11, <1>12
       DEF WorkerStep
  <2>2. ASSUME NEW s \in Submitters, SubmitStep(s) PROVE CompletionIsLive
    BY <2>2, <1>25, <1>26, <1>27, <1>28, <1>29, <1>30, <1>31, <1>32, <1>33 DEF SubmitStep
  <2>3. QED
    BY <2>1, <2>2, <1>1, <1>2, <1>13, <1>14, <1>15, <1>16, <1>17, <1>18, <1>19, <1>20, <1>21, <1>22,
       <1>23, <1>24, <1>34, <1>35, <1>36, <1>37, <1>38, <1>39, <1>40 DEF Next

\* First valid submission wins: the task is completed through a link at most once, on a
\* usable row, by a submission that presented the reference the row still holds.
THEOREM CompletesOnLive == Spec => CompletesOnLiveLink
<1>1. TypeOK /\ FramesOK /\ LocksOK /\ [Next]_vars => [CompletionIsLive]_vars
  BY CompletionStep
<1>2. QED
  BY <1>1, TypeCorrect, LocksHold, PTL DEF Spec, CompletesOnLiveLink

\* A row is retired only under a closed task, when no instance is ever suspended.
LEMMA RetiredStep == ~MaySuspend /\ TypeOK /\ RetiredOK /\ [Next]_vars => RetiredOK'
<1> SUFFICES ASSUME ~MaySuspend, TypeOK, RetiredOK, [Next]_vars PROVE RetiredOK'
  OBVIOUS
<1>1. ASSUME NEW new \in SUBSET Links, NEW published \in BOOLEAN, CreateRequests(new, published)
      PROVE  RetiredOK'
  BY <1>1 DEF CreateRequests, RetiredOK, OpenTaskIsReissuable, Closed, NOT_REISSUABLE, TypeOK,
     columns, locks, engine, frames, history
<1>2. ASSUME NEW w \in Workers, NEW l \in Links, NEW event \in BOOLEAN, NotifyStart(w, l, event)
      PROVE  RetiredOK'
  BY <1>2 DEF NotifyStart, columns, locks, engine, frames, history, RetiredOK, OpenTaskIsReissuable, Closed
<1>3. ASSUME NEW w \in Workers, NotifyFindsTaskClosed(w) PROVE RetiredOK'
  BY <1>3 DEF NotifyFindsTaskClosed, WriteStatus, RetiredOK, OpenTaskIsReissuable, Closed,
     NOT_REISSUABLE, TypeOK, columns, locks, engine, frames, history
<1>4. ASSUME NEW w \in Workers, NotifyProceeds(w) PROVE RetiredOK'
  BY <1>4 DEF NotifyProceeds, columns, locks, engine, frames, history, RetiredOK, OpenTaskIsReissuable, Closed
<1>5. ASSUME NEW w \in Workers, NotifyParks(w) PROVE RetiredOK'
  BY <1>5 DEF NotifyParks, RetiredOK, OpenTaskIsReissuable, Closed, NOT_REISSUABLE, TypeOK, columns,
     locks, engine, frames, history
<1>6. ASSUME NEW w \in Workers, Claim(w) PROVE RetiredOK'
  BY <1>6 DEF Claim, RetiredOK, OpenTaskIsReissuable, Closed, NOT_REISSUABLE, TypeOK, columns,
     locks, engine, frames, history
<1>7. ASSUME NEW w \in Workers, ClaimRefused(w) PROVE RetiredOK'
  BY <1>7 DEF ClaimRefused, columns, locks, engine, frames, history, RetiredOK, OpenTaskIsReissuable, Closed
<1>8. ASSUME NEW w \in Workers, Send(w) PROVE RetiredOK'
  BY <1>8 DEF Send, columns, locks, engine, frames, history, RetiredOK, OpenTaskIsReissuable, Closed
<1>9. ASSUME NEW w \in Workers, SendFails(w) PROVE RetiredOK'
  BY <1>9 DEF SendFails, columns, locks, engine, frames, history, RetiredOK, OpenTaskIsReissuable, Closed
<1>9a. ASSUME NEW w \in Workers, SendLosesReply(w) PROVE RetiredOK'
  BY <1>9a DEF SendLosesReply, columns, locks, engine, frames, RetiredOK, OpenTaskIsReissuable, Closed
<1>10. ASSUME NEW w \in Workers, RecordSent(w) PROVE RetiredOK'
  BY <1>10 DEF RecordSent, RetiredOK, OpenTaskIsReissuable, Closed, NOT_REISSUABLE, TypeOK, columns,
     locks, engine, frames, history
<1>11. ASSUME NEW w \in Workers, RecordSentFails(w) PROVE RetiredOK'
  BY <1>11 DEF RecordSentFails, columns, locks, engine, frames, history, RetiredOK, OpenTaskIsReissuable, Closed
<1>12. ASSUME NEW w \in Workers, ReleaseFailed(w) PROVE RetiredOK'
  BY <1>12 DEF ReleaseFailed, RetiredOK, OpenTaskIsReissuable, Closed, NOT_REISSUABLE, TypeOK,
     columns, locks, engine, frames, history
<1>13. ASSUME NEW w \in Workers, WorkerCrash(w) PROVE RetiredOK'
  BY <1>13 DEF WorkerCrash, columns, locks, engine, frames, history, RetiredOK, OpenTaskIsReissuable, Closed
<1>14. ASSUME SweepParks PROVE RetiredOK'
  BY <1>14 DEF SweepParks, RetiredOK, OpenTaskIsReissuable, Closed, NOT_REISSUABLE, TypeOK, columns,
     locks, engine, frames, history
<1>15. ASSUME Revive PROVE RetiredOK'
  BY <1>15 DEF Revive, RetiredOK, OpenTaskIsReissuable, Closed, NOT_REISSUABLE, TypeOK, columns,
     locks, engine, frames, history
<1>16. ASSUME ChangeSmtp PROVE RetiredOK'
  BY <1>16 DEF ChangeSmtp, columns, locks, engine, frames, history, RetiredOK, OpenTaskIsReissuable, Closed
<1>17. ASSUME NEW l \in Links, LeaseLapses(l) PROVE RetiredOK'
  BY <1>17 DEF LeaseLapses, columns, locks, engine, frames, history, RetiredOK, OpenTaskIsReissuable, Closed
<1>18. ASSUME NEW l \in Links, LinkExpires(l) PROVE RetiredOK'
  BY <1>18 DEF LinkExpires, columns, locks, engine, frames, history, RetiredOK, OpenTaskIsReissuable, Closed
<1>19. ASSUME NEW l \in Links, ReissueFindsTaskClosed(l) PROVE RetiredOK'
  BY <1>19 DEF ReissueFindsTaskClosed, WriteStatus, RetiredOK, OpenTaskIsReissuable, Closed,
     NOT_REISSUABLE, TypeOK, columns, locks, engine, frames, history
<1>20. ASSUME NEW l \in Links, Reissue(l) PROVE RetiredOK'
  BY <1>20 DEF Reissue, RetiredOK, OpenTaskIsReissuable, Closed, NOT_REISSUABLE, TypeOK, columns,
     locks, engine, frames, history
<1>21. ASSUME NEW l \in Links, SubmitRetires(l) PROVE RetiredOK'
  BY <1>21 DEF SubmitRetires, WriteStatus, RetiredOK, OpenTaskIsReissuable, Closed, NOT_REISSUABLE,
     TypeOK, columns, locks, engine, frames, history
<1>22. ASSUME NEW v \in Visitors, NEW l \in Links, ShowStart(v, l) PROVE RetiredOK'
  BY <1>22 DEF ShowStart, columns, locks, engine, frames, history, RetiredOK, OpenTaskIsReissuable, Closed
<1>23. ASSUME NEW v \in Visitors, Show(v) PROVE RetiredOK'
  BY <1>23 DEF Show, WriteStatus, RetiredOK, OpenTaskIsReissuable, Closed, NOT_REISSUABLE, TypeOK,
     columns, locks, engine, frames, history
<1>24. ASSUME NEW s \in Submitters, NEW l \in Links, SubmitStart(s, l) PROVE RetiredOK'
  BY <1>24 DEF SubmitStart, RetiredOK, OpenTaskIsReissuable, Closed, NOT_REISSUABLE,
     SubmitterFrames, IdleSubmitter, TypeOK, columns, locks, engine, frames, history
<1>25. ASSUME NEW s \in Submitters, SubmitCompletesTask(s) PROVE RetiredOK'
  BY <1>25 DEF SubmitCompletesTask, Goto, RetiredOK, OpenTaskIsReissuable, Closed, NOT_REISSUABLE,
     SubmitterFrames, IdleSubmitter, TypeOK, columns, locks, engine, frames, history
<1>26. ASSUME NEW s \in Submitters, SubmitInvalidState(s) PROVE RetiredOK'
  BY <1>26 DEF SubmitInvalidState, Goto, ReleaseLocks, RetiredOK, OpenTaskIsReissuable, Closed,
     NOT_REISSUABLE, SubmitterFrames, IdleSubmitter, TypeOK, columns, locks, engine, frames, history
<1>27. ASSUME NEW s \in Submitters, SubmitError(s) PROVE RetiredOK'
  BY <1>27 DEF SubmitError, Goto, ReleaseLocks, RetiredOK, OpenTaskIsReissuable, Closed,
     NOT_REISSUABLE, SubmitterFrames, IdleSubmitter, TypeOK, columns, locks, engine, frames, history
<1>28. ASSUME NEW s \in Submitters, SubmitCommits(s) PROVE RetiredOK'
  BY <1>28 DEF SubmitCommits, CommitSuperseding, ReleaseLocks, Return, RetiredOK,
     OpenTaskIsReissuable, Closed, NOT_REISSUABLE, SubmitterFrames, IdleSubmitter, TypeOK, columns,
     locks, engine, frames, history
<1>29. ASSUME NEW s \in Submitters, NEW next \in {"failing", "superseding"}, SubmitCommitsEarly(s, next)
      PROVE  RetiredOK'
  BY <1>29 DEF SubmitCommitsEarly, ReleaseLocks, Goto, RetiredOK, OpenTaskIsReissuable, Closed,
     NOT_REISSUABLE, SubmitterFrames, IdleSubmitter, TypeOK, columns, locks, engine, frames, history
<1>30. ASSUME NEW s \in Submitters, SubmitSupersedes(s) PROVE RetiredOK'
  BY <1>30 DEF SubmitSupersedes, CommitSuperseding, Return, RetiredOK, OpenTaskIsReissuable, Closed,
     NOT_REISSUABLE, SubmitterFrames, IdleSubmitter, TypeOK, columns, locks, engine, frames, history
<1>31. ASSUME NEW s \in Submitters, RecordFailure(s) PROVE RetiredOK'
  BY <1>31 DEF RecordFailure, WriteStatus, Return, RetiredOK, OpenTaskIsReissuable, Closed,
     NOT_REISSUABLE, SubmitterFrames, IdleSubmitter, TypeOK, columns, locks, engine, frames, history
<1>32. ASSUME NEW s \in Submitters, RecordTooLate(s) PROVE RetiredOK'
  BY <1>32 DEF RecordTooLate, WriteStatus, Return, RetiredOK, OpenTaskIsReissuable, Closed,
     NOT_REISSUABLE, SubmitterFrames, IdleSubmitter, TypeOK, columns, locks, engine, frames, history
<1>33. ASSUME NEW s \in Submitters, SubmitDeadlockVictim(s) PROVE RetiredOK'
  BY <1>33 DEF SubmitDeadlockVictim, ReleaseLocks, Return, RetiredOK, OpenTaskIsReissuable, Closed,
     NOT_REISSUABLE, SubmitterFrames, IdleSubmitter, TypeOK, columns, locks, engine, frames, history
<1>34. ASSUME NEW s \in Submitters, SubmitCrash(s) PROVE RetiredOK'
  BY <1>34 DEF SubmitCrash, ReleaseLocks, Return, RetiredOK, OpenTaskIsReissuable, Closed,
     NOT_REISSUABLE, SubmitterFrames, IdleSubmitter, TypeOK, columns, locks, engine, frames, history
<1>35. ASSUME NEW u \in InAppUsers, InAppCheck(u) PROVE RetiredOK'
  BY <1>35 DEF InAppCheck, columns, locks, engine, frames, history, RetiredOK, OpenTaskIsReissuable, Closed
<1>36. ASSUME NEW u \in InAppUsers, InAppComplete(u) PROVE RetiredOK'
  BY <1>36 DEF InAppComplete, RetiredOK, OpenTaskIsReissuable, Closed, NOT_REISSUABLE, TypeOK,
     columns, locks, engine, frames, history
<1>37. ASSUME Terminate PROVE RetiredOK'
  BY <1>37 DEF Terminate, RetiredOK, OpenTaskIsReissuable, Closed, NOT_REISSUABLE, TypeOK, columns,
     locks, engine, frames, history
<1>38. ASSUME CloseWithoutLinks PROVE RetiredOK'
  BY <1>38 DEF CloseWithoutLinks, RetiredOK, OpenTaskIsReissuable, Closed, NOT_REISSUABLE, TypeOK,
     columns, locks, engine, frames, history
<1>39. ASSUME Suspend PROVE RetiredOK'
  BY <1>39 DEF Suspend
<1>40. ASSUME UNCHANGED vars PROVE RetiredOK'
  BY <1>40 DEF vars, columns, locks, engine, frames, history, RetiredOK, OpenTaskIsReissuable, Closed
<1>41. QED
  <2> HIDE DEF RetiredOK
  <2>1. ASSUME NEW w \in Workers, WorkerStep(w) PROVE RetiredOK'
    BY <2>1, <1>3, <1>4, <1>5, <1>6, <1>7, <1>8, <1>9, <1>9a, <1>10, <1>11, <1>12
       DEF WorkerStep
  <2>2. ASSUME NEW s \in Submitters, SubmitStep(s) PROVE RetiredOK'
    BY <2>2, <1>25, <1>26, <1>27, <1>28, <1>29, <1>30, <1>31, <1>32, <1>33 DEF SubmitStep
  <2>3. QED
    BY <2>1, <2>2, <1>1, <1>2, <1>13, <1>14, <1>15, <1>16, <1>17, <1>18, <1>19, <1>20, <1>21, <1>22,
       <1>23, <1>24, <1>34, <1>35, <1>36, <1>37, <1>38, <1>39, <1>40 DEF Next

\* As long as no operator suspends an instance, a link leaves the administrator's reach
\* only once its task has closed: whatever interleaves, crashes or fails in between.
THEOREM OpenIsReissuable == ASSUME ~MaySuspend PROVE Spec => []OpenTaskIsReissuable
<1>1. Init => RetiredOK
  BY DEF Init, RetiredOK, OpenTaskIsReissuable, NOT_REISSUABLE, IdleSubmitter
<1>2. TypeOK /\ RetiredOK /\ [Next]_vars => RetiredOK'
  BY RetiredStep
<1>3. RetiredOK => OpenTaskIsReissuable
  BY DEF RetiredOK
<1>4. QED
  BY <1>1, <1>2, <1>3, TypeCorrect, PTL DEF Spec
=============================================================================
