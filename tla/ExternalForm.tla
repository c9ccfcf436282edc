---------------------------- MODULE ExternalForm ----------------------------
(***************************************************************************)
(* The secure links of one external-form user task: the tracking rows of   *)
(* m8flow_external_form_requests, the notification workers that email      *)
(* them, the recipients who open and submit them, the administrator who    *)
(* re-issues them and the workflow that closes the task under them.        *)
(*                                                                         *)
(* Database (PostgreSQL, READ COMMITTED).  A column of the table is a      *)
(* function of the row.  A guarded UPDATE is one step that waits while the *)
(* row is locked and then evaluates its WHERE clause on the current row.   *)
(* An ORM write (row.status = x; commit) is unguarded: it writes x over    *)
(* whatever the row holds by then, however old the copy it was decided on. *)
(*                                                                         *)
(* Time is abstracted to what the code compares: notified_at is "null",    *)
(* "fresh" (within SEND_LEASE_SECONDS) or "stale", and expired[l] says     *)
(* whether expires_at_in_seconds has passed.  attempts saturates at        *)
(* MaxAttempts because only attempts < MaxAttempts is ever asked.          *)
(***************************************************************************)
EXTENDS Integers, FiniteSets

CONSTANTS
    Links,         \* the rows that can be created for the task
    Recipients,    \* potential owners of the task with an email address
    Owner,         \* Owner[l]: the recipient row l is created for
    Workers,       \* notification worker threads (event consumer, sweep)
    Submitters,    \* requests to POST a form, one thread each
    Visitors,      \* requests to GET a form, one thread each
    InAppUsers,    \* requests to complete the task on the in-app task page
    NoOne,         \* no submitter, no link
    MaxAttempts,   \* notification_max_attempts()
    MaxReissues,   \* bound: re-issues of one row
    MaxCrashes,    \* bound: processes that die in the middle of a call
    MaySuspend,    \* whether an operator suspends the process instance
    MayReconfigure,\* whether an administrator changes the SMTP secrets meanwhile
    SlowSends      \* whether an SMTP send may outlive the lease

ASSUME ConstantsAssumption ==
    /\ Owner \in [Links -> Recipients]
    /\ NoOne \notin Links \cup Submitters
    /\ MaxAttempts \in Nat \ {0}
    /\ MaxReissues \in Nat
    /\ MaxCrashes \in Nat
    /\ MaySuspend \in BOOLEAN
    /\ MayReconfigure \in BOOLEAN
    /\ SlowSends \in BOOLEAN

ACTIONABLE_STATUSES == {"pending", "sending", "notified", "failed"}
OPEN_STATUSES == ACTIONABLE_STATUSES \cup {"smtp_unconfigured"}
CLAIMABLE_STATUSES == {"pending", "failed"}
NOT_REISSUABLE == {"submitted", "completed", "superseded", "cancelled"}
Statuses == OPEN_STATUSES \cup NOT_REISSUABLE \cup {"expired", "absent"}

VARIABLES
    \* the tracking rows
    status, notifiedAt, expired, reference, attempts,
    \* lock[l]: the submit() that holds row l FOR UPDATE;
    \* itemLock: the submit() whose transaction has written the work item
    lock, itemLock,
    \* the work item, the process instance, the in-app completions past their guards
    task, suspended, inApp,
    \* tenant SMTP secrets, undelivered requests_created events
    smtp, events,
    \* call frames of the worker, visitor and submitter threads
    worker, visitor, submitter,
    \* bound and history: crashes so far, who completed the task through its link,
    \* emails the relay accepted, claims that lost their exclusivity while
    \* their worker was alive, accepted sends that notify() could not record
    crashes, winner, mails, overtaken, unrecorded

columns == <<status, notifiedAt, expired, reference, attempts>>
locks == <<lock, itemLock>>
engine == <<task, suspended, inApp>>
delivery == <<smtp, events>>
frames == <<worker, visitor, submitter>>
history == <<crashes, winner, mails, overtaken, unrecorded>>
vars == <<columns, locks, engine, delivery, frames, history>>

References == 0..MaxReissues

IdleWorker == [pc |-> "idle", link |-> NoOne, seen |-> "absent", ref |-> 0, event |-> FALSE]
IdleVisitor == [pc |-> "idle", link |-> NoOne, seen |-> "absent", late |-> FALSE]
IdleSubmitter == [pc |-> "idle", link |-> NoOne, ref |-> 0]

WorkerFrames ==
    [pc : {"idle", "read", "ready", "claimed", "accepted", "refused"},
     link : Links \cup {NoOne}, seen : Statuses, ref : References, event : BOOLEAN]
VisitorFrames ==
    [pc : {"idle", "read"}, link : Links \cup {NoOne}, seen : Statuses, late : BOOLEAN]
SubmitterFrames ==
    [pc : {"idle", "locked", "completing", "failing", "tooLate", "superseding"},
     link : Links \cup {NoOne}, ref : References]

TypeOK ==
    /\ status \in [Links -> Statuses]
    /\ notifiedAt \in [Links -> {"null", "fresh", "stale"}]
    /\ expired \in [Links -> BOOLEAN]
    /\ reference \in [Links -> References]
    /\ attempts \in [Links -> 0..MaxAttempts]
    /\ lock \in [Links -> Submitters \cup {NoOne}]
    /\ itemLock \in Submitters \cup {NoOne}
    /\ task \in {"open", "closed"}
    /\ suspended \in BOOLEAN
    /\ inApp \in SUBSET InAppUsers
    /\ smtp \in BOOLEAN
    /\ events \in SUBSET Links
    /\ worker \in [Workers -> WorkerFrames]
    /\ visitor \in [Visitors -> VisitorFrames]
    /\ submitter \in [Submitters -> SubmitterFrames]
    /\ crashes \in 0..MaxCrashes
    /\ winner \in Links \cup {NoOne}
    /\ mails \in [Links \X References -> 0..2]
    /\ overtaken \in [Links -> BOOLEAN]
    /\ unrecorded \in [Links -> BOOLEAN]

Init ==
    /\ status = [l \in Links |-> "absent"]
    /\ notifiedAt = [l \in Links |-> "null"]
    /\ expired = [l \in Links |-> FALSE]
    /\ reference = [l \in Links |-> 0]
    /\ attempts = [l \in Links |-> 0]
    /\ lock = [l \in Links |-> NoOne]
    /\ itemLock = NoOne
    /\ task = "open"
    /\ suspended = FALSE
    /\ inApp = {}
    /\ smtp \in BOOLEAN
    /\ events = {}
    /\ worker = [w \in Workers |-> IdleWorker]
    /\ visitor = [v \in Visitors |-> IdleVisitor]
    /\ submitter = [s \in Submitters |-> IdleSubmitter]
    /\ crashes = 0
    /\ winner = NoOne
    /\ mails = [e \in Links \X References |-> 0]
    /\ overtaken = [l \in Links |-> FALSE]
    /\ unrecorded = [l \in Links |-> FALSE]

(***************************************************************************)
(* Helpers                                                                 *)
(***************************************************************************)

IsOpen(l) == status[l] \in OPEN_STATUSES
Unlocked(l) == lock[l] = NoOne
Closed == task = "closed"

\* attempts + 1, saturating: see the module comment.
OneMore(n) == IF n < MaxAttempts THEN n + 1 ELSE n

\* One more email for a reference: none, one, several.
OneMail(n) == IF n < 2 THEN n + 1 ELSE n

\* (mutant of Claimable: a claim is taken over before its lease is up)
ClaimableIgnoringLease(l) ==
    \/ notifiedAt[l] = "null" /\ status[l] \in CLAIMABLE_STATUSES
    \/ status[l] = "sending"

\* _claimable(now): never claimed or released after a failed send, or stuck
\* in 'sending' past the lease.
Claimable(l) ==
    \/ notifiedAt[l] = "null" /\ status[l] \in CLAIMABLE_STATUSES
    \/ status[l] = "sending" /\ notifiedAt[l] = "stale"

\* (mutant of SweepCandidate: the sweep forgets rows a dead worker left 'sending')
SweepCandidateUnclaimed(l) ==
    /\ notifiedAt[l] = "null"
    /\ status[l] \in CLAIMABLE_STATUSES
    /\ attempts[l] < MaxAttempts

\* sweep_candidates(): claimable and not exhausted (the grace period only delays).
SweepCandidate(l) == Claimable(l) /\ attempts[l] < MaxAttempts

\* The worker holds a claim on the row: the email is being sent or recorded.
Sending(w) == worker[w].pc \in {"claimed", "accepted", "refused"}

\* An unguarded ORM write of one row's status, committed; waits for the row lock.
WriteStatus(l, s) ==
    /\ Unlocked(l)
    /\ status' = [status EXCEPT ![l] = s]

\* The recipient holds the link: the relay accepted an email carrying it.
Delivered(l) == mails[<<l, reference[l]>>] > 0

(***************************************************************************)
(* Producer: emit_requests_for_ready_tasks / create_requests_for_task      *)
(***************************************************************************)

\* One pending row for every recipient who holds no open one, in one commit; the
\* event that points the worker at them is published best-effort afterwards.
CreateRequests(new, published) ==
    /\ ~Closed
    /\ new # {}
    /\ \A l \in new : status[l] = "absent"
    /\ \A l, m \in new : Owner[l] = Owner[m] => l = m
    /\ {Owner[l] : l \in new} = Recipients \ {Owner[l] : l \in {m \in Links : IsOpen(m)}}
    /\ status' = [l \in Links |-> IF l \in new THEN "pending" ELSE status[l]]
    /\ events' = IF published THEN events \cup new ELSE events
    /\ UNCHANGED <<notifiedAt, expired, reference, attempts, locks, engine, smtp, frames, history>>

(***************************************************************************)
(* Notification worker: ExternalFormNotificationService.notify, called for *)
(* the rows of an event and by the periodic sweep                          *)
(***************************************************************************)

\* notify() returned: the event, if that is what led here, is acknowledged.
Finish(w) ==
    /\ worker' = [worker EXCEPT ![w] = IdleWorker]
    /\ events' = IF worker[w].event THEN events \ {worker[w].link} ELSE events

\* notify() loads the row, without a lock.
NotifyStart(w, l, event) ==
    /\ worker[w].pc = "idle"
    /\ IF event THEN l \in events ELSE SweepCandidate(l)
    /\ worker' = [worker EXCEPT ![w] =
                    [pc |-> "read", link |-> l, seen |-> status[l], ref |-> 0, event |-> event]]
    /\ UNCHANGED <<columns, locks, engine, delivery, visitor, submitter, history>>

\* cancel_if_task_closed on the row as loaded: the work item is read now, the
\* status it is combined with was read before.
NotifyFindsTaskClosed(w) ==
    LET l == worker[w].link IN
    /\ worker[w].pc = "read"
    /\ \/ /\ worker[w].seen \in OPEN_STATUSES
          /\ Closed
          /\ WriteStatus(l, "cancelled")
       \/ /\ worker[w].seen = "cancelled"
          /\ status' = status
    /\ Finish(w)
    /\ UNCHANGED <<notifiedAt, expired, reference, attempts, locks, engine, smtp,
                   visitor, submitter, history>>

\* The task is open, the row was already closed otherwise, or the work item
\* could not be read (logged and ignored).
NotifyProceeds(w) ==
    /\ worker[w].pc = "read"
    /\ worker[w].seen # "cancelled"
    /\ worker' = [worker EXCEPT ![w] =
                    [pc |-> "ready", link |-> @.link, seen |-> "absent", ref |-> 0, event |-> @.event]]
    /\ UNCHANGED <<columns, locks, engine, delivery, visitor, submitter, history>>

\* No usable SMTP secrets: mark_smtp_unconfigured parks the row.
NotifyParks(w) ==
    LET l == worker[w].link IN
    /\ worker[w].pc = "ready"
    /\ ~smtp
    /\ Unlocked(l)
    /\ status' = [status EXCEPT ![l] = IF Claimable(l) THEN "smtp_unconfigured" ELSE @]
    /\ notifiedAt' = [notifiedAt EXCEPT ![l] = IF Claimable(l) THEN "null" ELSE @]
    /\ Finish(w)
    /\ UNCHANGED <<expired, reference, attempts, locks, engine, smtp, visitor, submitter, history>>

\* (mutant of Claim: the row is looked at when notify() loads it, and the UPDATE has
\* no condition of its own)
ClaimUnguarded(w) ==
    LET l == worker[w].link IN
    /\ worker[w].pc = "ready"
    /\ smtp
    /\ Unlocked(l)
    /\ status' = [status EXCEPT ![l] = "sending"]
    /\ notifiedAt' = [notifiedAt EXCEPT ![l] = "fresh"]
    /\ expired' = [expired EXCEPT ![l] = FALSE]
    /\ attempts' = [attempts EXCEPT ![l] = OneMore(@)]
    /\ worker' = [worker EXCEPT ![w] =
                    [pc |-> "claimed", link |-> l, seen |-> "absent", ref |-> reference[l],
                     event |-> @.event]]
    /\ UNCHANGED <<reference, locks, engine, delivery, visitor, submitter, history>>

\* claim() took the row; the refresh that follows loads the reference the email
\* will carry.
Claim(w) ==
    LET l == worker[w].link IN
    /\ worker[w].pc = "ready"
    /\ smtp
    /\ Unlocked(l)
    /\ Claimable(l)
    /\ status' = [status EXCEPT ![l] = "sending"]
    /\ notifiedAt' = [notifiedAt EXCEPT ![l] = "fresh"]
    /\ expired' = [expired EXCEPT ![l] = FALSE]
    /\ attempts' = [attempts EXCEPT ![l] = OneMore(@)]
    /\ worker' = [worker EXCEPT ![w] =
                    [pc |-> "claimed", link |-> l, seen |-> "absent", ref |-> reference[l],
                     event |-> @.event]]
    /\ UNCHANGED <<reference, locks, engine, delivery, visitor, submitter, history>>

\* claim() matched no row: somebody else owns it, or nothing is owed.
ClaimRefused(w) ==
    LET l == worker[w].link IN
    /\ worker[w].pc = "ready"
    /\ smtp
    /\ Unlocked(l)
    /\ ~Claimable(l)
    /\ Finish(w)
    /\ UNCHANGED <<columns, locks, engine, smtp, visitor, submitter, history>>

\* The relay accepts the message.
Send(w) ==
    LET l == worker[w].link
        r == worker[w].ref IN
    /\ worker[w].pc = "claimed"
    /\ mails' = [mails EXCEPT ![<<l, r>>] = OneMail(@)]
    /\ worker' = [worker EXCEPT ![w].pc = "accepted"]
    /\ UNCHANGED <<columns, locks, engine, delivery, visitor, submitter,
                   crashes, winner, overtaken, unrecorded>>

\* (mutant of SendFails: the exception is swallowed and the send recorded)
SendFailsSilently(w) ==
    /\ worker[w].pc = "claimed"
    /\ worker' = [worker EXCEPT ![w].pc = "accepted"]
    /\ UNCHANGED <<columns, locks, engine, delivery, visitor, submitter, history>>

\* send_email raises before the relay took the message, or the link's scheme is
\* not http(s) and nothing is sent.
SendFails(w) ==
    /\ worker[w].pc = "claimed"
    /\ worker' = [worker EXCEPT ![w].pc = "refused"]
    /\ UNCHANGED <<columns, locks, engine, delivery, visitor, submitter, history>>

\* The relay accepts the message and send_email raises all the same: the reply to
\* DATA is lost, or the QUIT on leaving the connection fails.  The handler cannot
\* tell, and releases the row.
SendLosesReply(w) ==
    LET l == worker[w].link
        r == worker[w].ref IN
    /\ worker[w].pc = "claimed"
    /\ mails' = [mails EXCEPT ![<<l, r>>] = OneMail(@)]
    /\ unrecorded' = [unrecorded EXCEPT ![l] = TRUE]
    /\ worker' = [worker EXCEPT ![w].pc = "refused"]
    /\ UNCHANGED <<columns, locks, engine, delivery, visitor, submitter,
                   crashes, winner, overtaken>>

\* (mutant of RecordSent: the row gets the name of notify()'s result, not its status)
RecordSentAsResult(w) ==
    LET l == worker[w].link IN
    /\ worker[w].pc = "accepted"
    /\ Unlocked(l)
    /\ status' = [status EXCEPT ![l] = IF @ = "sending" THEN "sent" ELSE @]
    /\ Finish(w)
    /\ UNCHANGED <<notifiedAt, expired, reference, attempts, locks, engine, smtp,
                   visitor, submitter, history>>

\* _record_sent: mark_sent's guarded UPDATE succeeds on one of its tries.
RecordSent(w) ==
    LET l == worker[w].link IN
    /\ worker[w].pc = "accepted"
    /\ Unlocked(l)
    /\ status' = [status EXCEPT ![l] = IF @ = "sending" THEN "notified" ELSE @]
    /\ Finish(w)
    /\ UNCHANGED <<notifiedAt, expired, reference, attempts, locks, engine, smtp,
                   visitor, submitter, history>>

\* _record_sent gives up after MARK_SENT_ATTEMPTS database errors.
RecordSentFails(w) ==
    /\ worker[w].pc = "accepted"
    /\ unrecorded' = [unrecorded EXCEPT ![worker[w].link] = TRUE]
    /\ Finish(w)
    /\ UNCHANGED <<columns, locks, engine, smtp, visitor, submitter,
                   crashes, winner, mails, overtaken>>

\* release_failed: back to the sweep, if the row is still 'sending'.
ReleaseFailed(w) ==
    LET l == worker[w].link IN
    /\ worker[w].pc = "refused"
    /\ Unlocked(l)
    /\ notifiedAt' = [notifiedAt EXCEPT ![l] = IF status[l] = "sending" THEN "null" ELSE @]
    /\ status' = [status EXCEPT ![l] = IF @ = "sending" THEN "failed" ELSE @]
    /\ Finish(w)
    /\ UNCHANGED <<expired, reference, attempts, locks, engine, smtp, visitor, submitter, history>>

\* The worker process dies inside notify(): its event is redelivered.
WorkerCrash(w) ==
    /\ worker[w].pc # "idle"
    /\ crashes < MaxCrashes
    /\ crashes' = crashes + 1
    /\ unrecorded' = [l \in Links |->
                        unrecorded[l] \/ (worker[w].pc = "accepted" /\ worker[w].link = l)]
    /\ worker' = [worker EXCEPT ![w] = IdleWorker]
    /\ UNCHANGED <<columns, locks, engine, delivery, visitor, submitter, winner, mails, overtaken>>

\* _run_sweep for a tenant without SMTP secrets: one statement parks every candidate.
SweepParks ==
    LET parked == {l \in Links : SweepCandidate(l)} IN
    /\ ~smtp
    /\ parked # {}
    /\ \A l \in parked : Unlocked(l)
    /\ status' = [l \in Links |-> IF l \in parked THEN "smtp_unconfigured" ELSE status[l]]
    /\ notifiedAt' = [l \in Links |-> IF l \in parked THEN "null" ELSE notifiedAt[l]]
    /\ UNCHANGED <<expired, reference, attempts, locks, engine, delivery, frames, history>>

\* _revive_reconfigured_tenants: the tenant's SMTP secrets are usable again.
Revive ==
    LET revived == {l \in Links : status[l] = "smtp_unconfigured"} IN
    /\ smtp
    /\ revived # {}
    /\ \A l \in revived : Unlocked(l)
    /\ status' = [l \in Links |-> IF l \in revived THEN "pending" ELSE status[l]]
    /\ notifiedAt' = [l \in Links |-> IF l \in revived THEN "null" ELSE notifiedAt[l]]
    /\ attempts' = [l \in Links |-> IF l \in revived THEN 0 ELSE attempts[l]]
    /\ UNCHANGED <<expired, reference, locks, engine, delivery, frames, history>>

\* A tenant administrator adds or removes the SMTP secrets.
ChangeSmtp ==
    /\ MayReconfigure
    /\ smtp' = ~smtp
    /\ UNCHANGED <<columns, locks, engine, events, frames, history>>

(***************************************************************************)
(* Time                                                                    *)
(***************************************************************************)

\* SEND_LEASE_SECONDS pass since the claim.  Without SlowSends every live send
\* ends before that.
LeaseLapses(l) ==
    LET alive == {w \in Workers : Sending(w) /\ worker[w].link = l} IN
    /\ status[l] = "sending"
    /\ notifiedAt[l] = "fresh"
    /\ alive = {} \/ SlowSends
    /\ notifiedAt' = [notifiedAt EXCEPT ![l] = "stale"]
    /\ overtaken' = [overtaken EXCEPT ![l] = @ \/ alive # {}]
    /\ UNCHANGED <<status, expired, reference, attempts, locks, engine, delivery, frames,
                   crashes, winner, mails, unrecorded>>

\* expires_at_in_seconds passes.  A claim restamps it with a lifetime longer than
\* the lease, so a row cannot expire inside the lease.
LinkExpires(l) ==
    /\ IsOpen(l)
    /\ status[l] = "sending" => notifiedAt[l] = "stale"
    /\ ~expired[l]
    /\ expired' = [expired EXCEPT ![l] = TRUE]
    /\ UNCHANGED <<status, notifiedAt, reference, attempts, locks, engine, delivery, frames, history>>

(***************************************************************************)
(* Administrator: ExternalFormService.reissue                              *)
(***************************************************************************)

\* The row is read FOR UPDATE; a row whose task closed is cancelled and refused.
ReissueFindsTaskClosed(l) ==
    /\ IsOpen(l)
    /\ Closed
    /\ WriteStatus(l, "cancelled")
    /\ UNCHANGED <<notifiedAt, expired, reference, attempts, locks, engine, delivery, frames, history>>

\* A fresh reference, queued for the sweep.
Reissue(l) ==
    /\ Unlocked(l)
    /\ ~(IsOpen(l) /\ Closed)
    /\ status[l] \notin NOT_REISSUABLE \cup {"absent"}
    /\ ~(status[l] = "sending" /\ notifiedAt[l] = "fresh")
    /\ reference[l] < MaxReissues
    /\ reference' = [reference EXCEPT ![l] = @ + 1]
    /\ status' = [status EXCEPT ![l] = "pending"]
    /\ expired' = [expired EXCEPT ![l] = FALSE]
    /\ notifiedAt' = [notifiedAt EXCEPT ![l] = "null"]
    /\ attempts' = [attempts EXCEPT ![l] = 0]
    /\ overtaken' = [overtaken EXCEPT ![l] =
                        @ \/ \E w \in Workers : Sending(w) /\ worker[w].link = l]
    /\ UNCHANGED <<locks, engine, delivery, frames, crashes, winner, mails, unrecorded>>

(***************************************************************************)
(* Recipient opens the link: ExternalFormService.get_form_context          *)
(***************************************************************************)

\* The row is found by its current reference and loaded without a lock.
ShowStart(v, l) ==
    /\ visitor[v].pc = "idle"
    /\ status[l] # "absent"
    /\ Delivered(l)
    /\ visitor' = [visitor EXCEPT ![v] =
                     [pc |-> "read", link |-> l, seen |-> status[l], late |-> expired[l]]]
    /\ UNCHANGED <<columns, locks, engine, delivery, worker, submitter, history>>

\* _expire_if_needed, then cancel_if_task_closed, both on the row as loaded.  The
\* last disjunct also covers a work item that could not be read.
Show(v) ==
    LET l == visitor[v].link
        open == visitor[v].seen \in OPEN_STATUSES IN
    /\ visitor[v].pc = "read"
    /\ \/ open /\ visitor[v].late /\ WriteStatus(l, "expired")
       \/ open /\ ~visitor[v].late /\ Closed /\ WriteStatus(l, "cancelled")
       \/ ~(open /\ visitor[v].late) /\ status' = status
    /\ visitor' = [visitor EXCEPT ![v] = IdleVisitor]
    /\ UNCHANGED <<notifiedAt, expired, reference, attempts, locks, engine, delivery,
                   worker, submitter, history>>

(***************************************************************************)
(* Recipient submits the form: ExternalFormService.submit                  *)
(***************************************************************************)

\* rollback() or commit() ends submitter s's transaction and frees its locks.
ReleaseLocks(s) ==
    /\ lock' = [l \in Links |-> IF lock[l] = s THEN NoOne ELSE lock[l]]
    /\ itemLock' = IF itemLock = s THEN NoOne ELSE itemLock

Goto(s, pc) == submitter' = [submitter EXCEPT ![s].pc = pc]
Return(s) == submitter' = [submitter EXCEPT ![s] = IdleSubmitter]

\* (mutant of SubmitStart: the row is read without FOR UPDATE)
SubmitStartUnlocked(s, l) ==
    /\ submitter[s].pc = "idle"
    /\ Delivered(l)
    /\ status[l] \in ACTIONABLE_STATUSES
    /\ ~expired[l]
    /\ ~Closed
    /\ submitter' = [submitter EXCEPT ![s] = [pc |-> "locked", link |-> l, ref |-> reference[l]]]
    /\ UNCHANGED <<columns, locks, engine, delivery, worker, visitor, history>>

\* (mutant of SubmitStart: 'submitted' is committed before the task is completed)
SubmitStartCommitting(s, l) ==
    /\ submitter[s].pc = "idle"
    /\ Delivered(l)
    /\ status[l] \in ACTIONABLE_STATUSES
    /\ ~expired[l]
    /\ ~Closed
    /\ WriteStatus(l, "submitted")
    /\ submitter' = [submitter EXCEPT ![s] = [pc |-> "locked", link |-> l, ref |-> reference[l]]]
    /\ UNCHANGED <<notifiedAt, expired, reference, attempts, locks, engine, delivery,
                   worker, visitor, history>>

\* The row is locked FOR UPDATE, usable, in time and its task open: submit() keeps
\* the lock.
SubmitStart(s, l) ==
    /\ submitter[s].pc = "idle"
    /\ Delivered(l)
    /\ Unlocked(l)
    /\ status[l] \in ACTIONABLE_STATUSES
    /\ ~expired[l]
    /\ ~Closed
    /\ lock' = [lock EXCEPT ![l] = s]
    /\ submitter' = [submitter EXCEPT ![s] = [pc |-> "locked", link |-> l, ref |-> reference[l]]]
    /\ UNCHANGED <<columns, itemLock, engine, delivery, worker, visitor, history>>

\* The link is late, or its task closed: the row is retired and the form refused.
SubmitRetires(l) ==
    /\ Delivered(l)
    /\ status[l] \in ACTIONABLE_STATUSES
    /\ \/ expired[l] /\ WriteStatus(l, "expired")
       \/ ~expired[l] /\ Closed /\ WriteStatus(l, "cancelled")
    /\ UNCHANGED <<notifiedAt, expired, reference, attempts, locks, engine, delivery, frames, history>>

\* submit_external_form: claim and complete in submit()'s transaction; the work
\* item is written, nothing is committed yet.
SubmitCompletesTask(s) ==
    /\ submitter[s].pc = "locked"
    /\ itemLock = NoOne
    /\ ~Closed
    /\ ~suspended
    /\ itemLock' = s
    /\ Goto(s, "completing")
    /\ UNCHANGED <<columns, lock, engine, delivery, worker, visitor, history>>

\* claim answers invalid_state: the task was completed meanwhile, or its instance
\* is suspended (_reject_task_write_if_instance_suspended).  rollback().
SubmitInvalidState(s) ==
    /\ submitter[s].pc = "locked"
    /\ suspended \/ (itemLock = NoOne /\ Closed)
    /\ ReleaseLocks(s)
    /\ Goto(s, "tooLate")
    /\ UNCHANGED <<columns, engine, delivery, worker, visitor, history>>

\* Any other error (recipient gone, engine error, chosen by the database as the
\* victim of a deadlock): _record_failure starts with rollback().
SubmitError(s) ==
    /\ submitter[s].pc = "locked"
    /\ ReleaseLocks(s)
    /\ Goto(s, "failing")
    /\ UNCHANGED <<columns, engine, delivery, worker, visitor, history>>

\* submit()'s own commit: the task, the row and the superseded siblings together.
\* It waits for the siblings' row locks.
Supersedes(l, m) == m # l /\ IsOpen(m)

CommitSuperseding(l, mine) ==
    /\ \A m \in Links : Supersedes(l, m) => lock[m] \in {NoOne, mine}
    /\ status' = [m \in Links |-> IF m = l THEN "completed"
                                  ELSE IF Supersedes(l, m) THEN "superseded"
                                  ELSE status[m]]

SubmitCommits(s) ==
    LET l == submitter[s].link IN
    /\ submitter[s].pc = "completing"
    /\ CommitSuperseding(l, s)
    /\ task' = "closed"
    /\ winner' = l
    /\ ReleaseLocks(s)
    /\ Return(s)
    /\ UNCHANGED <<notifiedAt, expired, reference, attempts, suspended, inApp, delivery,
                   worker, visitor, crashes, mails, overtaken, unrecorded>>

\* complete() commits before submit() does, with the row still 'submitted': the
\* automatic step after the task failed (an error follows), or the hook that
\* issues links for the next external-form task committed them.
SubmitCommitsEarly(s, next) ==
    LET l == submitter[s].link IN
    /\ submitter[s].pc = "completing"
    /\ next \in {"failing", "superseding"}
    /\ status' = [status EXCEPT ![l] = "submitted"]
    /\ task' = "closed"
    /\ winner' = l
    /\ ReleaseLocks(s)
    /\ Goto(s, next)
    /\ UNCHANGED <<notifiedAt, expired, reference, attempts, suspended, inApp, delivery,
                   worker, visitor, crashes, mails, overtaken, unrecorded>>

\* The rest of submit() after an early commit.
SubmitSupersedes(s) ==
    LET l == submitter[s].link IN
    /\ submitter[s].pc = "superseding"
    /\ Unlocked(l)
    /\ CommitSuperseding(l, s)
    /\ Return(s)
    /\ UNCHANGED <<notifiedAt, expired, reference, attempts, locks, engine, delivery,
                   worker, visitor, history>>

\* _record_failure after its rollback: an unguarded write.
RecordFailure(s) ==
    LET l == submitter[s].link IN
    /\ submitter[s].pc = "failing"
    /\ WriteStatus(l, "failed")
    /\ attempts' = [attempts EXCEPT ![l] = OneMore(@)]
    /\ Return(s)
    /\ UNCHANGED <<notifiedAt, expired, reference, locks, engine, delivery, worker, visitor, history>>

\* The invalid_state branch after its rollback: an unguarded write.
RecordTooLate(s) ==
    /\ submitter[s].pc = "tooLate"
    /\ WriteStatus(submitter[s].link, "completed")
    /\ Return(s)
    /\ UNCHANGED <<notifiedAt, expired, reference, attempts, locks, engine, delivery,
                   worker, visitor, history>>

\* Two submits that wait for each other: s for a sibling row, another for the work
\* item.  The database aborts s's commit and the request is rolled back.
SubmitDeadlockVictim(s) ==
    /\ submitter[s].pc = "completing"
    /\ \E m \in Links : Supersedes(submitter[s].link, m) /\ lock[m] \notin {NoOne, s}
    /\ ReleaseLocks(s)
    /\ Return(s)
    /\ UNCHANGED <<columns, engine, delivery, worker, visitor, history>>

\* The API process dies inside submit(): its transaction is rolled back.
SubmitCrash(s) ==
    /\ submitter[s].pc # "idle"
    /\ crashes < MaxCrashes
    /\ crashes' = crashes + 1
    /\ ReleaseLocks(s)
    /\ Return(s)
    /\ UNCHANGED <<columns, engine, delivery, worker, visitor, winner, mails, overtaken, unrecorded>>

(***************************************************************************)
(* The workflow around the links                                           *)
(***************************************************************************)

\* _reject_in_app_completion_of_external_form_task lets an in-app completion pass.
InAppCheck(u) ==
    /\ u \notin inApp
    /\ ~Closed
    /\ ~suspended
    /\ \A l \in Links : IsOpen(l) => expired[l]
    /\ inApp' = inApp \cup {u}
    /\ UNCHANGED <<columns, locks, task, suspended, delivery, frames, history>>

\* ... and the completion itself: the engine refuses a task that closed meanwhile.
InAppComplete(u) ==
    /\ u \in inApp
    /\ itemLock = NoOne
    /\ task' = "closed"
    /\ inApp' = inApp \ {u}
    /\ UNCHANGED <<columns, locks, suspended, delivery, frames, history>>

\* terminate_instance: the task is closed and, unless the best-effort hook fails,
\* the open links are cancelled in the same transaction.
Terminate ==
    /\ ~Closed
    /\ itemLock = NoOne
    /\ \A l \in Links : IsOpen(l) => Unlocked(l)
    /\ task' = "closed"
    /\ status' = [l \in Links |-> IF IsOpen(l) THEN "cancelled" ELSE status[l]]
    /\ UNCHANGED <<notifiedAt, expired, reference, attempts, locks, suspended, inApp,
                   delivery, frames, history>>

\* The task closes and its links stay as they are: a boundary event cancelled it,
\* or terminate's hook failed.
CloseWithoutLinks ==
    /\ ~Closed
    /\ itemLock = NoOne
    /\ task' = "closed"
    /\ UNCHANGED <<columns, locks, suspended, inApp, delivery, frames, history>>

\* suspend_instance and resume_instance.
Suspend ==
    /\ MaySuspend
    /\ ~Closed
    /\ suspended' = ~suspended
    /\ UNCHANGED <<columns, locks, task, inApp, delivery, frames, history>>

-----------------------------------------------------------------------------

WorkerStep(w) ==
    \/ NotifyFindsTaskClosed(w) \/ NotifyProceeds(w) \/ NotifyParks(w)
    \/ Claim(w) \/ ClaimRefused(w) \/ Send(w) \/ SendFails(w) \/ SendLosesReply(w)
    \/ RecordSent(w) \/ RecordSentFails(w) \/ ReleaseFailed(w)

SubmitStep(s) ==
    \/ SubmitCompletesTask(s) \/ SubmitInvalidState(s) \/ SubmitError(s)
    \/ SubmitCommits(s)
    \/ SubmitCommitsEarly(s, "failing") \/ SubmitCommitsEarly(s, "superseding")
    \/ SubmitSupersedes(s) \/ RecordFailure(s) \/ RecordTooLate(s)
    \/ SubmitDeadlockVictim(s)

Next ==
    \/ \E new \in SUBSET Links, published \in BOOLEAN : CreateRequests(new, published)
    \/ \E w \in Workers, l \in Links, event \in BOOLEAN : NotifyStart(w, l, event)
    \/ \E w \in Workers : WorkerStep(w) \/ WorkerCrash(w)
    \/ SweepParks \/ Revive \/ ChangeSmtp
    \/ \E l \in Links : \/ LeaseLapses(l) \/ LinkExpires(l)
                        \/ ReissueFindsTaskClosed(l) \/ Reissue(l) \/ SubmitRetires(l)
    \/ \E v \in Visitors, l \in Links : ShowStart(v, l)
    \/ \E v \in Visitors : Show(v)
    \/ \E s \in Submitters, l \in Links : SubmitStart(s, l)
    \/ \E s \in Submitters : SubmitStep(s) \/ SubmitCrash(s)
    \/ \E u \in InAppUsers : InAppCheck(u) \/ InAppComplete(u)
    \/ Terminate \/ CloseWithoutLinks \/ Suspend

Spec == Init /\ [][Next]_vars

(***************************************************************************)
(* Fairness: the sweep loop runs forever, a call that was entered goes on  *)
(* unless its process dies, and time passes.  Nothing is assumed of        *)
(* recipients, administrators or the engine.                               *)
(***************************************************************************)
Fairness ==
    /\ \A l \in Links : WF_vars(\E w \in Workers : NotifyStart(w, l, FALSE))
    /\ \A l \in Links : WF_vars(LeaseLapses(l))
    /\ \A w \in Workers : WF_vars(WorkerStep(w))
    /\ \A s \in Submitters : WF_vars(SubmitStep(s))

LiveSpec == Spec /\ Fairness

(***************************************************************************)
(* Properties                                                              *)
(***************************************************************************)

\* A link leaves the administrator's reach (submitted, completed, superseded,
\* cancelled: reissue() answers 409) only once its task has closed.  reissue()
\* "works for any request whose task is still open", and submit() promises that a
\* crash cannot leave the link consumed while the task is open.  The statuses are
\* written on stale copies, after rollbacks and by best-effort hooks.
OpenTaskIsReissuable ==
    \A l \in Links : status[l] \in NOT_REISSUABLE => Closed

\* "First valid submission wins": the task is completed through a link at most
\* once, by a submit() that presented the reference the row still holds (a re-issue
\* has not killed it) while the row is still usable (not parked, expired, retired).
CompletionIsLive ==
    winner' # winner =>
        /\ winner = NoOne
        /\ ~Closed
        /\ \E s \in Submitters : /\ submitter[s].link = winner'
                                  /\ submitter[s].ref = reference[winner']
                                  /\ status[winner'] \in ACTIONABLE_STATUSES

CompletesOnLiveLink == [][CompletionIsLive]_vars

\* The atomic claim: two workers are never emailing the same request, unless the
\* first one's claim was taken from it alive, by the lease or by a re-issue.
SingleSender ==
    \A w, x \in Workers :
        Sending(w) /\ Sending(x) /\ worker[w].link = worker[x].link
            => w = x \/ overtaken[worker[w].link]

\* A row that says 'notified' carries a reference that was really emailed
\* (mark_sent's guard), again unless a claim was overtaken.
NotifiedWasMailed ==
    \A l \in Links : status[l] = "notified" /\ ~overtaken[l] => Delivered(l)

\* The same link is emailed twice only when an earlier send of the row could not be
\* recorded (a crash, database errors, an SMTP error after the relay had taken the
\* message) or its claim was overtaken: a failed resume, a late event or a race with
\* the sweep never re-sends one.
MailedOnce ==
    \A l \in Links, r \in References :
        mails[<<l, r>>] > 1 => unrecorded[l] \/ overtaken[l]

\* A link that completed its task is not reported 'cancelled', the status of a link
\* whose task "closed without it".
WinnerNotCancelled ==
    \A l \in Links : winner = l => status[l] # "cancelled"

\* An email still owed, with attempts left.
Owed(l) ==
    /\ attempts[l] < MaxAttempts
    /\ \/ status[l] \in {"pending", "sending"}
       \/ status[l] = "failed" /\ notifiedAt[l] = "null"

\* Every request owed an email is eventually sent, parked, retired or out of
\* attempts: a lost event, a dead worker or a failed send only delays it.
OwedIsResolved == \A l \in Links : Owed(l) ~> ~Owed(l)

(***************************************************************************)
(* Inductive strengthening of the invariants above (ExternalFormProofs)    *)
(***************************************************************************)

\* A thread inside a call works on a row.
FramesOK ==
    /\ \A w \in Workers : worker[w].pc # "idle" => worker[w].link \in Links
    /\ \A v \in Visitors : visitor[v].pc # "idle" => visitor[v].link \in Links
    /\ \A s \in Submitters : submitter[s].pc # "idle" => submitter[s].link \in Links

InTransaction(s) == submitter[s].pc \in {"locked", "completing"}

\* What the row lock and the work item's lock buy submit().
LocksOK ==
    /\ \A s \in Submitters : InTransaction(s) =>
          LET l == submitter[s].link IN
          /\ lock[l] = s
          /\ reference[l] = submitter[s].ref
          /\ status[l] \in ACTIONABLE_STATUSES
    /\ \A s \in Submitters : submitter[s].pc = "completing" => itemLock = s /\ ~Closed
    /\ winner # NoOne => Closed

\* A retired row has a closed task, and so has every submission about to retire one.
RetiredOK ==
    /\ ~suspended
    /\ \A s \in Submitters : submitter[s].pc \in {"superseding", "tooLate"} => Closed
    /\ OpenTaskIsReissuable

\* What a claim buys its worker until it is overtaken: nobody can claim the row, and
\* the email carries the row's reference.
ClaimsOK ==
    \A w \in Workers : Sending(w) /\ ~overtaken[worker[w].link] =>
        LET l == worker[w].link IN
        /\ status[l] \notin {"absent", "pending", "smtp_unconfigured"}
        /\ notifiedAt[l] # "null"
        /\ status[l] = "sending" => notifiedAt[l] = "fresh"
        /\ worker[w].ref = reference[l]

Excused(l) == unrecorded[l] \/ overtaken[l]

\* The emails a row's references account for: none before the relay accepts, and
\* none again once it has.
MailsOK ==
    /\ \A l \in Links, r \in References : r > reference[l] => mails[<<l, r>>] = 0
    /\ \A w \in Workers : worker[w].pc = "accepted" => mails[<<worker[w].link, worker[w].ref>>] > 0
    /\ \A w \in Workers : Sending(w) => worker[w].ref <= reference[worker[w].link]
    /\ \A w \in Workers :
          worker[w].pc \in {"claimed", "refused"} /\ ~Excused(worker[w].link)
            => mails[<<worker[w].link, worker[w].ref>>] = 0
    /\ \A l \in Links : Delivered(l) /\ ~Excused(l) =>
          /\ status[l] \notin {"absent", "pending", "smtp_unconfigured"}
          /\ notifiedAt[l] # "null"
          /\ status[l] = "sending" =>
                \E w \in Workers : worker[w].pc = "accepted" /\ worker[w].link = l

DeliveryOK == SingleSender /\ ClaimsOK /\ MailsOK /\ NotifiedWasMailed /\ MailedOnce
=============================================================================
