--------------------- MODULE ExternalFormDeliveryProofs ---------------------
(***************************************************************************)
(* Theorems about the delivery of the links by the notification workers:   *)
(* who may send, what 'notified' means and how often a link is emailed.    *)
(***************************************************************************)
EXTENDS ExternalFormProofs

\* A row under an exclusive claim, and a row whose link has been emailed and recorded,
\* cannot be claimed, parked or swept.
LEMMA NotClaimable ==
  ASSUME TypeOK, FramesOK, DeliveryOK
  PROVE  /\ \A w \in Workers : Sending(w) /\ ~overtaken[worker[w].link]
                                 => ~Claimable(worker[w].link)
         /\ \A l \in Links : Delivered(l) /\ ~Excused(l) => ~Claimable(l)
<1>1. ASSUME NEW w \in Workers, Sending(w), ~overtaken[worker[w].link]
      PROVE  ~Claimable(worker[w].link)
  BY <1>1 DEF DeliveryOK, ClaimsOK, Claimable
<1>2. ASSUME NEW l \in Links, Delivered(l), ~Excused(l)
      PROVE  ~Claimable(l)
  <2>1. notifiedAt[l] # "null"
    BY <1>2 DEF DeliveryOK, MailsOK
  <2>2. ASSUME status[l] = "sending" PROVE notifiedAt[l] # "stale"
    <3>1. PICK w \in Workers : worker[w].pc = "accepted" /\ worker[w].link = l
      BY <1>2, <2>2 DEF DeliveryOK, MailsOK
    <3>2. QED
      BY <1>2, <2>2, <3>1 DEF DeliveryOK, ClaimsOK, Excused, Sending
  <2>3. QED
    BY <2>1, <2>2 DEF Claimable
<1>3. QED
  BY <1>1, <1>2

\* Rows may be retired and workers that hold no claim may move: no email is sent,
\* no claim taken and no reference replaced.
Quiet ==
  /\ \A l \in Links : \/ status'[l] = status[l]
                      \/ status'[l] \in {"submitted", "completed", "superseded",
                                         "cancelled", "expired", "failed"}
  /\ \A w \in Workers : worker'[w] = worker[w] \/ (~Sending(w) /\ ~Sending(w)')
  /\ UNCHANGED <<notifiedAt, reference, mails, overtaken, unrecorded>>

\* A step of that kind disturbs no delivery.
LEMMA QuietKeepsDelivery ==
  TypeOK /\ FramesOK /\ DeliveryOK /\ Quiet => DeliveryOK'
<1> SUFFICES ASSUME TypeOK, FramesOK, DeliveryOK, Quiet PROVE DeliveryOK'
  OBVIOUS
<1>1. SingleSender'
  BY DEF Quiet, DeliveryOK, SingleSender, Sending
<1>2. ClaimsOK'
  BY DEF Quiet, DeliveryOK, ClaimsOK, Sending, FramesOK
<1>3. MailsOK'
  BY DEF Quiet, DeliveryOK, MailsOK, Sending, Excused, Delivered
<1>4. NotifiedWasMailed' /\ MailedOnce'
  BY DEF Quiet, DeliveryOK, NotifiedWasMailed, MailedOnce, Delivered
<1>5. QED
  BY <1>1, <1>2, <1>3, <1>4 DEF DeliveryOK

\* Every operation keeps the accounts of claims and emails.
LEMMA DeliveryStep == TypeOK /\ FramesOK /\ DeliveryOK /\ [Next]_vars => DeliveryOK'
<1> SUFFICES ASSUME TypeOK, FramesOK, DeliveryOK, [Next]_vars PROVE DeliveryOK'
  OBVIOUS
<1>1. ASSUME NEW new \in SUBSET Links, NEW published \in BOOLEAN, CreateRequests(new, published)
      PROVE  DeliveryOK'
  <2>1. SingleSender'
    BY <1>1, NotClaimable DEF CreateRequests, columns, frames, history, TypeOK, FramesOK,
       DeliveryOK, SingleSender, Sending
  <2>2. ClaimsOK'
    BY <1>1, NotClaimable DEF CreateRequests, columns, frames, history, TypeOK, FramesOK,
       DeliveryOK, SingleSender, ClaimsOK, Sending
  <2>3. MailsOK'
    BY <1>1, NotClaimable DEF CreateRequests, columns, frames, history, TypeOK, FramesOK,
       DeliveryOK, SingleSender, ClaimsOK, MailsOK, Sending, Excused, Delivered
  <2>4. NotifiedWasMailed' /\ MailedOnce'
    BY <1>1, NotClaimable DEF CreateRequests, columns, frames, history, TypeOK, FramesOK,
       DeliveryOK, ClaimsOK, MailsOK, NotifiedWasMailed, MailedOnce, Sending, Excused, Delivered
  <2>5. QED
    BY <2>1, <2>2, <2>3, <2>4 DEF DeliveryOK
<1>2. ASSUME NEW w \in Workers, NEW l \in Links, NEW event \in BOOLEAN, NotifyStart(w, l, event)
      PROVE  DeliveryOK'
  <2>1. Quiet
    BY <1>2 DEF Quiet, NotifyStart, columns, frames, history, TypeOK, Sending, IdleWorker
  <2>2. QED
    BY <2>1, QuietKeepsDelivery
<1>3. ASSUME NEW w \in Workers, NotifyFindsTaskClosed(w) PROVE DeliveryOK'
  <2>1. Quiet
    BY <1>3 DEF Quiet, NotifyFindsTaskClosed, WriteStatus, Finish, columns, frames, history, TypeOK,
       Sending, IdleWorker
  <2>2. QED
    BY <2>1, QuietKeepsDelivery
<1>4. ASSUME NEW w \in Workers, NotifyProceeds(w) PROVE DeliveryOK'
  <2>1. Quiet
    BY <1>4 DEF Quiet, NotifyProceeds, columns, frames, history, TypeOK, Sending, IdleWorker
  <2>2. QED
    BY <2>1, QuietKeepsDelivery
<1>5. ASSUME NEW w \in Workers, NotifyParks(w) PROVE DeliveryOK'
  <2>1. SingleSender'
    BY <1>5, NotClaimable DEF NotifyParks, Finish, IdleWorker, columns, frames, history, TypeOK,
       FramesOK, DeliveryOK, SingleSender, Sending
  <2>2. ClaimsOK'
    BY <1>5, NotClaimable DEF NotifyParks, Finish, IdleWorker, columns, frames, history, TypeOK,
       FramesOK, DeliveryOK, SingleSender, ClaimsOK, Sending
  <2>3. MailsOK'
    BY <1>5, NotClaimable DEF NotifyParks, Finish, IdleWorker, columns, frames, history, TypeOK,
       FramesOK, DeliveryOK, SingleSender, ClaimsOK, MailsOK, Sending, Excused, Delivered
  <2>4. NotifiedWasMailed' /\ MailedOnce'
    BY <1>5, NotClaimable DEF NotifyParks, Finish, IdleWorker, columns, frames, history, TypeOK,
       FramesOK, DeliveryOK, ClaimsOK, MailsOK, NotifiedWasMailed, MailedOnce, Sending, Excused,
       Delivered
  <2>5. QED
    BY <2>1, <2>2, <2>3, <2>4 DEF DeliveryOK
<1>6. ASSUME NEW w \in Workers, Claim(w) PROVE DeliveryOK'
  <2>0. worker[w].link \in Links /\ ~Sending(w) /\ reference[worker[w].link] \in 0..MaxReissues
    BY <1>6 DEF Claim, FramesOK, TypeOK, References, Sending
  <2>1. SingleSender'
    BY <1>6, NotClaimable DEF Claim, columns, history, TypeOK, FramesOK, DeliveryOK, SingleSender,
       Sending
  <2>2. ClaimsOK'
    BY <1>6, NotClaimable DEF Claim, columns, history, TypeOK, FramesOK, DeliveryOK, SingleSender,
       ClaimsOK, Sending
  <2>3. MailsOK'
    <3>1. \A m \in Links, r \in References : r > reference'[m] => mails'[<<m, r>>] = 0
      BY <1>6 DEF Claim, columns, history, TypeOK, FramesOK, DeliveryOK, MailsOK
    <3>2. \A x \in Workers : worker'[x].pc = "accepted"
                => mails'[<<worker'[x].link, worker'[x].ref>>] > 0
      BY <1>6 DEF Claim, columns, history, TypeOK, FramesOK, DeliveryOK, MailsOK
    <3>3. \A x \in Workers : Sending(x)' => worker'[x].ref <= reference'[worker'[x].link]
      BY <1>6, <2>0, ConstantsAssumption DEF Claim, Sending, columns, history, TypeOK, FramesOK,
         DeliveryOK, MailsOK
    <3>4. \A x \in Workers :
           worker'[x].pc \in {"claimed", "refused"} /\ ~Excused(worker[x].link)'
             => mails'[<<worker'[x].link, worker'[x].ref>>] = 0
      <4>1. ASSUME ~Excused(worker[w].link)
            PROVE  mails[<<worker[w].link, reference[worker[w].link]>>] = 0
        BY <1>6, <2>0, <4>1, NotClaimable DEF Claim, Delivered, TypeOK, References
      <4>2. QED
        BY <1>6, <2>0, <4>1 DEF Claim, Excused, columns, history, TypeOK, FramesOK, DeliveryOK,
           MailsOK
    <3>5. \A m \in Links : Delivered(m)' /\ ~Excused(m)' =>
           /\ status'[m] \notin {"absent", "pending", "smtp_unconfigured"}
           /\ notifiedAt'[m] # "null"
           /\ status'[m] = "sending" =>
                \E x \in Workers : worker'[x].pc = "accepted" /\ worker'[x].link = m
      BY <1>6, <2>0, NotClaimable DEF Claim, Excused, Delivered, Sending, columns, history, TypeOK,
         FramesOK, DeliveryOK, MailsOK
    <3>6. QED
      BY <3>1, <3>2, <3>3, <3>4, <3>5 DEF MailsOK
  <2>4. NotifiedWasMailed' /\ MailedOnce'
    BY <1>6 DEF Claim, columns, history, TypeOK, DeliveryOK, NotifiedWasMailed, MailedOnce,
       Excused, Delivered
  <2>5. QED
    BY <2>1, <2>2, <2>3, <2>4 DEF DeliveryOK
<1>7. ASSUME NEW w \in Workers, ClaimRefused(w) PROVE DeliveryOK'
  <2>1. Quiet
    BY <1>7 DEF Quiet, ClaimRefused, Finish, columns, frames, history, TypeOK, Sending, IdleWorker
  <2>2. QED
    BY <2>1, QuietKeepsDelivery
<1>8. ASSUME NEW w \in Workers, Send(w) PROVE DeliveryOK'
  <2> DEFINE row == worker[w].link
             tok == worker[w].ref
  <2>0. row \in Links /\ tok \in References /\ Sending(w) /\ tok <= reference[row]
    BY <1>8 DEF Send, FramesOK, TypeOK, WorkerFrames, Sending, DeliveryOK, MailsOK
  <2>6. /\ mails' \in [Links \X References -> 0..2]
        /\ mails'[<<row, tok>>] > 0
        /\ mails'[<<row, tok>>] > 1 => mails[<<row, tok>>] # 0
        /\ \A e \in Links \X References : e # <<row, tok>> => mails'[e] = mails[e]
        /\ \A e \in Links \X References : mails[e] > 0 => mails'[e] > 0
    <3>1. mails' = [mails EXCEPT ![<<row, tok>>] = OneMail(@)] /\ mails[<<row, tok>>] \in 0..2
      BY <1>8, <2>0 DEF Send, TypeOK
    <3>2. OneMail(mails[<<row, tok>>]) > 0 /\ (OneMail(mails[<<row, tok>>]) > 1 => mails[<<row, tok>>] # 0)
      BY <3>1 DEF OneMail
    <3>3. QED
      BY <2>0, <3>1, <3>2, MailsBounded DEF TypeOK
  <2>7. /\ worker' = [worker EXCEPT ![w].pc = "accepted"]
        /\ worker'[w].pc = "accepted" /\ worker'[w].link = row /\ worker'[w].ref = tok
        /\ \A x \in Workers : x # w => worker'[x] = worker[x]
        /\ \A x \in Workers : Sending(x)' <=> Sending(x)
    BY <1>8 DEF Send, TypeOK, WorkerFrames, Sending
  <2>1. SingleSender'
    BY <1>8, <2>7 DEF Send, history, DeliveryOK, SingleSender
  <2>2. ClaimsOK'
    BY <1>8, <2>7 DEF Send, columns, history, DeliveryOK, ClaimsOK
  <2>3. MailsOK'
    <3>1. \A m \in Links, r \in References : r > reference'[m] => mails'[<<m, r>>] = 0
      BY <1>8, <2>0, <2>6 DEF Send, References, columns, history, TypeOK, FramesOK, DeliveryOK,
         MailsOK
    <3>2. \A x \in Workers : worker'[x].pc = "accepted"
                => mails'[<<worker'[x].link, worker'[x].ref>>] > 0
      <4> SUFFICES ASSUME NEW x \in Workers, worker'[x].pc = "accepted", x # w
                   PROVE  mails'[<<worker'[x].link, worker'[x].ref>>] > 0
        BY <2>6, <2>7
      <4>1. worker'[x] = worker[x]
        BY <2>7
      <4>2. worker[x].link \in Links /\ worker[x].ref \in References
        BY <4>1 DEF FramesOK, TypeOK, WorkerFrames
      <4>3. mails[<<worker[x].link, worker[x].ref>>] > 0
        BY <4>1 DEF DeliveryOK, MailsOK
      <4>4. QED
        BY <4>1, <4>2, <4>3, <2>6
    <3>3. \A x \in Workers : Sending(x)' => worker'[x].ref <= reference'[worker'[x].link]
      BY <1>8, <2>7 DEF Send, columns, DeliveryOK, MailsOK
    <3>4. \A x \in Workers :
           worker'[x].pc \in {"claimed", "refused"} /\ ~Excused(worker[x].link)'
             => mails'[<<worker'[x].link, worker'[x].ref>>] = 0
      <4> SUFFICES ASSUME NEW x \in Workers, worker'[x].pc \in {"claimed", "refused"},
                          ~Excused(worker[x].link)'
                   PROVE  mails'[<<worker'[x].link, worker'[x].ref>>] = 0
        OBVIOUS
      <4>1. x # w /\ worker'[x] = worker[x] /\ Sending(x)
        BY <2>7 DEF Sending
      <4>2. worker[x].link \in Links /\ worker[x].ref \in References /\ ~Excused(worker[x].link)
        BY <1>8, <4>1 DEF Send, Sending, FramesOK, TypeOK, WorkerFrames, Excused
      <4>3. worker[x].link # row
        BY <4>1, <4>2, <2>0 DEF DeliveryOK, SingleSender, Excused
      <4>4. QED
        BY <4>1, <4>2, <4>3, <2>6 DEF DeliveryOK, MailsOK
    <3>5. \A m \in Links : Delivered(m)' /\ ~Excused(m)' =>
           /\ status'[m] \notin {"absent", "pending", "smtp_unconfigured"}
           /\ notifiedAt'[m] # "null"
           /\ status'[m] = "sending" =>
                \E x \in Workers : worker'[x].pc = "accepted" /\ worker'[x].link = m
      <4> SUFFICES ASSUME NEW m \in Links, Delivered(m)', ~Excused(m)'
                   PROVE  /\ status'[m] \notin {"absent", "pending", "smtp_unconfigured"}
                          /\ notifiedAt'[m] # "null"
                          /\ status'[m] = "sending" =>
                               \E x \in Workers : worker'[x].pc = "accepted" /\ worker'[x].link = m
        OBVIOUS
      <4>1. CASE m = row
        BY <1>8, <4>1, <2>0, <2>7 DEF Send, columns, history, Excused, DeliveryOK, ClaimsOK
      <4>2. CASE m # row
        <5>1. Delivered(m) /\ ~Excused(m)
          BY <1>8, <4>2, <2>6 DEF Send, columns, history, Delivered, Excused, TypeOK
        <5>2. status[m] = "sending" =>
                \E x \in Workers : x # w /\ worker[x].pc = "accepted" /\ worker[x].link = m
          BY <5>1, <4>2 DEF DeliveryOK, MailsOK
        <5>3. QED
          BY <1>8, <5>1, <5>2, <2>7 DEF Send, columns, DeliveryOK, MailsOK
      <4>3. QED
        BY <4>1, <4>2
    <3>6. QED
      BY <3>1, <3>2, <3>3, <3>4, <3>5 DEF MailsOK
  <2>4. NotifiedWasMailed'
    BY <1>8, <2>6 DEF Send, columns, history, DeliveryOK, NotifiedWasMailed, Delivered, TypeOK
  <2>8. MailedOnce'
    BY <1>8, <2>0, <2>6 DEF Send, columns, history, DeliveryOK, MailsOK, MailedOnce, Excused
  <2>5. QED
    BY <2>1, <2>2, <2>3, <2>4, <2>8 DEF DeliveryOK
<1>9. ASSUME NEW w \in Workers, SendFails(w) PROVE DeliveryOK'
  <2>1. SingleSender'
    BY <1>9, NotClaimable DEF SendFails, columns, frames, history, TypeOK, FramesOK, DeliveryOK,
       SingleSender, Sending
  <2>2. ClaimsOK'
    BY <1>9, NotClaimable DEF SendFails, columns, frames, history, TypeOK, FramesOK, DeliveryOK,
       SingleSender, ClaimsOK, Sending
  <2>3. MailsOK'
    BY <1>9, NotClaimable DEF SendFails, columns, frames, history, TypeOK, FramesOK, DeliveryOK,
       SingleSender, ClaimsOK, MailsOK, Sending, Excused, Delivered
  <2>4. NotifiedWasMailed' /\ MailedOnce'
    BY <1>9, NotClaimable DEF SendFails, columns, frames, history, TypeOK, FramesOK, DeliveryOK,
       ClaimsOK, MailsOK, NotifiedWasMailed, MailedOnce, Sending, Excused, Delivered
  <2>5. QED
    BY <2>1, <2>2, <2>3, <2>4 DEF DeliveryOK
<1>9a. ASSUME NEW w \in Workers, SendLosesReply(w) PROVE DeliveryOK'
  <2> DEFINE row == worker[w].link
             tok == worker[w].ref
  <2>0. row \in Links /\ tok \in References /\ Sending(w) /\ tok <= reference[row]
    BY <1>9a DEF SendLosesReply, FramesOK, TypeOK, WorkerFrames, Sending, DeliveryOK, MailsOK
  <2>6. /\ \A e \in Links \X References : e # <<row, tok>> => mails'[e] = mails[e]
        /\ \A e \in Links \X References : mails[e] > 0 => mails'[e] > 0
    BY <1>9a, <2>0 DEF SendLosesReply, OneMail, TypeOK
  <2>7. /\ worker'[w].pc = "refused" /\ worker'[w].link = row /\ worker'[w].ref = tok
        /\ worker[w].pc = "claimed"
        /\ \A x \in Workers : x # w => worker'[x] = worker[x]
        /\ \A x \in Workers : worker'[x].link = worker[x].link /\ worker'[x].ref = worker[x].ref
        /\ \A x \in Workers : Sending(x)' <=> Sending(x)
    BY <1>9a DEF SendLosesReply, TypeOK, WorkerFrames, Sending
  <2>8. UNCHANGED <<columns, overtaken>>
    BY <1>9a DEF SendLosesReply
  <2>9. \A m \in Links : ~Excused(m)' => m # row /\ ~Excused(m)
    BY <1>9a, <2>0 DEF SendLosesReply, Excused, TypeOK
  <2>1. SingleSender'
    BY <2>7, <2>8 DEF DeliveryOK, SingleSender
  <2>2. ClaimsOK'
    BY <2>7, <2>8 DEF columns, DeliveryOK, ClaimsOK
  <2>3. MailsOK'
    <3>1. \A m \in Links, r \in References : r > reference'[m] => mails'[<<m, r>>] = 0
      BY <2>0, <2>6, <2>8 DEF References, columns, TypeOK, DeliveryOK, MailsOK
    <3>2. \A x \in Workers : worker'[x].pc = "accepted"
                => mails'[<<worker'[x].link, worker'[x].ref>>] > 0
      <4> SUFFICES ASSUME NEW x \in Workers, worker'[x].pc = "accepted"
                   PROVE  mails'[<<worker'[x].link, worker'[x].ref>>] > 0
        OBVIOUS
      <4>1. worker'[x] = worker[x]
        BY <2>7
      <4>2. worker[x].link \in Links /\ worker[x].ref \in References
        BY <4>1 DEF FramesOK, TypeOK, WorkerFrames
      <4>3. QED
        BY <4>1, <4>2, <2>6 DEF DeliveryOK, MailsOK
    <3>3. \A x \in Workers : Sending(x)' => worker'[x].ref <= reference'[worker'[x].link]
      BY <2>7, <2>8 DEF columns, DeliveryOK, MailsOK
    <3>4. \A x \in Workers :
           worker'[x].pc \in {"claimed", "refused"} /\ ~Excused(worker[x].link)'
             => mails'[<<worker'[x].link, worker'[x].ref>>] = 0
      <4> SUFFICES ASSUME NEW x \in Workers, worker'[x].pc \in {"claimed", "refused"},
                          ~Excused(worker[x].link)'
                   PROVE  mails'[<<worker'[x].link, worker'[x].ref>>] = 0
        OBVIOUS
      <4>1. Sending(x) /\ worker[x].link \in Links /\ worker[x].ref \in References
        BY <2>7 DEF Sending, FramesOK, TypeOK, WorkerFrames
      <4>2. worker[x].link # row /\ ~Excused(worker[x].link)
        BY <4>1, <2>7, <2>9 DEF Excused
      <4>3. worker'[x] = worker[x]
        BY <4>2, <2>7
      <4>4. QED
        BY <4>1, <4>2, <4>3, <2>6 DEF DeliveryOK, MailsOK
    <3>5. \A m \in Links : Delivered(m)' /\ ~Excused(m)' =>
           /\ status'[m] \notin {"absent", "pending", "smtp_unconfigured"}
           /\ notifiedAt'[m] # "null"
           /\ status'[m] = "sending" =>
                \E x \in Workers : worker'[x].pc = "accepted" /\ worker'[x].link = m
      <4> SUFFICES ASSUME NEW m \in Links, Delivered(m)', ~Excused(m)'
                   PROVE  /\ status'[m] \notin {"absent", "pending", "smtp_unconfigured"}
                          /\ notifiedAt'[m] # "null"
                          /\ status'[m] = "sending" =>
                               \E x \in Workers : worker'[x].pc = "accepted" /\ worker'[x].link = m
        OBVIOUS
      <4>1. Delivered(m) /\ ~Excused(m)
        BY <2>6, <2>8, <2>9 DEF columns, Delivered, TypeOK
      <4>2. status[m] = "sending" =>
              \E x \in Workers : x # w /\ worker[x].pc = "accepted" /\ worker[x].link = m
        BY <4>1, <2>7 DEF DeliveryOK, MailsOK
      <4>3. QED
        BY <4>1, <4>2, <2>7, <2>8 DEF columns, DeliveryOK, MailsOK
    <3>6. QED
      BY <3>1, <3>2, <3>3, <3>4, <3>5 DEF MailsOK
  <2>4. NotifiedWasMailed'
    BY <2>6, <2>8 DEF columns, DeliveryOK, NotifiedWasMailed, Delivered, TypeOK
  <2>10. MailedOnce'
    <3> SUFFICES ASSUME NEW m \in Links, NEW r \in References, mails'[<<m, r>>] > 1, ~Excused(m)'
                 PROVE  FALSE
      BY DEF MailedOnce, Excused
    <3>1. QED
      BY <2>6, <2>9 DEF DeliveryOK, MailedOnce, Excused
  <2>5. QED
    BY <2>1, <2>2, <2>3, <2>4, <2>10 DEF DeliveryOK
<1>10. ASSUME NEW w \in Workers, RecordSent(w) PROVE DeliveryOK'
  <2>1. SingleSender'
    BY <1>10, NotClaimable DEF RecordSent, Finish, IdleWorker, columns, frames, history, TypeOK,
       FramesOK, DeliveryOK, SingleSender, Sending
  <2>2. ClaimsOK'
    BY <1>10, NotClaimable DEF RecordSent, Finish, IdleWorker, columns, frames, history, TypeOK,
       FramesOK, DeliveryOK, SingleSender, ClaimsOK, Sending
  <2>3. MailsOK'
    BY <1>10, NotClaimable DEF RecordSent, Finish, IdleWorker, columns, frames, history, TypeOK,
       FramesOK, DeliveryOK, SingleSender, ClaimsOK, MailsOK, Sending, Excused, Delivered
  <2>4. NotifiedWasMailed' /\ MailedOnce'
    BY <1>10, NotClaimable DEF RecordSent, Finish, IdleWorker, columns, frames, history, TypeOK,
       FramesOK, DeliveryOK, ClaimsOK, MailsOK, NotifiedWasMailed, MailedOnce, Sending, Excused,
       Delivered
  <2>5. QED
    BY <2>1, <2>2, <2>3, <2>4 DEF DeliveryOK
<1>11. ASSUME NEW w \in Workers, RecordSentFails(w) PROVE DeliveryOK'
  <2>1. SingleSender'
    BY <1>11, NotClaimable DEF RecordSentFails, Finish, IdleWorker, columns, frames, history,
       TypeOK, FramesOK, DeliveryOK, SingleSender, Sending
  <2>2. ClaimsOK'
    BY <1>11, NotClaimable DEF RecordSentFails, Finish, IdleWorker, columns, frames, history,
       TypeOK, FramesOK, DeliveryOK, SingleSender, ClaimsOK, Sending
  <2>3. MailsOK'
    BY <1>11, NotClaimable DEF RecordSentFails, Finish, IdleWorker, columns, frames, history,
       TypeOK, FramesOK, DeliveryOK, SingleSender, ClaimsOK, MailsOK, Sending, Excused, Delivered
  <2>4. NotifiedWasMailed' /\ MailedOnce'
    BY <1>11, NotClaimable DEF RecordSentFails, Finish, IdleWorker, columns, frames, history,
       TypeOK, FramesOK, DeliveryOK, ClaimsOK, MailsOK, NotifiedWasMailed, MailedOnce, Sending,
       Excused, Delivered
  <2>5. QED
    BY <2>1, <2>2, <2>3, <2>4 DEF DeliveryOK
<1>12. ASSUME NEW w \in Workers, ReleaseFailed(w) PROVE DeliveryOK'
  <2>1. SingleSender'
    BY <1>12, NotClaimable DEF ReleaseFailed, Finish, IdleWorker, columns, frames, history, TypeOK,
       FramesOK, DeliveryOK, SingleSender, Sending
  <2>2. ClaimsOK'
    BY <1>12, NotClaimable DEF ReleaseFailed, Finish, IdleWorker, columns, frames, history, TypeOK,
       FramesOK, DeliveryOK, SingleSender, ClaimsOK, Sending
  <2>3. MailsOK'
    BY <1>12, NotClaimable DEF ReleaseFailed, Finish, IdleWorker, columns, frames, history, TypeOK,
       FramesOK, DeliveryOK, SingleSender, ClaimsOK, MailsOK, Sending, Excused, Delivered
  <2>4. NotifiedWasMailed' /\ MailedOnce'
    BY <1>12, NotClaimable DEF ReleaseFailed, Finish, IdleWorker, columns, frames, history, TypeOK,
       FramesOK, DeliveryOK, ClaimsOK, MailsOK, NotifiedWasMailed, MailedOnce, Sending, Excused,
       Delivered
  <2>5. QED
    BY <2>1, <2>2, <2>3, <2>4 DEF DeliveryOK
<1>13. ASSUME NEW w \in Workers, WorkerCrash(w) PROVE DeliveryOK'
  <2>0. /\ ~Sending(w)' /\ worker'[w].pc = "idle"
        /\ \A x \in Workers : x # w => worker'[x] = worker[x]
        /\ \A x \in Workers : Sending(x)' => x # w /\ Sending(x)
        /\ \A l \in Links : Excused(l) => Excused(l)'
        /\ UNCHANGED <<status, notifiedAt, reference, mails, overtaken>>
    BY <1>13 DEF WorkerCrash, IdleWorker, TypeOK, Sending, Excused, columns
  <2>1. SingleSender'
    BY <2>0 DEF DeliveryOK, SingleSender
  <2>2. ClaimsOK'
    BY <2>0 DEF DeliveryOK, ClaimsOK
  <2>3. MailsOK'
    <3>1. \A m \in Links, r \in References : r > reference'[m] => mails'[<<m, r>>] = 0
      BY <2>0 DEF DeliveryOK, MailsOK
    <3>2. \A x \in Workers : worker'[x].pc = "accepted"
                => mails'[<<worker'[x].link, worker'[x].ref>>] > 0
      BY <2>0 DEF DeliveryOK, MailsOK
    <3>3. \A x \in Workers : Sending(x)' => worker'[x].ref <= reference'[worker'[x].link]
      BY <2>0 DEF DeliveryOK, MailsOK
    <3>4. \A x \in Workers :
           worker'[x].pc \in {"claimed", "refused"} /\ ~Excused(worker[x].link)'
             => mails'[<<worker'[x].link, worker'[x].ref>>] = 0
      <4> SUFFICES ASSUME NEW x \in Workers, worker'[x].pc \in {"claimed", "refused"},
                          ~Excused(worker[x].link)'
                   PROVE  mails'[<<worker'[x].link, worker'[x].ref>>] = 0
        OBVIOUS
      <4>1. x # w /\ worker'[x] = worker[x]
        BY <2>0
      <4>2. worker[x].link \in Links /\ ~Excused(worker[x].link)
        BY <4>1, <2>0 DEF FramesOK
      <4>3. QED
        BY <4>1, <4>2, <2>0 DEF DeliveryOK, MailsOK
    <3>5. \A m \in Links : Delivered(m)' /\ ~Excused(m)' =>
           /\ status'[m] \notin {"absent", "pending", "smtp_unconfigured"}
           /\ notifiedAt'[m] # "null"
           /\ status'[m] = "sending" =>
                \E x \in Workers : worker'[x].pc = "accepted" /\ worker'[x].link = m
      <4> SUFFICES ASSUME NEW m \in Links, Delivered(m)', ~Excused(m)'
                   PROVE  /\ status'[m] \notin {"absent", "pending", "smtp_unconfigured"}
                          /\ notifiedAt'[m] # "null"
                          /\ status'[m] = "sending" =>
                               \E x \in Workers : worker'[x].pc = "accepted" /\ worker'[x].link = m
        OBVIOUS
      <4>1. Delivered(m) /\ ~Excused(m)
        BY <2>0 DEF Delivered
      <4>2. ~(worker[w].pc = "accepted" /\ worker[w].link = m)
        BY <1>13 DEF WorkerCrash, Excused
      <4>3. QED
        BY <2>0, <4>1, <4>2 DEF DeliveryOK, MailsOK
    <3>6. QED
      BY <3>1, <3>2, <3>3, <3>4, <3>5 DEF MailsOK
  <2>4. NotifiedWasMailed' /\ MailedOnce'
    BY <2>0 DEF DeliveryOK, NotifiedWasMailed, MailedOnce, Delivered, Excused
  <2>5. QED
    BY <2>1, <2>2, <2>3, <2>4 DEF DeliveryOK
<1>14. ASSUME SweepParks PROVE DeliveryOK'
  <2>1. SingleSender'
    BY <1>14, NotClaimable DEF SweepParks, SweepCandidate, columns, frames, history, TypeOK,
       FramesOK, DeliveryOK, SingleSender, Sending
  <2>2. ClaimsOK'
    BY <1>14, NotClaimable DEF SweepParks, SweepCandidate, columns, frames, history, TypeOK,
       FramesOK, DeliveryOK, SingleSender, ClaimsOK, Sending
  <2>3. MailsOK'
    BY <1>14, NotClaimable DEF SweepParks, SweepCandidate, columns, frames, history, TypeOK,
       FramesOK, DeliveryOK, SingleSender, ClaimsOK, MailsOK, Sending, Excused, Delivered
  <2>4. NotifiedWasMailed' /\ MailedOnce'
    BY <1>14, NotClaimable DEF SweepParks, SweepCandidate, columns, frames, history, TypeOK,
       FramesOK, DeliveryOK, ClaimsOK, MailsOK, NotifiedWasMailed, MailedOnce, Sending, Excused,
       Delivered
  <2>5. QED
    BY <2>1, <2>2, <2>3, <2>4 DEF DeliveryOK
<1>15. ASSUME Revive PROVE DeliveryOK'
  <2>1. SingleSender'
    BY <1>15, NotClaimable DEF Revive, columns, frames, history, TypeOK, FramesOK, DeliveryOK,
       SingleSender, Sending
  <2>2. ClaimsOK'
    BY <1>15, NotClaimable DEF Revive, columns, frames, history, TypeOK, FramesOK, DeliveryOK,
       SingleSender, ClaimsOK, Sending
  <2>3. MailsOK'
    BY <1>15, NotClaimable DEF Revive, columns, frames, history, TypeOK, FramesOK, DeliveryOK,
       SingleSender, ClaimsOK, MailsOK, Sending, Excused, Delivered
  <2>4. NotifiedWasMailed' /\ MailedOnce'
    BY <1>15, NotClaimable DEF Revive, columns, frames, history, TypeOK, FramesOK, DeliveryOK,
       ClaimsOK, MailsOK, NotifiedWasMailed, MailedOnce, Sending, Excused, Delivered
  <2>5. QED
    BY <2>1, <2>2, <2>3, <2>4 DEF DeliveryOK
<1>16. ASSUME ChangeSmtp PROVE DeliveryOK'
  <2>1. Quiet
    BY <1>16 DEF Quiet, ChangeSmtp, columns, frames, history, TypeOK
  <2>2. QED
    BY <2>1, QuietKeepsDelivery
<1>17. ASSUME NEW l \in Links, LeaseLapses(l) PROVE DeliveryOK'
  <2>1. SingleSender'
    BY <1>17, NotClaimable DEF LeaseLapses, columns, frames, history, TypeOK, FramesOK, DeliveryOK,
       SingleSender, Sending
  <2>2. ClaimsOK'
    BY <1>17, NotClaimable DEF LeaseLapses, columns, frames, history, TypeOK, FramesOK, DeliveryOK,
       SingleSender, ClaimsOK, Sending
  <2>3. MailsOK'
    BY <1>17, NotClaimable DEF LeaseLapses, columns, frames, history, TypeOK, FramesOK, DeliveryOK,
       SingleSender, ClaimsOK, MailsOK, Sending, Excused, Delivered
  <2>4. NotifiedWasMailed' /\ MailedOnce'
    BY <1>17, NotClaimable DEF LeaseLapses, columns, frames, history, TypeOK, FramesOK, DeliveryOK,
       ClaimsOK, MailsOK, NotifiedWasMailed, MailedOnce, Sending, Excused, Delivered
  <2>5. QED
    BY <2>1, <2>2, <2>3, <2>4 DEF DeliveryOK
<1>18. ASSUME NEW l \in Links, LinkExpires(l) PROVE DeliveryOK'
  <2>1. Quiet
    BY <1>18 DEF Quiet, LinkExpires, columns, frames, history, TypeOK
  <2>2. QED
    BY <2>1, QuietKeepsDelivery
<1>19. ASSUME NEW l \in Links, ReissueFindsTaskClosed(l) PROVE DeliveryOK'
  <2>1. Quiet
    BY <1>19 DEF Quiet, ReissueFindsTaskClosed, WriteStatus, columns, frames, history, TypeOK
  <2>2. QED
    BY <2>1, QuietKeepsDelivery
<1>20. ASSUME NEW l \in Links, Reissue(l) PROVE DeliveryOK'
  <2>0. /\ reference[l] \in 0..MaxReissues /\ reference[l] + 1 \in References
        /\ reference'[l] = reference[l] + 1
        /\ \A m \in Links : m # l => reference'[m] = reference[m]
        /\ \A x \in Workers : Sending(x) /\ worker[x].link = l => overtaken'[l]
        /\ \A m \in Links : overtaken[m] => overtaken'[m]
        /\ \A m \in Links : m # l => status'[m] = status[m] /\ notifiedAt'[m] = notifiedAt[m]
        /\ status'[l] = "pending"
        /\ UNCHANGED <<worker, mails, unrecorded>>
    <3>1. reference[l] \in 0..MaxReissues /\ reference[l] + 1 \in References
      BY <1>20, ConstantsAssumption DEF Reissue, TypeOK, References
    <3>2. reference'[l] = reference[l] + 1 /\ \A m \in Links : m # l => reference'[m] = reference[m]
      BY <1>20 DEF Reissue, TypeOK
    <3>3. /\ \A x \in Workers : Sending(x) /\ worker[x].link = l => overtaken'[l]
          /\ \A m \in Links : overtaken[m] => overtaken'[m]
      BY <1>20 DEF Reissue, TypeOK
    <3>4. QED
      BY <1>20, <3>1, <3>2, <3>3 DEF Reissue, TypeOK, frames
  <2>6. mails[<<l, reference[l] + 1>>] = 0
    BY <2>0 DEF DeliveryOK, MailsOK
  <2>1. SingleSender'
    BY <2>0 DEF DeliveryOK, SingleSender, Sending, FramesOK
  <2>2. ClaimsOK'
    BY <2>0 DEF DeliveryOK, ClaimsOK, Sending, FramesOK
  <2>3. MailsOK'
    <3>1. \A m \in Links, r \in References : r > reference'[m] => mails'[<<m, r>>] = 0
      <4> SUFFICES ASSUME NEW m \in Links, NEW r \in References, r > reference'[m]
                   PROVE  mails[<<m, r>>] = 0
        BY <2>0
      <4>1. reference[m] \in Int /\ r \in Int
        BY ConstantsAssumption DEF TypeOK, References
      <4>2. r > reference[m]
        <5>1. CASE m = l
          BY <2>0, <4>1, <5>1
        <5>2. CASE m # l
          BY <2>0, <5>2
        <5>3. QED
          BY <5>1, <5>2
      <4>3. QED
        BY <4>2 DEF DeliveryOK, MailsOK
    <3>2. \A x \in Workers : worker'[x].pc = "accepted"
                => mails'[<<worker'[x].link, worker'[x].ref>>] > 0
      BY <2>0 DEF DeliveryOK, MailsOK
    <3>3. \A x \in Workers : Sending(x)' => worker'[x].ref <= reference'[worker'[x].link]
      <4> SUFFICES ASSUME NEW x \in Workers, Sending(x)
                   PROVE  worker[x].ref <= reference'[worker[x].link]
        BY <2>0 DEF Sending
      <4>1. /\ worker[x].link \in Links /\ worker[x].ref \in 0..MaxReissues
            /\ worker[x].ref <= reference[worker[x].link]
        BY DEF Sending, FramesOK, TypeOK, WorkerFrames, References, DeliveryOK, MailsOK
      <4>2. CASE worker[x].link = l
        BY <4>1, <4>2, <2>0, ConstantsAssumption
      <4>3. CASE worker[x].link # l
        BY <4>1, <4>3, <2>0
      <4>4. QED
        BY <4>2, <4>3
    <3>4. \A x \in Workers :
           worker'[x].pc \in {"claimed", "refused"} /\ ~Excused(worker[x].link)'
             => mails'[<<worker'[x].link, worker'[x].ref>>] = 0
      BY <2>0 DEF DeliveryOK, MailsOK, Excused, Sending, FramesOK
    <3>5. \A m \in Links : Delivered(m)' /\ ~Excused(m)' =>
           /\ status'[m] \notin {"absent", "pending", "smtp_unconfigured"}
           /\ notifiedAt'[m] # "null"
           /\ status'[m] = "sending" =>
                \E x \in Workers : worker'[x].pc = "accepted" /\ worker'[x].link = m
      BY <2>0, <2>6 DEF DeliveryOK, MailsOK, Excused, Delivered
    <3>6. QED
      BY <3>1, <3>2, <3>3, <3>4, <3>5 DEF MailsOK
  <2>4. NotifiedWasMailed' /\ MailedOnce'
    BY <2>0, <2>6 DEF DeliveryOK, NotifiedWasMailed, MailedOnce, Delivered
  <2>5. QED
    BY <2>1, <2>2, <2>3, <2>4 DEF DeliveryOK
<1>21. ASSUME NEW l \in Links, SubmitRetires(l) PROVE DeliveryOK'
  <2>1. Quiet
    BY <1>21 DEF Quiet, SubmitRetires, WriteStatus, columns, frames, history, TypeOK
  <2>2. QED
    BY <2>1, QuietKeepsDelivery
<1>22. ASSUME NEW v \in Visitors, NEW l \in Links, ShowStart(v, l) PROVE DeliveryOK'
  <2>1. Quiet
    BY <1>22 DEF Quiet, ShowStart, columns, frames, history, TypeOK
  <2>2. QED
    BY <2>1, QuietKeepsDelivery
<1>23. ASSUME NEW v \in Visitors, Show(v) PROVE DeliveryOK'
  <2>1. Quiet
    BY <1>23 DEF Quiet, Show, WriteStatus, columns, frames, history, TypeOK
  <2>2. QED
    BY <2>1, QuietKeepsDelivery
<1>24. ASSUME NEW s \in Submitters, NEW l \in Links, SubmitStart(s, l) PROVE DeliveryOK'
  <2>1. Quiet
    BY <1>24 DEF Quiet, SubmitStart, columns, frames, history, TypeOK
  <2>2. QED
    BY <2>1, QuietKeepsDelivery
<1>25. ASSUME NEW s \in Submitters, SubmitCompletesTask(s) PROVE DeliveryOK'
  <2>1. Quiet
    BY <1>25 DEF Quiet, SubmitCompletesTask, columns, frames, history, TypeOK
  <2>2. QED
    BY <2>1, QuietKeepsDelivery
<1>26. ASSUME NEW s \in Submitters, SubmitInvalidState(s) PROVE DeliveryOK'
  <2>1. Quiet
    BY <1>26 DEF Quiet, SubmitInvalidState, columns, frames, history, TypeOK
  <2>2. QED
    BY <2>1, QuietKeepsDelivery
<1>27. ASSUME NEW s \in Submitters, SubmitError(s) PROVE DeliveryOK'
  <2>1. Quiet
    BY <1>27 DEF Quiet, SubmitError, columns, frames, history, TypeOK
  <2>2. QED
    BY <2>1, QuietKeepsDelivery
<1>28. ASSUME NEW s \in Submitters, SubmitCommits(s) PROVE DeliveryOK'
  <2>1. Quiet
    BY <1>28 DEF Quiet, SubmitCommits, CommitSuperseding, columns, frames, history, TypeOK
  <2>2. QED
    BY <2>1, QuietKeepsDelivery
<1>29. ASSUME NEW s \in Submitters, NEW next \in {"failing", "superseding"}, SubmitCommitsEarly(s, next)
      PROVE  DeliveryOK'
  <2>1. Quiet
    BY <1>29 DEF Quiet, SubmitCommitsEarly, columns, frames, history, TypeOK
  <2>2. QED
    BY <2>1, QuietKeepsDelivery
<1>30. ASSUME NEW s \in Submitters, SubmitSupersedes(s) PROVE DeliveryOK'
  <2>1. Quiet
    BY <1>30 DEF Quiet, SubmitSupersedes, CommitSuperseding, columns, frames, history, TypeOK
  <2>2. QED
    BY <2>1, QuietKeepsDelivery
<1>31. ASSUME NEW s \in Submitters, RecordFailure(s) PROVE DeliveryOK'
  <2>1. Quiet
    BY <1>31 DEF Quiet, RecordFailure, WriteStatus, columns, frames, history, TypeOK
  <2>2. QED
    BY <2>1, QuietKeepsDelivery
<1>32. ASSUME NEW s \in Submitters, RecordTooLate(s) PROVE DeliveryOK'
  <2>1. Quiet
    BY <1>32 DEF Quiet, RecordTooLate, WriteStatus, columns, frames, history, TypeOK
  <2>2. QED
    BY <2>1, QuietKeepsDelivery
<1>33. ASSUME NEW s \in Submitters, SubmitDeadlockVictim(s) PROVE DeliveryOK'
  <2>1. Quiet
    BY <1>33 DEF Quiet, SubmitDeadlockVictim, columns, frames, history, TypeOK
  <2>2. QED
    BY <2>1, QuietKeepsDelivery
<1>34. ASSUME NEW s \in Submitters, SubmitCrash(s) PROVE DeliveryOK'
  <2>1. Quiet
    BY <1>34 DEF Quiet, SubmitCrash, columns, frames, history, TypeOK
  <2>2. QED
    BY <2>1, QuietKeepsDelivery
<1>35. ASSUME NEW u \in InAppUsers, InAppCheck(u) PROVE DeliveryOK'
  <2>1. Quiet
    BY <1>35 DEF Quiet, InAppCheck, columns, frames, history, TypeOK
  <2>2. QED
    BY <2>1, QuietKeepsDelivery
<1>36. ASSUME NEW u \in InAppUsers, InAppComplete(u) PROVE DeliveryOK'
  <2>1. Quiet
    BY <1>36 DEF Quiet, InAppComplete, columns, frames, history, TypeOK
  <2>2. QED
    BY <2>1, QuietKeepsDelivery
<1>37. ASSUME Terminate PROVE DeliveryOK'
  <2>1. Quiet
    BY <1>37 DEF Quiet, Terminate, columns, frames, history, TypeOK
  <2>2. QED
    BY <2>1, QuietKeepsDelivery
<1>38. ASSUME CloseWithoutLinks PROVE DeliveryOK'
  <2>1. Quiet
    BY <1>38 DEF Quiet, CloseWithoutLinks, columns, frames, history, TypeOK
  <2>2. QED
    BY <2>1, QuietKeepsDelivery
<1>39. ASSUME Suspend PROVE DeliveryOK'
  <2>1. Quiet
    BY <1>39 DEF Quiet, Suspend, columns, frames, history, TypeOK
  <2>2. QED
    BY <2>1, QuietKeepsDelivery
<1>40. ASSUME UNCHANGED vars PROVE DeliveryOK'
  <2>1. Quiet
    BY <1>40 DEF Quiet, vars, columns, frames, history
  <2>2. QED
    BY <2>1, QuietKeepsDelivery
<1>41. QED
  <2> HIDE DEF DeliveryOK
  <2>1. ASSUME NEW w \in Workers, WorkerStep(w) PROVE DeliveryOK'
    BY <2>1, <1>3, <1>4, <1>5, <1>6, <1>7, <1>8, <1>9, <1>9a, <1>10, <1>11,
       <1>12 DEF WorkerStep
  <2>2. ASSUME NEW s \in Submitters, SubmitStep(s) PROVE DeliveryOK'
    BY <2>2, <1>25, <1>26, <1>27, <1>28, <1>29, <1>30, <1>31, <1>32, <1>33 DEF SubmitStep
  <2>3. QED
    BY <2>1, <2>2, <1>1, <1>2, <1>13, <1>14, <1>15, <1>16, <1>17, <1>18, <1>19, <1>20, <1>21, <1>22,
       <1>23, <1>24, <1>34, <1>35, <1>36, <1>37, <1>38, <1>39, <1>40 DEF Next

\* The accounts of claims and emails are right in every reachable state.
THEOREM DeliveryCorrect == Spec => []DeliveryOK
<1>1. ASSUME Init PROVE DeliveryOK
  <2>1. \A w \in Workers : ~Sending(w) /\ worker[w].pc = "idle"
    BY <1>1 DEF Init, Sending, IdleWorker
  <2>2. \A l \in Links, r \in References : mails[<<l, r>>] = 0
    BY <1>1 DEF Init
  <2>3. \A l \in Links : ~Delivered(l)
    BY <1>1, <2>2, ConstantsAssumption DEF Init, Delivered, References
  <2>4. SingleSender /\ ClaimsOK
    BY <2>1 DEF SingleSender, ClaimsOK
  <2>5. MailsOK
    BY <2>1, <2>2, <2>3 DEF MailsOK
  <2>6. NotifiedWasMailed /\ MailedOnce
    BY <1>1, <2>2 DEF Init, NotifiedWasMailed, MailedOnce
  <2>7. QED
    BY <2>4, <2>5, <2>6 DEF DeliveryOK
<1>2. QED
  BY <1>1, DeliveryStep, TypeCorrect, PTL DEF Spec

\* Two workers never email the same request, unless a live claim was overtaken.
THEOREM SendersExclude == Spec => []SingleSender
<1>1. DeliveryOK => SingleSender
  BY DEF DeliveryOK
<1>2. QED
  BY <1>1, DeliveryCorrect, PTL

\* A row that says 'notified' carries a reference the relay accepted.
THEOREM NotifiedIsMailed == Spec => []NotifiedWasMailed
<1>1. DeliveryOK => NotifiedWasMailed
  BY DEF DeliveryOK
<1>2. QED
  BY <1>1, DeliveryCorrect, PTL

\* A link is emailed twice only after a send of its row that could not be recorded,
\* a lost SMTP reply among them, or an overtaken claim.
THEOREM MailIsOnce == Spec => []MailedOnce
<1>1. DeliveryOK => MailedOnce
  BY DEF DeliveryOK
<1>2. QED
  BY <1>1, DeliveryCorrect, PTL
=============================================================================
