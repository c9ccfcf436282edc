-------------------------- MODULE MembershipProofs --------------------------
(***************************************************************************)
(* Tenants, and who belongs to one and works in it, for any number of      *)
(* invitations, tenants, members, groups and concurrent requests: the      *)
(* invariants of Invitations, Sessions, McpSession, Tenancy and            *)
(* TenantRoles, each with the strengthening that makes it inductive.       *)
(***************************************************************************)
EXTENDS Invitations, Sessions, McpSession, Tenancy, TenantRoles, FiniteSetTheorems, TLAPS

(***************************************************************************)
(* Invitations                                                             *)
(***************************************************************************)

USE InvitationsAssumption

\* What a request is doing and on which row; only a revocation holds the row of a revoked
\* invitation.
InviteCallsOK ==
    \A c \in InviteCalls :
        /\ CallAt(c, "idle") => inviteCall[c] = NoCall
        /\ CallAt(c, "checked") => inviteCall[c].op = "create"
        /\ ~(inviteCall[c].pc \in {"idle", "checked"}) => OnRow(c) \in Invites
        /\ inviteCall[c].op = "revoke" <=> CallAt(c, "revoking")
        /\ OnRow(c) \in Invites => issued[OnRow(c)] # 0

\* A row gets its first token before it is in the table, and its token after the relay took
\* the message.
MailOK ==
    /\ \A i \in Invites : issued[i] = 0 => invitation[i] = "absent"
    /\ \A c \in InviteCalls :
        /\ CallAt(c, "sending") => inviteCall[c].token # 0
        /\ CallAt(c, "sent") => <<OnRow(c), inviteCall[c].token>> \in mailed

\* Who reports the invitation accepted has been through the directory.
DirectoryOK ==
    \A c \in InviteCalls :
        /\ CallAt(c, "provisioned") => account
        /\ CallAt(c, "joined") => account /\ member

\* Until requests overlap or a lapsed row is revived: a row is active only when no other is
\* and none is being created, and what expired once has lapsed for good.
OneUsable ==
    ~doubled =>
        /\ \A i, j \in Invites : ActivePending(i) /\ ActivePending(j) => i = j
        /\ \A c \in InviteCalls :
            /\ inviteCall[c].op = "create" => \A i \in Invites : ~ActivePending(i)
            /\ CallAt(c, "expiring") => lapsed[OnRow(c)]
            /\ inviteCall[c].op = "resend" /\ ~CallAt(c, "expiring") =>
                    \/ inviteCall[c].seen = "PENDING"
                    \/ inviteCall[c].seen = "EXPIRED" /\ lapsed[OnRow(c)]
        /\ \A i \in Invites : invitation[i] = "EXPIRED" => lapsed[i]

InvitationsIInv ==
    /\ InvitationsTypeOK /\ InviteCallsOK /\ MailOK /\ DirectoryOK /\ OneUsable
    /\ LinkWasMailed /\ AcceptedIsMember /\ RevokedStays

LEMMA NoCallIsFrame == NoCall \in InviteFrames
    BY DEF NoCall, InviteFrames

LEMMA InviteFrameWritten ==
    ASSUME InvitationsTypeOK, NEW c \in InviteCalls, NEW f \in InviteFrames, Step(c, f)
    PROVE  /\ inviteCall' \in [InviteCalls -> InviteFrames]
           /\ inviteCall'[c] = f
           /\ \A d \in InviteCalls \ {c} : inviteCall'[d] = inviteCall[d]
    BY DEF InvitationsTypeOK, Step

LEMMA InvitationsStart == InvitationsInit => InvitationsIInv
<1> SUFFICES ASSUME InvitationsInit PROVE InvitationsIInv
    OBVIOUS
<1>1. \A c \in InviteCalls : inviteCall[c] = NoCall
    BY DEF InvitationsInit
<1>2. InvitationsTypeOK
    <2>1. 0 \in 0..MaxTokens
        OBVIOUS
    <2> QED BY <2>1, NoCallIsFrame DEF InvitationsInit, InvitationsTypeOK
<1>3. InviteCallsOK
    BY <1>1 DEF InviteCallsOK, NoCall, CallAt, OnRow
<1>4. MailOK /\ DirectoryOK
    BY <1>1 DEF InvitationsInit, MailOK, DirectoryOK, NoCall, CallAt
<1>5. OneUsable
    BY <1>1 DEF InvitationsInit, OneUsable, NoCall, CallAt, ActivePending, Pending
<1>6. LinkWasMailed /\ AcceptedIsMember /\ RevokedStays
    BY DEF InvitationsInit, LinkWasMailed, AcceptedIsMember, RevokedStays, Pending
<1> QED BY <1>2, <1>3, <1>4, <1>5, <1>6 DEF InvitationsIInv

\* A request that only reads: what it takes the row for is so.
LEMMA ReadStarts ==
    ASSUME InvitationsIInv, NEW c \in InviteCalls, NEW f \in InviteFrames, Step(c, f),
           UNCHANGED <<inviteRows, inviteMail, directory, inviteHistory>>,
           f.pc \in {"checked", "expiring", "accepting", "revoking"},
           f.pc = "checked" => f.op = "create" /\ f.row = NoInvite,
           f.pc # "checked" => f.row \in Invites /\ issued[f.row] # 0,
           f.op = "revoke" <=> f.pc = "revoking",
           f.row \in sealed => f.op = "revoke",
           f.op = "create" => \A i \in Invites : ~ActivePending(i),
           f.op = "resend" => f.pc = "expiring",
           f.pc = "expiring" => lapsed[f.row]
    PROVE  InvitationsIInv'
<1> USE DEF inviteRows, inviteMail, directory, inviteHistory, CallAt, OnRow
<1>1. /\ inviteCall' \in [InviteCalls -> InviteFrames] /\ inviteCall'[c] = f
      /\ \A d \in InviteCalls \ {c} : inviteCall'[d] = inviteCall[d]
    BY InviteFrameWritten DEF InvitationsIInv
<1>2. InvitationsTypeOK'
    BY <1>1 DEF InvitationsIInv, InvitationsTypeOK
<1>3. InviteCallsOK'
    BY <1>1 DEF InvitationsIInv, InviteCallsOK
<1>4. MailOK' /\ DirectoryOK'
    BY <1>1 DEF InvitationsIInv, MailOK, DirectoryOK
<1>5. OneUsable'
    BY <1>1 DEF InvitationsIInv, OneUsable, ActivePending, Pending
<1>6. LinkWasMailed' /\ AcceptedIsMember' /\ RevokedStays'
    BY <1>1 DEF InvitationsIInv, LinkWasMailed, AcceptedIsMember, RevokedStays, Pending
<1> QED BY <1>2, <1>3, <1>4, <1>5, <1>6 DEF InvitationsIInv

LEMMA InvitationsStep == InvitationsIInv /\ [InvitationsNext]_inviteVars => InvitationsIInv'
<1> SUFFICES ASSUME InvitationsIInv, [InvitationsNext]_inviteVars PROVE InvitationsIInv'
    OBVIOUS
<1> USE DEF InvitationsIInv, InvitationsTypeOK, InviteCallsOK, MailOK, DirectoryOK,
           OneUsable, LinkWasMailed, AcceptedIsMember, RevokedStays, NoCall, CallAt, OnRow, Pending,
           ActivePending, TenantInvitationStatus, InviteFrames, Step, Proceed, SetStatus, MustExpire,
           inviteRows, inviteMail, directory, inviteHistory
<1>i. /\ InvitationsTypeOK /\ InviteCallsOK /\ MailOK /\ DirectoryOK /\ OneUsable
      /\ LinkWasMailed /\ AcceptedIsMember /\ RevokedStays
    BY DEF InvitationsIInv
<1>0. CASE UNCHANGED inviteVars
    BY <1>0 DEF inviteVars
<1>1. ASSUME NEW c \in InviteCalls, CheckPending(c) PROVE InvitationsIInv'
    <2>0. /\ UNCHANGED <<inviteRows, inviteMail, directory, inviteHistory>>
          /\ \A i \in Invites : ~ActivePending(i)
        BY <1>1 DEF CheckPending
    <2>1. CASE Step(c, [NoCall EXCEPT !.pc = "checked", !.op = "create"])
        <3> DEFINE f == [NoCall EXCEPT !.pc = "checked", !.op = "create"]
        <3>1. /\ f \in InviteFrames /\ f.pc = "checked" /\ f.op = "create" /\ f.row = NoInvite
            BY NoCallIsFrame
        <3>2. f.row \notin sealed
            BY <1>i, <3>1
        <3> HIDE DEF f
        <3>3. Step(c, f)
            BY <2>1 DEF f
        <3> HIDE DEF Step, InvitationsIInv, ActivePending, InviteFrames, inviteRows, inviteMail,
                     directory, inviteHistory
        <3> QED BY <2>0, <3>1, <3>2, <3>3, ReadStarts
    <2>2. ASSUME NEW i \in Invites, MustExpire(i),
                 Step(c, [NoCall EXCEPT !.pc = "expiring", !.op = "create", !.row = i])
          PROVE  InvitationsIInv'
        <3> DEFINE f == [NoCall EXCEPT !.pc = "expiring", !.op = "create", !.row = i]
        <3>1. /\ f \in InviteFrames /\ f.pc = "expiring" /\ f.op = "create" /\ f.row = i
            BY NoCallIsFrame
        <3>2. issued[i] # 0 /\ lapsed[i] /\ i \notin sealed
            BY <1>i, <2>2
        <3> HIDE DEF f
        <3>3. Step(c, f)
            BY <2>2 DEF f
        <3> HIDE DEF Step, InvitationsIInv, ActivePending, InviteFrames, inviteRows, inviteMail,
                     directory, inviteHistory
        <3> QED BY <2>0, <3>1, <3>2, <3>3, ReadStarts
    <2> QED BY <1>1, <2>1, <2>2 DEF CheckPending
<1>2. ASSUME NEW c \in InviteCalls, CheckDirectory(c) PROVE InvitationsIInv'
    <2> PICK i \in Invites :
            /\ issued[i] = 0 /\ issued' = [issued EXCEPT ![i] = 1]
            /\ Step(c, [inviteCall[c] EXCEPT !.pc = "sending", !.row = i, !.token = 1])
        BY <1>2 DEF CheckDirectory
    <2> DEFINE f == [inviteCall[c] EXCEPT !.pc = "sending", !.row = i, !.token = 1]
    <2>0. inviteCall[c] \in InviteFrames /\ inviteCall[c].pc = "checked" /\ inviteCall[c].op = "create"
          /\ 1 \in 0..MaxTokens
        BY <1>2, <1>i DEF CheckDirectory
    <2>1. /\ f \in InviteFrames /\ f.pc = "sending" /\ f.row = i /\ f.token = 1
          /\ f.op = "create" /\ f.seen = inviteCall[c].seen
        BY <2>0
    <2> HIDE DEF f
    <2>2. /\ Step(c, f) /\ issued[i] = 0 /\ issued' = [issued EXCEPT ![i] = 1]
          /\ invitation[i] = "absent" /\ i \notin sealed /\ inviteCall[c].op = "create"
          /\ UNCHANGED <<inviteRows, mailed, directory, inviteHistory>>
        BY <1>2, <1>i, <2>0 DEF CheckDirectory, f
    <2>3. /\ inviteCall' \in [InviteCalls -> InviteFrames] /\ inviteCall'[c] = f
          /\ \A d \in InviteCalls \ {c} : inviteCall'[d] = inviteCall[d]
        <3> HIDE DEF Step, InvitationsTypeOK, InviteFrames
        <3> QED BY <1>i, <2>1, <2>2, InviteFrameWritten
    <2>4. InvitationsTypeOK'
        BY <1>i, <2>1, <2>2, <2>3
    <2>5. InviteCallsOK'
        BY <1>i, <2>1, <2>2, <2>3
    <2>6. MailOK' /\ DirectoryOK'
        BY <1>i, <2>1, <2>2, <2>3
    <2>7. OneUsable'
        BY <1>i, <2>1, <2>2, <2>3
    <2>8. LinkWasMailed' /\ AcceptedIsMember'
        BY <1>i, <2>1, <2>2, <2>3
    <2>9. RevokedStays'
        BY <1>i, <2>1, <2>2, <2>3
    <2> QED BY <2>4, <2>5, <2>6, <2>7, <2>8, <2>9
<1>3. ASSUME NEW c \in InviteCalls, InsertInvitation(c) PROVE InvitationsIInv'
    <2> DEFINE f == NoCall
    <2>1. f \in InviteFrames /\ f.pc = "idle" /\ f.op = "none" /\ f.row = NoInvite
        BY NoCallIsFrame
    <2>2. /\ Step(c, f) /\ inviteCall[c].pc = "sent" /\ inviteCall[c].op = "create"
          /\ OnRow(c) \in Invites /\ OnRow(c) \notin sealed /\ issued[OnRow(c)] # 0
          /\ <<OnRow(c), inviteCall[c].token>> \in mailed
          /\ invitation' = [invitation EXCEPT ![OnRow(c)] = "PENDING"]
          /\ token' = [token EXCEPT ![OnRow(c)] = inviteCall[c].token]
          /\ doubled' = (doubled \/ \E d \in InviteCalls \ {c} : inviteCall[d].op = "create")
          /\ UNCHANGED <<lapsed, inviteMail, directory, sealed>>
        BY <1>3, <1>i DEF InsertInvitation
    <2>3. /\ inviteCall' \in [InviteCalls -> InviteFrames] /\ inviteCall'[c] = f
          /\ \A d \in InviteCalls \ {c} : inviteCall'[d] = inviteCall[d]
        <3> HIDE DEF Step, InvitationsTypeOK, InviteFrames
        <3> QED BY <1>i, <2>1, <2>2, InviteFrameWritten
    <2>4. InvitationsTypeOK'
        BY <1>i, <2>1, <2>2, <2>3
    <2>5. InviteCallsOK'
        BY <1>i, <2>1, <2>2, <2>3
    <2>6. MailOK' /\ DirectoryOK'
        BY <1>i, <2>1, <2>2, <2>3
    <2>7. OneUsable'
        <3> SUFFICES ASSUME ~doubled' PROVE OneUsable'
            OBVIOUS
        <3>1. ~doubled /\ \A d \in InviteCalls \ {c} : inviteCall[d].op # "create"
            BY <1>i, <2>2
        <3>2. \A i \in Invites : ~ActivePending(i)
            BY <1>i, <2>2, <3>1
        <3>3. \A i \in Invites : ActivePending(i)' => i = OnRow(c)
            BY <1>i, <2>2, <3>2
        <3>4. \A d \in InviteCalls : inviteCall'[d].op # "create"
            BY <2>1, <2>3, <3>1
        <3>5. \A d \in InviteCalls :
                /\ CallAt(d, "expiring")' => lapsed[OnRow(d)']
                /\ inviteCall'[d].op = "resend" /\ ~CallAt(d, "expiring")' =>
                    \/ inviteCall'[d].seen = "PENDING"
                    \/ inviteCall'[d].seen = "EXPIRED" /\ lapsed[OnRow(d)']
            BY <1>i, <2>1, <2>3, <3>1
        <3>6. \A i \in Invites : invitation'[i] = "EXPIRED" => lapsed[i]
            BY <1>i, <2>2, <3>1
        <3> QED BY <2>2, <3>3, <3>4, <3>5, <3>6
    <2>8. LinkWasMailed' /\ AcceptedIsMember'
        BY <1>i, <2>1, <2>2, <2>3
    <2>9. RevokedStays'
        BY <1>i, <2>1, <2>2, <2>3
    <2> QED BY <2>4, <2>5, <2>6, <2>7, <2>8, <2>9
<1>4. ASSUME NEW c \in InviteCalls, SendInvitation(c) PROVE InvitationsIInv'
    BY <1>4 DEF SendInvitation
<1>5. ASSUME NEW c \in InviteCalls, ReadLapsed(c) PROVE InvitationsIInv'
    <2> PICK i \in Invites, op \in {"resend", "accept", "list"} :
            MustExpire(i) /\ Step(c, [NoCall EXCEPT !.pc = "expiring", !.op = op, !.row = i])
        BY <1>5 DEF ReadLapsed
    <2> DEFINE f == [NoCall EXCEPT !.pc = "expiring", !.op = op, !.row = i]
    <2>1. f \in InviteFrames /\ f.pc = "expiring" /\ f.op = op /\ f.row = i
        BY NoCallIsFrame
    <2>2. issued[i] # 0 /\ lapsed[i] /\ i \notin sealed
        BY <1>i
    <2>3. UNCHANGED <<inviteRows, inviteMail, directory, inviteHistory>>
        BY <1>5 DEF ReadLapsed
    <2> HIDE DEF f
    <2>4. Step(c, f)
        BY DEF f
    <2> HIDE DEF Step, InvitationsIInv, ActivePending, InviteFrames, inviteRows, inviteMail,
                 directory, inviteHistory
    <2> QED BY <2>1, <2>2, <2>3, <2>4, ReadStarts
<1>6. ASSUME NEW c \in InviteCalls, WriteExpired(c) PROVE InvitationsIInv'
    <2>0. /\ inviteCall[c].pc = "expiring" /\ inviteCall[c] \in InviteFrames
          /\ inviteCall[c].op # "revoke" /\ OnRow(c) \in Invites /\ OnRow(c) \notin sealed
          /\ issued[OnRow(c)] # 0
          /\ invitation' = [invitation EXCEPT ![OnRow(c)] = "EXPIRED"]
          /\ UNCHANGED <<lapsed, token, mailed, directory, inviteHistory>>
        BY <1>6, <1>i DEF WriteExpired
    <2>a. /\ issued' \in [Invites -> 0..MaxTokens]
          /\ \A i \in Invites : issued'[i] = 0 <=> issued[i] = 0
        BY <1>6, <1>i DEF WriteExpired
    <2>b. PICK f \in InviteFrames :
            /\ Step(c, f)
            /\ f.pc \in {"idle", "checked", "sending"}
            /\ f.pc = "idle" => f = NoCall
            /\ f.pc = "checked" => f.op = "create" /\ inviteCall[c].op = "create" /\ f.row = NoInvite
            /\ f.pc = "sending" => /\ f.op = "resend" /\ f.row = OnRow(c)
                                   /\ f.seen = "EXPIRED" /\ f.token # 0
        <3>1. CASE inviteCall[c].op = "create"
            <4> DEFINE g == [inviteCall[c] EXCEPT !.pc = "checked", !.row = NoInvite]
            <4>1. g \in InviteFrames /\ g.pc = "checked" /\ g.op = "create" /\ g.row = NoInvite
                BY <2>0, <3>1
            <4> HIDE DEF g
            <4>2. Step(c, g)
                BY <1>6, <3>1 DEF WriteExpired, g
            <4> HIDE DEF Step, InviteFrames
            <4> QED BY <3>1, <4>1, <4>2
        <3>2. CASE inviteCall[c].op = "resend" /\ issued[OnRow(c)] < MaxTokens
            <4> DEFINE g == [inviteCall[c] EXCEPT !.pc = "sending", !.seen = "EXPIRED",
                                                  !.token = issued[OnRow(c)] + 1]
            <4>0. issued[OnRow(c)] + 1 \in 0..MaxTokens /\ issued[OnRow(c)] + 1 # 0
                BY <1>i, <2>0, <3>2
            <4>1. /\ g \in InviteFrames /\ g.pc = "sending" /\ g.op = "resend" /\ g.row = OnRow(c)
                  /\ g.seen = "EXPIRED" /\ g.token # 0
                BY <2>0, <3>2, <4>0
            <4> HIDE DEF g
            <4>2. Step(c, g)
                BY <1>6, <3>2 DEF WriteExpired, g
            <4> HIDE DEF Step, InviteFrames
            <4> QED BY <4>1, <4>2
        <3>3. CASE /\ inviteCall[c].op # "create"
                   /\ ~(inviteCall[c].op = "resend" /\ issued[OnRow(c)] < MaxTokens)
            <4>1. Step(c, NoCall)
                BY <1>6, <3>3 DEF WriteExpired
            <4>2. NoCall.pc = "idle"
                OBVIOUS
            <4> HIDE DEF Step, InviteFrames, NoCall
            <4> QED BY <4>1, <4>2, NoCallIsFrame
        <3> QED BY <3>1, <3>2, <3>3
    <2>3. /\ inviteCall' \in [InviteCalls -> InviteFrames] /\ inviteCall'[c] = f
          /\ \A d \in InviteCalls \ {c} : inviteCall'[d] = inviteCall[d]
        <3> HIDE DEF Step, InvitationsTypeOK, InviteFrames
        <3> QED BY <1>i, <2>b, InviteFrameWritten
    <2>4. InvitationsTypeOK'
        BY <1>i, <2>0, <2>a, <2>b, <2>3
    <2>5. InviteCallsOK'
        BY <1>i, <2>0, <2>a, <2>b, <2>3
    <2>6. MailOK' /\ DirectoryOK'
        BY <1>i, <2>0, <2>a, <2>b, <2>3
    <2>7. OneUsable'
        BY <1>i, <2>0, <2>a, <2>b, <2>3
    <2>8. LinkWasMailed' /\ AcceptedIsMember'
        BY <1>i, <2>0, <2>a, <2>b, <2>3
    <2>9. RevokedStays'
        BY <1>i, <2>0, <2>a, <2>b, <2>3
    <2> QED BY <2>4, <2>5, <2>6, <2>7, <2>8, <2>9
<1>7. ASSUME NEW c \in InviteCalls, ReadForResend(c) PROVE InvitationsIInv'
    <2> PICK i \in Invites :
            /\ Resendable(invitation[i]) /\ ~MustExpire(i) /\ issued[i] < MaxTokens
            /\ issued' = [issued EXCEPT ![i] = @ + 1]
            /\ Step(c, [NoCall EXCEPT !.pc = "sending", !.op = "resend", !.row = i,
                                      !.seen = invitation[i], !.token = issued[i] + 1])
        BY <1>7 DEF ReadForResend
    <2> DEFINE f == [NoCall EXCEPT !.pc = "sending", !.op = "resend", !.row = i,
                                   !.seen = invitation[i], !.token = issued[i] + 1]
    <2>0. /\ issued[i] + 1 \in 1..MaxTokens /\ issued[i] + 1 \in 0..MaxTokens
          /\ invitation[i] \in {"PENDING", "EXPIRED"}
        BY <1>i DEF Resendable
    <2>1. /\ f \in InviteFrames /\ f.pc = "sending" /\ f.row = i /\ f.token = issued[i] + 1
          /\ f.op = "resend" /\ f.seen = invitation[i]
        BY <2>0, NoCallIsFrame
    <2> HIDE DEF f
    <2>2. /\ Step(c, f) /\ issued' = [issued EXCEPT ![i] = @ + 1]
          /\ issued[i] \in Nat /\ issued[i] + 1 \in 1..MaxTokens
          /\ invitation[i] \in {"PENDING", "EXPIRED"} /\ i \notin sealed
          /\ UNCHANGED <<inviteRows, mailed, directory, inviteHistory>>
        BY <1>7, <1>i, <2>0 DEF ReadForResend, f
    <2>3. /\ inviteCall' \in [InviteCalls -> InviteFrames] /\ inviteCall'[c] = f
          /\ \A d \in InviteCalls \ {c} : inviteCall'[d] = inviteCall[d]
        <3> HIDE DEF Step, InvitationsTypeOK, InviteFrames
        <3> QED BY <1>i, <2>1, <2>2, InviteFrameWritten
    <2>4. InvitationsTypeOK'
        BY <1>i, <2>1, <2>2, <2>3
    <2>5. InviteCallsOK'
        BY <1>i, <2>1, <2>2, <2>3
    <2>6. MailOK' /\ DirectoryOK'
        BY <1>i, <2>1, <2>2, <2>3
    <2>7. OneUsable'
        BY <1>i, <2>1, <2>2, <2>3
    <2>8. LinkWasMailed' /\ AcceptedIsMember'
        BY <1>i, <2>1, <2>2, <2>3
    <2>9. RevokedStays'
        BY <1>i, <2>1, <2>2, <2>3
    <2> QED BY <2>4, <2>5, <2>6, <2>7, <2>8, <2>9
<1>8. ASSUME NEW c \in InviteCalls, RotateToken(c) PROVE InvitationsIInv'
    BY <1>8 DEF RotateToken
<1>9. ASSUME NEW c \in InviteCalls, ReadForRevoke(c) PROVE InvitationsIInv'
    <2> PICK i \in Invites :
            /\ invitation[i] \notin {"absent", "ACCEPTED"}
            /\ Step(c, [NoCall EXCEPT !.pc = "revoking", !.op = "revoke", !.row = i,
                                      !.seen = invitation[i]])
        BY <1>9 DEF ReadForRevoke
    <2> DEFINE f == [NoCall EXCEPT !.pc = "revoking", !.op = "revoke", !.row = i,
                                   !.seen = invitation[i]]
    <2>1. f \in InviteFrames /\ f.pc = "revoking" /\ f.op = "revoke" /\ f.row = i
        BY <1>i, NoCallIsFrame
    <2>2. issued[i] # 0 /\ TRUE
        BY <1>i
    <2>3. UNCHANGED <<inviteRows, inviteMail, directory, inviteHistory>>
        BY <1>9 DEF ReadForRevoke
    <2> HIDE DEF f
    <2>4. Step(c, f)
        BY DEF f
    <2> HIDE DEF Step, InvitationsIInv, ActivePending, InviteFrames, inviteRows, inviteMail,
                 directory, inviteHistory
    <2> QED BY <2>1, <2>2, <2>3, <2>4, ReadStarts
<1>10. ASSUME NEW c \in InviteCalls, WriteRevoked(c) PROVE InvitationsIInv'
    BY <1>10 DEF WriteRevoked
<1>11. ASSUME NEW c \in InviteCalls, ReadForAccept(c) PROVE InvitationsIInv'
    <2> PICK i \in Invites :
            /\ ActivePending(i)
            /\ Step(c, [NoCall EXCEPT !.pc = "accepting", !.op = "accept", !.row = i,
                                      !.seen = "PENDING"])
        BY <1>11 DEF ReadForAccept
    <2> DEFINE f == [NoCall EXCEPT !.pc = "accepting", !.op = "accept", !.row = i,
                                   !.seen = "PENDING"]
    <2>1. f \in InviteFrames /\ f.pc = "accepting" /\ f.op = "accept" /\ f.row = i
        BY NoCallIsFrame
    <2>2. issued[i] # 0 /\ i \notin sealed
        BY <1>i
    <2>3. UNCHANGED <<inviteRows, inviteMail, directory, inviteHistory>>
        BY <1>11 DEF ReadForAccept
    <2> HIDE DEF f
    <2>4. Step(c, f)
        BY DEF f
    <2> HIDE DEF Step, InvitationsIInv, ActivePending, InviteFrames, inviteRows, inviteMail,
                 directory, inviteHistory
    <2> QED BY <2>1, <2>2, <2>3, <2>4, ReadStarts
<1>12. ASSUME NEW c \in InviteCalls, EnsureAccount(c) PROVE InvitationsIInv'
    BY <1>12 DEF EnsureAccount
<1>13. ASSUME NEW c \in InviteCalls, JoinTenant(c) PROVE InvitationsIInv'
    BY <1>13 DEF JoinTenant
<1>14. ASSUME NEW c \in InviteCalls, WriteAccepted(c) PROVE InvitationsIInv'
    BY <1>14 DEF WriteAccepted
<1>15. ASSUME NEW c \in InviteCalls, CallFails(c) PROVE InvitationsIInv'
    BY <1>15 DEF CallFails
<1>16. ASSUME NEW i \in Invites, Lapse(i) PROVE InvitationsIInv'
    BY <1>16 DEF Lapse
<1> QED
    BY <1>0, <1>1, <1>2, <1>3, <1>4, <1>5, <1>6, <1>7, <1>8, <1>9, <1>10, <1>11, <1>12, <1>13,
       <1>14, <1>15, <1>16 DEF InvitationsNext

LEMMA OneUsableCounted == ~doubled /\ OneUsable => Cardinality({i \in Invites : ActivePending(i)}) \in {0, 1}
<1> DEFINE usable == {i \in Invites : ActivePending(i)}
<1> SUFFICES ASSUME ~doubled, OneUsable PROVE Cardinality(usable) \in {0, 1}
    OBVIOUS
<1>1. CASE usable = {}
    BY <1>1, FS_EmptySet
<1>2. ASSUME NEW i \in usable PROVE Cardinality(usable) \in {0, 1}
    <2>1. usable = {i}
        BY <1>2 DEF OneUsable
    <2> QED BY <2>1, FS_Singleton
<1> QED BY <1>1, <1>2

\* A link that can be used was mailed, an accepted invitation has its member, a revoked one
\* stays revoked, and two usable invitations have their excuse (create_, resend_, revoke_
\* and accept_invitation, _maybe_expire).
THEOREM LinksStandOrFall == InvitationsSpec => []LinkStandsOrFalls
<1>1. InvitationsIInv => LinkStandsOrFalls
    <2>1. InvitationsIInv => DoubledIsExcused
        <3> SUFFICES ASSUME InvitationsIInv, ~doubled PROVE ~(Cardinality({i \in Invites : ActivePending(i)}) > 1)
            BY DEF DoubledIsExcused
        <3>1. Cardinality({i \in Invites : ActivePending(i)}) \in {0, 1}
            BY OneUsableCounted DEF InvitationsIInv
        <3> QED BY <3>1
    <2> QED BY <2>1 DEF InvitationsIInv, LinkStandsOrFalls
<1> QED BY InvitationsStart, InvitationsStep, <1>1, PTL DEF InvitationsSpec

(***************************************************************************)
(* The session and the temporary membership                                *)
(***************************************************************************)

USE SessionsAssumption

\* A request works in one tenant, at a level the directory once gave there, and a switch
\* of tenants runs no command.
RequestsOK ==
    \A r \in Requests :
        /\ request[r].pc # "idle" => request[r].tenant \in Tenants
        /\ request[r].level = "full" => request[r].tenant \in everGranted
        /\ request[r].switching => ~Commanding(r)

\* Nobody claims a role that the directory never gave.
ClaimsOK ==
    \A t \in Tenants : "full" \in {dirLevel[t], claims[t]} => t \in everGranted

\* As long as commands did not overlap: one command at a time, beside switches of tenants
\* that do not look at the grant; what a request saw of the grant is that there was none.
GrantOK ==
    ~excused =>
        /\ \A r \in Requests : Commanding(r) =>
                \A s \in Requests \ {r} : request[s].pc = "idle" \/ request[s].switching
        /\ \A r \in Requests :
                request[r].pc # "idle" /\ ~request[r].switching => request[r].seen = NoTenant
        /\ \A r \in Requests :
                Commanding(r) /\ Belongs(r, request[r].target) => grant = NoTenant

SessionsIInv == SessionsTypeOK /\ RequestsOK /\ ClaimsOK /\ GrantOK /\ TenantsStayApart

SessionFrames ==
    [pc : {"idle", "enriching", "reminting", "switched", "handling", "granted"},
     tenant : Tenants \cup {NoTenant}, level : Levels,
     seen : Tenants \cup {NoTenant}, target : Tenants \cup {NoTenant},
     switching : BOOLEAN]

LEMMA NoRequestIsFrame == NoRequest \in SessionFrames
    BY DEF NoRequest, SessionFrames, Levels

LEMMA FrameWritten ==
    ASSUME SessionsTypeOK, NEW r \in Requests, NEW f \in SessionFrames, To(r, f)
    PROVE  /\ request' \in [Requests -> SessionFrames]
           /\ request'[r] = f
           /\ \A s \in Requests \ {r} : request'[s] = request[s]
    BY DEF SessionsTypeOK, To, SessionFrames

LEMMA SessionsStart == SessionsInit => SessionsIInv
<1> SUFFICES ASSUME SessionsInit PROVE SessionsIInv
    OBVIOUS
<1>1. SessionsTypeOK
    BY NoRequestIsFrame DEF SessionsInit, SessionsTypeOK, SessionFrames, Levels
<1>2. \A r \in Requests : request[r] = NoRequest
    BY DEF SessionsInit
<1>3. RequestsOK
    BY <1>2 DEF RequestsOK, NoRequest
<1>4. ClaimsOK
    BY DEF SessionsInit, ClaimsOK
<1>5. GrantOK
    BY <1>2 DEF GrantOK, NoRequest, Commanding, RequestAt
<1>6. TenantsStayApart
    BY DEF SessionsInit, TenantsStayApart, RoleWasGrantedThere, GrantIsReverted
<1> QED BY <1>1, <1>3, <1>4, <1>5, <1>6 DEF SessionsIInv

LEMMA MintedLevels ==
    ASSUME SessionsTypeOK, ClaimsOK, NEW active
    PROVE  /\ Minted(active) \in [Tenants -> Levels]
           /\ \A t \in Tenants : Minted(active)[t] = "full" => t \in everGranted
    BY DEF SessionsTypeOK, ClaimsOK, Minted, Levels

LEMMA SessionsStep == SessionsIInv /\ [SessionsNext]_sessionVars => SessionsIInv'
<1> SUFFICES ASSUME SessionsIInv, [SessionsNext]_sessionVars PROVE SessionsIInv'
    OBVIOUS
<1> USE DEF RequestAt, Commanding, To, Advance, NoRequest, Levels, SessionsTypeOK, RequestsOK,
            ClaimsOK, GrantOK, TenantsStayApart, RoleWasGrantedThere, GrantIsReverted
<1>i. /\ SessionsTypeOK /\ RequestsOK /\ ClaimsOK /\ GrantOK /\ TenantsStayApart
    BY DEF SessionsIInv
<1>0. CASE UNCHANGED sessionVars
    BY <1>0, <1>i DEF SessionsIInv, sessionVars, provider, browser, userRow, sessionHistory, Belongs
<1>1. CASE NewToken
    BY <1>1, <1>i, MintedLevels DEF SessionsIInv, NewToken, provider, userRow, sessionHistory, Belongs
<1>2. CASE Logout
    BY <1>2, <1>i DEF SessionsIInv, Logout, userRow, sessionHistory, Belongs
<1>3. ASSUME NEW t \in Tenants, DirectoryChanges(t) PROVE SessionsIInv'
    BY <1>3, <1>i DEF SessionsIInv, DirectoryChanges, browser, userRow, Belongs
<1>4. ASSUME NEW r \in Requests, Authenticate(r) PROVE SessionsIInv'
    <2> DEFINE f == Selected([NoRequest EXCEPT !.tenant = cookie, !.level = claims[cookie],
                                               !.seen = grant])
    <2>1. /\ f \in SessionFrames
          /\ f.pc \in {"enriching", "handling"} /\ f.tenant = cookie /\ f.level = claims[cookie]
          /\ f.seen = grant /\ ~f.switching
        BY <1>4, <1>i DEF Authenticate, Selected, Sync, SessionFrames
    <2>2. /\ request' \in [Requests -> SessionFrames] /\ request'[r] = f
          /\ \A s \in Requests \ {r} : request'[s] = request[s]
        <3> HIDE DEF f
        <3> QED BY <1>4, <1>i, <2>1, FrameWritten DEF Authenticate, f
    <2>3. UNCHANGED <<dirLevel, idpActive, claims, cookie, grant, heldRoles, seeded, everGranted>>
        BY <1>4 DEF Authenticate, provider, browser, userRow
    <2>4. excused' = (excused \/ \E s \in Requests : Commanding(s))
        BY <1>4 DEF Authenticate
    <2>5. cookie \in Tenants /\ request[r].pc = "idle"
        BY <1>4, <1>i DEF Authenticate
    <2> HIDE DEF f
    <2>6. SessionsTypeOK'
        BY <1>i, <2>2, <2>3, <2>4 DEF SessionFrames
    <2>7. RequestsOK' /\ ClaimsOK'
        BY <1>i, <2>1, <2>2, <2>3, <2>5
    <2>8. GrantOK'
        <3> SUFFICES ASSUME ~excused' PROVE GrantOK'
            OBVIOUS
        <3>1. ~excused /\ grant = NoTenant /\ \A s \in Requests : ~Commanding(s)
            BY <1>i, <2>4
        <3>2. \A s \in Requests : ~Commanding(s)'
            BY <2>1, <2>2, <3>1
        <3>3. \A s \in Requests :
                request'[s].pc # "idle" /\ ~request'[s].switching => request'[s].seen = NoTenant
            BY <1>i, <2>1, <2>2, <3>1
        <3> QED BY <3>2, <3>3
    <2>9. TenantsStayApart'
        BY <1>i, <2>1, <2>2, <2>3, <2>4, <2>5
    <2> QED BY <2>6, <2>7, <2>8, <2>9 DEF SessionsIInv
<1>5. ASSUME NEW r \in Requests, Finalize(r) PROVE SessionsIInv'
    <2> PICK t \in Tenants : \E level \in {dirLevel[t], claims[t]} \ {"out"} :
            To(r, Selected([NoRequest EXCEPT !.tenant = t, !.level = level, !.switching = TRUE]))
        BY <1>5 DEF Finalize
    <2> PICK level \in {dirLevel[t], claims[t]} \ {"out"} :
            To(r, Selected([NoRequest EXCEPT !.tenant = t, !.level = level, !.switching = TRUE]))
        OBVIOUS
    <2> DEFINE f == Selected([NoRequest EXCEPT !.tenant = t, !.level = level, !.switching = TRUE])
    <2>0. level \in Levels /\ (level = "full" => t \in everGranted)
        BY <1>i
    <2>1. /\ f \in SessionFrames
          /\ f.pc \in {"enriching", "reminting"} /\ f.tenant = t /\ f.level = level /\ f.switching
        BY <2>0 DEF Selected, Sync, SessionFrames
    <2>2. /\ request' \in [Requests -> SessionFrames] /\ request'[r] = f
          /\ \A s \in Requests \ {r} : request'[s] = request[s]
        <3> HIDE DEF f
        <3> QED BY <1>i, <2>1, FrameWritten DEF f
    <2>3. UNCHANGED <<provider, browser, userRow, sessionHistory>> /\ request[r].pc = "idle"
        BY <1>5 DEF Finalize
    <2> HIDE DEF f
    <2>6. SessionsTypeOK'
        BY <1>i, <2>2, <2>3 DEF SessionFrames, provider, browser, userRow, sessionHistory
    <2>7. RequestsOK' /\ ClaimsOK'
        <3>1. ClaimsOK'
            BY <1>i, <2>3 DEF provider, browser, sessionHistory
        <3>2. ASSUME NEW s \in Requests
              PROVE  /\ request'[s].pc # "idle" => request'[s].tenant \in Tenants
                     /\ request'[s].level = "full" => request'[s].tenant \in everGranted
                     /\ request'[s].switching => request'[s].pc # "granted"
            <4>1. CASE s = r
                BY <2>0, <2>1, <2>2, <4>1
            <4>2. CASE s # r
                BY <1>i, <2>2, <4>2
            <4> QED BY <4>1, <4>2
        <3> QED BY <2>3, <3>1, <3>2 DEF sessionHistory
    <2>8. GrantOK'
        <3> SUFFICES ASSUME ~excused' PROVE GrantOK'
            OBVIOUS
        <3>1. ~excused /\ grant' = grant
            BY <2>3 DEF userRow, sessionHistory
        <3>2. \A s \in Requests : Commanding(s)' => s # r /\ Commanding(s)
            BY <2>1, <2>2
        <3>3. \A s \in Requests : request'[s].switching \/ request'[s] = request[s]
            BY <2>1, <2>2
        <3>4. \A s \in Requests :
                request'[s].pc # "idle" /\ ~request'[s].switching => request'[s].seen = NoTenant
            BY <1>i, <3>1, <3>3
        <3>5. \A s \in Requests : Commanding(s)' =>
                \A q \in Requests \ {s} : request'[q].pc = "idle" \/ request'[q].switching
            BY <1>i, <3>1, <3>2, <3>3
        <3>6. \A s \in Requests : Commanding(s)' /\ Belongs(s, request[s].target)' => grant' = NoTenant
            BY <1>i, <3>1, <3>2, <2>2 DEF Belongs
        <3> QED BY <3>4, <3>5, <3>6, <3>2, <2>2
    <2>9. TenantsStayApart'
        BY <1>i, <2>1, <2>2, <2>3 DEF userRow, sessionHistory
    <2> QED BY <2>6, <2>7, <2>8, <2>9 DEF SessionsIInv
<1>6. ASSUME NEW r \in Requests, Enrich(r) PROVE SessionsIInv'
    <2> PICK answer \in {dirLevel[request[r].tenant], "out"} :
            To(r, Sync([request[r] EXCEPT !.level = IF answer = "out" THEN @ ELSE answer]))
        BY <1>6 DEF Enrich, EnrichedLevel
    <2> DEFINE f == Sync([request[r] EXCEPT !.level = IF answer = "out" THEN @ ELSE answer])
    <2>0. request[r].pc = "enriching" /\ request[r] \in SessionFrames /\ request[r].tenant \in Tenants
        BY <1>6, <1>i DEF Enrich, SessionFrames
    <2>a. dirLevel[request[r].tenant] \in Levels /\ request[r].level \in Levels
        BY <1>i, <2>0 DEF SessionFrames
    <2>1. /\ f \in SessionFrames
          /\ f.pc \in {"handling", "reminting"} /\ f.tenant = request[r].tenant
          /\ f.level \in {request[r].level, dirLevel[f.tenant]}
          /\ f.seen = request[r].seen /\ f.target = request[r].target
          /\ f.switching = request[r].switching
        BY <2>0, <2>a DEF Sync, SessionFrames
    <2>2. /\ request' \in [Requests -> SessionFrames] /\ request'[r] = f
          /\ \A s \in Requests \ {r} : request'[s] = request[s]
        <3> HIDE DEF f
        <3>1. To(r, f)
            BY DEF f
        <3> HIDE DEF To, SessionsTypeOK
        <3> QED BY <1>i, <2>1, <3>1, FrameWritten
    <2>3. UNCHANGED <<provider, browser, userRow, sessionHistory>>
        BY <1>6 DEF Enrich
    <2> HIDE DEF f
    <2>6. SessionsTypeOK'
        BY <1>i, <2>2, <2>3 DEF SessionFrames, provider, browser, userRow, sessionHistory
    <2>7. RequestsOK' /\ ClaimsOK'
        BY <1>i, <2>0, <2>1, <2>2, <2>3 DEF provider, browser, userRow, sessionHistory
    <2>8. GrantOK'
        BY <1>i, <2>0, <2>1, <2>2, <2>3 DEF Belongs, userRow, sessionHistory
    <2>9. TenantsStayApart'
        BY <1>i, <2>0, <2>1, <2>2, <2>3 DEF userRow, sessionHistory
    <2> QED BY <2>6, <2>7, <2>8, <2>9 DEF SessionsIInv
<1>7. ASSUME NEW r \in Requests, Remint(r) PROVE SessionsIInv'
    BY <1>7, <1>i DEF SessionsIInv, Remint, browser, userRow, sessionHistory, Belongs
<1>8. ASSUME NEW r \in Requests, Switch(r) PROVE SessionsIInv'
    BY <1>8, <1>i, MintedLevels DEF SessionsIInv, Switch, Persist, Seeding, provider, sessionHistory, Belongs
<1>9. ASSUME NEW r \in Requests, Commit(r) PROVE SessionsIInv'
    BY <1>9, <1>i DEF SessionsIInv, Commit, Persist, Seeding, provider, browser, sessionHistory, Belongs
<1>10. ASSUME NEW r \in Requests, Rollback(r) PROVE SessionsIInv'
    BY <1>10, <1>i DEF SessionsIInv, Rollback, provider, browser, userRow, sessionHistory, Belongs
<1>11. ASSUME NEW r \in Requests, GrantMembership(r) PROVE SessionsIInv'
    <2> PICK t \in Tenants :
            /\ To(r, [request[r] EXCEPT !.pc = "granted", !.target = t])
            /\ IF Belongs(r, t) THEN UNCHANGED userRow ELSE grant' = t /\ Persist(r)
        BY <1>11 DEF GrantMembership
    <2> DEFINE f == [request[r] EXCEPT !.pc = "granted", !.target = t]
    <2>0. /\ request[r].pc = "handling" /\ ~request[r].switching
          /\ request[r] \in SessionFrames /\ request[r].tenant \in Tenants
        BY <1>11, <1>i DEF GrantMembership, SessionFrames
    <2>1. /\ f \in SessionFrames /\ f.pc = "granted" /\ f.target = t
          /\ f.tenant = request[r].tenant /\ f.level = request[r].level
          /\ f.seen = request[r].seen /\ ~f.switching
        BY <2>0 DEF SessionFrames
    <2>2. /\ request' \in [Requests -> SessionFrames] /\ request'[r] = f
          /\ \A s \in Requests \ {r} : request'[s] = request[s]
        <3> HIDE DEF f
        <3> QED BY <1>i, <2>1, FrameWritten DEF f
    <2>3. /\ UNCHANGED <<provider, browser, everGranted>>
          /\ excused' = (excused \/ \E s \in Requests \ {r} : request[s].pc # "idle")
        BY <1>11 DEF GrantMembership
    <2>4. /\ IF Belongs(r, t) THEN grant' = grant ELSE grant' = t
          /\ heldRoles' \in {heldRoles, heldRoles \cup {request[r].tenant}}
          /\ heldRoles' # heldRoles => request[r].level = "full"
          /\ seeded \subseteq seeded' /\ seeded' \subseteq seeded \cup {request[r].tenant}
          /\ heldRoles' \ heldRoles \subseteq seeded'
        BY <2>0 DEF Persist, Seeding, userRow
    <2> HIDE DEF f
    <2>6. SessionsTypeOK'
        <3>1. heldRoles' \subseteq Tenants /\ seeded' \subseteq Tenants
            BY <1>i, <2>0, <2>4
        <3>2. grant' \in Tenants \cup {NoTenant}
            BY <1>i, <2>4
        <3> QED BY <1>i, <2>2, <2>3, <3>1, <3>2 DEF SessionFrames, provider, browser
    <2>7. RequestsOK' /\ ClaimsOK'
        BY <1>i, <2>0, <2>1, <2>2, <2>3 DEF provider, browser
    <2>8. GrantOK'
        <3> SUFFICES ASSUME ~excused' PROVE GrantOK'
            OBVIOUS
        <3>1. ~excused /\ \A s \in Requests \ {r} : request[s].pc = "idle"
            BY <2>3, <1>i
        <3>2. request[r].seen = NoTenant /\ grant = NoTenant
            BY <3>1, <1>i, <2>0
        <3>3. \A s \in Requests : request'[s].pc = "idle" \/ s = r
            BY <3>1, <2>2
        <3>4. Belongs(r, t)' = Belongs(r, t)
            BY <2>1, <2>2 DEF Belongs
        <3> QED BY <3>1, <3>2, <3>3, <3>4, <2>1, <2>2, <2>4 DEF Belongs
    <2>9. TenantsStayApart'
        <3>1. heldRoles' \subseteq everGranted' \cap seeded'
            BY <1>i, <2>0, <2>3, <2>4
        <3>2. Commanding(r)'
            BY <2>1, <2>2
        <3> QED BY <3>1, <3>2
    <2> QED BY <2>6, <2>7, <2>8, <2>9 DEF SessionsIInv
<1>12. ASSUME NEW r \in Requests, Revert(r) PROVE SessionsIInv'
    BY <1>12, <1>i DEF SessionsIInv, Revert, Reverted, Persist, Seeding, provider, browser, sessionHistory, Belongs
<1>13. ASSUME NEW r \in Requests, Dies(r) PROVE SessionsIInv'
    BY <1>13, <1>i DEF SessionsIInv, Dies, provider, browser, userRow, Belongs
<1> QED
    BY <1>0, <1>1, <1>2, <1>3, <1>4, <1>5, <1>6, <1>7, <1>8, <1>9, <1>10, <1>11, <1>12, <1>13
    DEF SessionsNext

\* Local roles are roles the directory gave in that tenant, with their permission rows, and
\* no temporary membership survives its command (_authenticate, finalize and switch of
\* tenants, temporary_tenant_membership).
THEOREM RolesStayApart == SessionsSpec => []TenantsStayApart
<1>1. SessionsIInv => TenantsStayApart
    BY DEF SessionsIInv
<1> QED BY SessionsStart, SessionsStep, <1>1, PTL DEF SessionsSpec

(***************************************************************************)
(* The tenant of the MCP server                                            *)
(***************************************************************************)

USE McpSessionAssumption

\* Calls that work on a tenant, and those of them that took it from the selection
Bears(c) == mcpCall[c].pc \in {"finalizing", "refreshing", "finalized", "refreshed"}
Refreshes(c) == mcpCall[c].pc \in {"refreshing", "refreshed"}

\* A tenant on its way was picked, or is the only one of a token; a selection that is being
\* refreshed is the last choice, unless that came while it was on its way.
BearersOK ==
    \A c \in McpCalls :
        /\ Bears(c) => mcpCall[c].tenant \in chosen
        /\ Refreshes(c) => mcpCall[c].tenant = lastChosen \/ overtakes

SelectionOK == selection.tenant \in chosen \cup {Unresolved}

McpSessionIInv == McpSessionTypeOK /\ BearersOK /\ SelectionOK /\ ChosenTenantIsUsed

McpFrames == [pc : {"idle", "picking", "finalizing", "refreshing", "finalized", "refreshed", "running"},
              login : BOOLEAN, listed : SUBSET McpTenants,
              tenant : McpTenants \cup {Unresolved, Fallback}]

\* A frame in which a call may go on, with the tenants chosen by then
FrameOK(f, tenants) ==
    /\ f.pc \in {"finalizing", "refreshing", "finalized", "refreshed"} => f.tenant \in tenants
    /\ f.pc \in {"refreshing", "refreshed"} => f.tenant = lastChosen' \/ overtakes'
    /\ f.pc = "running" =>
        \/ f.tenant = Fallback /\ f.listed = {}
        \/ f.tenant \in tenants \cup {Unresolved}

LEMMA NoMcpCallIsFrame == NoMcpCall \in McpFrames
    BY DEF NoMcpCall, McpFrames

LEMMA McpStart == McpSessionInit => McpSessionIInv
<1> SUFFICES ASSUME McpSessionInit PROVE McpSessionIInv
    OBVIOUS
<1>1. \A c \in McpCalls : mcpCall[c] = NoMcpCall
    BY DEF McpSessionInit
<1>2. McpSessionTypeOK
    BY NoMcpCallIsFrame DEF McpSessionInit, McpSessionTypeOK, McpFrames, NoSelection
<1>3. BearersOK
    BY <1>1 DEF BearersOK, Bears, Refreshes, NoMcpCall
<1>4. SelectionOK
    BY DEF McpSessionInit, SelectionOK, NoSelection
<1>5. ChosenTenantIsUsed
    BY <1>1 DEF McpSessionInit, ChosenTenantIsUsed, McpAt, NoMcpCall, NoSelection
<1> QED BY <1>2, <1>3, <1>4, <1>5 DEF McpSessionIInv

LEMMA OnlyOne ==
    ASSUME NEW S, Cardinality(S) = 1
    PROVE  Only(S) \in S
<1>1. S # {}
    BY FS_EmptySet
<1> QED BY <1>1 DEF Only

\* Whoever goes on in such a frame keeps the invariant, if what is selected by then was
\* chosen, and is the last choice unless another call was bringing a tenant.
LEMMA CallMoves ==
    ASSUME McpSessionIInv, NEW c \in McpCalls, NEW f \in McpFrames,
           McpGoes(c, f), FrameOK(f, chosen'),
           chosen \subseteq chosen', chosen' \subseteq McpTenants,
           {remote', prompted', overtakes'} \subseteq BOOLEAN,
           memberOf' \subseteq McpTenants, listings' \subseteq SUBSET McpTenants,
           selection' \in [tenant : McpTenants \cup {Unresolved}, fresh : BOOLEAN],
           lastChosen' \in McpTenants \cup {Unresolved},
           selection'.tenant \in chosen' \cup {Unresolved},
           selection'.tenant \in {Unresolved, lastChosen'} \/ overtakes',
           \A d \in McpCalls \ {c} :
                Refreshes(d) => mcpCall[d].tenant = lastChosen' \/ overtakes'
    PROVE  McpSessionIInv'
<1>1. /\ mcpCall' \in [McpCalls -> McpFrames]
      /\ mcpCall'[c] = f
      /\ \A d \in McpCalls \ {c} : mcpCall'[d] = mcpCall[d]
    BY DEF McpSessionIInv, McpSessionTypeOK, McpGoes, McpFrames
<1>2. McpSessionTypeOK'
    BY <1>1 DEF McpSessionTypeOK, McpFrames
<1>3. BearersOK'
    BY <1>1 DEF McpSessionIInv, BearersOK, Bears, Refreshes, FrameOK
<1>4. SelectionOK'
    BY DEF SelectionOK
<1>5. ChosenTenantIsUsed'
    BY <1>1 DEF McpSessionIInv, ChosenTenantIsUsed, McpAt, FrameOK
<1> QED BY <1>2, <1>3, <1>4, <1>5 DEF McpSessionIInv

\* ... and without a word on the selection, if the call leaves it alone
LEMMA CallGoesOn ==
    ASSUME McpSessionIInv, NEW c \in McpCalls, NEW f \in McpFrames,
           McpGoes(c, f), FrameOK(f, chosen'),
           chosen \subseteq chosen', chosen' \subseteq McpTenants,
           {remote', prompted'} \subseteq BOOLEAN,
           memberOf' \subseteq McpTenants, listings' \subseteq SUBSET McpTenants,
           UNCHANGED <<selection, lastChosen, overtakes>>
    PROVE  McpSessionIInv'
<1>1. /\ selection \in [tenant : McpTenants \cup {Unresolved}, fresh : BOOLEAN]
      /\ lastChosen \in McpTenants \cup {Unresolved} /\ overtakes \in BOOLEAN
    BY DEF McpSessionIInv, McpSessionTypeOK
<1>2. /\ selection.tenant \in chosen \cup {Unresolved}
      /\ selection.tenant \in {Unresolved, lastChosen} \/ overtakes
      /\ \A d \in McpCalls : Refreshes(d) => mcpCall[d].tenant = lastChosen \/ overtakes
    BY DEF McpSessionIInv, SelectionOK, ChosenTenantIsUsed, BearersOK
<1> QED BY <1>1, <1>2, CallMoves

LEMMA CallEnds ==
    ASSUME McpSessionIInv, NEW c \in McpCalls, McpEnds(c), chosen' = chosen,
           {remote', prompted'} \subseteq BOOLEAN,
           memberOf' \subseteq McpTenants, listings' \subseteq SUBSET McpTenants,
           UNCHANGED <<selection, lastChosen, overtakes>>
    PROVE  McpSessionIInv'
<1>1. chosen \subseteq McpTenants
    BY DEF McpSessionIInv, McpSessionTypeOK
<1>2. FrameOK(NoMcpCall, chosen)
    BY DEF FrameOK, NoMcpCall
<1> QED BY <1>1, <1>2, NoMcpCallIsFrame, CallGoesOn DEF McpEnds

\* A request without a selection: whatever it is given was the only tenant, or is none.
LEMMA UnselectedRuns ==
    ASSUME McpSessionIInv, NEW c \in McpCalls, NEW call \in McpFrames, WithoutSelection(c, call),
           {remote', prompted'} \subseteq BOOLEAN,
           memberOf' \subseteq McpTenants, listings' \subseteq SUBSET McpTenants,
           UNCHANGED <<selection, lastChosen, overtakes>>
    PROVE  McpSessionIInv'
<1>0. chosen \subseteq McpTenants
    BY DEF McpSessionIInv, McpSessionTypeOK
<1>1. ASSUME Cardinality(call.listed) = 1,
             McpGoes(c, [call EXCEPT !.pc = "finalizing", !.tenant = Only(call.listed)]),
             chosen' = chosen \cup call.listed
      PROVE  McpSessionIInv'
    <2> DEFINE f == [call EXCEPT !.pc = "finalizing", !.tenant = Only(call.listed)]
    <2>1. Only(call.listed) \in call.listed /\ call.listed \subseteq McpTenants
        BY <1>1, OnlyOne DEF McpFrames
    <2>2. f \in McpFrames /\ f.pc = "finalizing" /\ f.tenant = Only(call.listed)
        BY <2>1 DEF McpFrames
    <2> HIDE DEF f
    <2>3. FrameOK(f, chosen')
        BY <1>1, <2>1, <2>2 DEF FrameOK
    <2>4. McpGoes(c, f)
        BY <1>1 DEF f
    <2> QED BY <1>0, <1>1, <2>1, <2>2, <2>3, <2>4, CallGoesOn
<1>2. ASSUME McpGoes(c, [call EXCEPT !.pc = "running",
                                !.tenant = IF call.listed = {} THEN Fallback ELSE Unresolved]),
             UNCHANGED chosen
      PROVE  McpSessionIInv'
    <2> DEFINE f == [call EXCEPT !.pc = "running",
                                 !.tenant = IF call.listed = {} THEN Fallback ELSE Unresolved]
    <2>1. /\ f \in McpFrames /\ f.pc = "running" /\ f.listed = call.listed
          /\ f.tenant = IF call.listed = {} THEN Fallback ELSE Unresolved
        BY DEF McpFrames
    <2> HIDE DEF f
    <2>2. FrameOK(f, chosen')
        BY <2>1 DEF FrameOK
    <2>3. McpGoes(c, f)
        BY <1>2 DEF f
    <2> QED BY <1>0, <1>2, <2>1, <2>2, <2>3, CallGoesOn
<1> QED BY <1>1, <1>2 DEF WithoutSelection

\* Where a login that does not go on leaves its call: at the tenant page, or over
LEMMA ReturnFrame ==
    ASSUME McpSessionIInv, NEW c \in McpCalls, LoginReturns(c)
    PROVE  \E f \in McpFrames : f.pc \in {"idle", "picking"} /\ McpGoes(c, f)
<1>1. mcpCall[c] \in McpFrames
    BY DEF McpSessionIInv, McpSessionTypeOK, McpFrames
<1>2. /\ [mcpCall[c] EXCEPT !.pc = "picking", !.tenant = Unresolved] \in McpFrames
      /\ [mcpCall[c] EXCEPT !.pc = "picking", !.tenant = Unresolved].pc = "picking"
    BY <1>1 DEF McpFrames
<1>3. NoMcpCall.pc = "idle"
    BY DEF NoMcpCall
<1> QED BY <1>2, <1>3, NoMcpCallIsFrame DEF LoginReturns, McpEnds

LEMMA RunFrame ==
    ASSUME McpSessionIInv, NEW c \in McpCalls, NEW t \in McpTenants \cup {Unresolved}, McpRuns(c, t)
    PROVE  \E f \in McpFrames : f.pc = "running" /\ f.tenant = t /\ McpGoes(c, f)
<1>1. mcpCall[c] \in McpFrames
    BY DEF McpSessionIInv, McpSessionTypeOK, McpFrames
<1>2. /\ [mcpCall[c] EXCEPT !.pc = "running", !.tenant = t] \in McpFrames
      /\ [mcpCall[c] EXCEPT !.pc = "running", !.tenant = t].pc = "running"
      /\ [mcpCall[c] EXCEPT !.pc = "running", !.tenant = t].tenant = t
    BY <1>1 DEF McpFrames
<1> QED BY <1>2 DEF McpRuns

LEMMA McpStep == McpSessionIInv /\ [McpSessionNext]_mcpVars => McpSessionIInv'
<1> SUFFICES ASSUME McpSessionIInv, [McpSessionNext]_mcpVars PROVE McpSessionIInv'
    OBVIOUS
<1>i. /\ {remote, prompted, overtakes} \subseteq BOOLEAN
      /\ memberOf \subseteq McpTenants /\ listings \subseteq SUBSET McpTenants
      /\ chosen \subseteq McpTenants
      /\ \A c \in McpCalls : mcpCall[c] \in McpFrames
    BY DEF McpSessionIInv, McpSessionTypeOK, McpFrames
<1>j. \A c \in McpCalls :
        /\ Bears(c) => mcpCall[c].tenant \in chosen
        /\ Refreshes(c) => mcpCall[c].tenant = lastChosen \/ overtakes
    BY DEF McpSessionIInv, BearersOK
<1>0. CASE UNCHANGED mcpVars
    BY <1>0 DEF mcpVars, mcpHistory, McpSessionIInv, McpSessionTypeOK, BearersOK, Bears, Refreshes,
                SelectionOK, ChosenTenantIsUsed, McpAt
<1>1. ASSUME NEW c \in McpCalls, StartLogin(c) PROVE McpSessionIInv'
    <2> DEFINE call == [NoMcpCall EXCEPT !.login = TRUE, !.listed = memberOf]
    <2>1. /\ UNCHANGED <<remote, memberOf, selection, lastChosen, overtakes>>
          /\ prompted' \in BOOLEAN /\ listings' \subseteq SUBSET McpTenants
        BY <1>1, <1>i DEF StartLogin
    <2>2. CASE memberOf = {}
        <3>0. Cardinality(memberOf) # 1
            BY <2>2, FS_EmptySet
        <3>1. McpEnds(c) /\ chosen' = chosen
            BY <1>1, <2>2, <3>0 DEF StartLogin
        <3> QED BY <1>i, <2>1, <3>1, CallEnds
    <2>3. CASE memberOf # {} /\ Cardinality(memberOf) = 1
        <3> DEFINE f == [call EXCEPT !.pc = "finalizing", !.tenant = Only(memberOf)]
        <3>1. Only(memberOf) \in memberOf
            BY <2>3, OnlyOne
        <3>2. f \in McpFrames /\ f.pc = "finalizing" /\ f.tenant = Only(memberOf)
            BY <1>i, <3>1 DEF McpFrames, NoMcpCall
        <3>3. McpGoes(c, f) /\ chosen' = chosen \cup memberOf
            BY <1>1, <2>3 DEF StartLogin
        <3> HIDE DEF f
        <3>4. FrameOK(f, chosen')
            BY <3>1, <3>2, <3>3 DEF FrameOK
        <3> QED BY <1>i, <2>1, <3>2, <3>3, <3>4, CallGoesOn
    <2>4. CASE memberOf # {} /\ Cardinality(memberOf) # 1
        <3> DEFINE f == [call EXCEPT !.pc = "picking"]
        <3>1. f \in McpFrames /\ f.pc = "picking"
            BY <1>i DEF McpFrames, NoMcpCall
        <3>2. McpGoes(c, f) /\ chosen' = chosen
            BY <1>1, <2>4 DEF StartLogin
        <3> HIDE DEF f
        <3>3. FrameOK(f, chosen')
            BY <3>1 DEF FrameOK
        <3> QED BY <1>i, <2>1, <3>1, <3>2, <3>3, CallGoesOn
    <2> QED BY <2>2, <2>3, <2>4
<1>2. ASSUME NEW c \in McpCalls, AbandonPick(c) PROVE McpSessionIInv'
    BY <1>2, <1>i, CallEnds DEF AbandonPick, mcpHistory
<1>3. ASSUME NEW c \in McpCalls, PageCloses(c) PROVE McpSessionIInv'
    BY <1>3, <1>i, CallEnds DEF PageCloses, mcpHistory
<1>4. ASSUME NEW c \in McpCalls, FinishRequest(c) PROVE McpSessionIInv'
    BY <1>4, <1>i, CallEnds DEF FinishRequest, mcpHistory
<1>5. ASSUME NEW c \in McpCalls, FinalizeTenant(c) PROVE McpSessionIInv'
    <2> DEFINE f == [mcpCall[c] EXCEPT !.pc = IF @ = "finalizing" THEN "finalized" ELSE "refreshed"]
    <2>1. /\ f \in McpFrames /\ f.tenant = mcpCall[c].tenant
          /\ f.pc = IF mcpCall[c].pc = "finalizing" THEN "finalized" ELSE "refreshed"
        BY <1>i DEF McpFrames
    <2>2. /\ McpGoes(c, f) /\ mcpCall[c].pc \in {"finalizing", "refreshing"}
          /\ UNCHANGED <<remote, memberOf, listings, selection, prompted, mcpHistory>>
        BY <1>5 DEF FinalizeTenant
    <2> HIDE DEF f
    <2>3. FrameOK(f, chosen')
        BY <1>j, <2>1, <2>2 DEF FrameOK, Bears, Refreshes, mcpHistory
    <2> QED BY <1>i, <2>1, <2>2, <2>3, CallGoesOn DEF mcpHistory
<1>6. ASSUME NEW c \in McpCalls, FinalizationFails(c) PROVE McpSessionIInv'
    <2>1. UNCHANGED <<remote, memberOf, listings, selection, prompted, lastChosen, overtakes>>
        BY <1>6 DEF FinalizationFails
    <2>2. CASE WithoutSelection(c, [mcpCall[c] EXCEPT !.tenant = Unresolved])
        <3> DEFINE call == [mcpCall[c] EXCEPT !.tenant = Unresolved]
        <3>1. call \in McpFrames
            BY <1>i DEF McpFrames
        <3> HIDE DEF call
        <3>2. WithoutSelection(c, call)
            BY <2>2 DEF call
        <3> QED BY <1>i, <2>1, <3>1, <3>2, UnselectedRuns
    <2>3. CASE LoginReturns(c) /\ UNCHANGED chosen
        <3>1. PICK f \in McpFrames : f.pc \in {"idle", "picking"} /\ McpGoes(c, f)
            BY <2>3, ReturnFrame
        <3>2. FrameOK(f, chosen')
            BY <3>1 DEF FrameOK
        <3> QED BY <1>i, <2>1, <2>3, <3>1, <3>2, CallGoesOn
    <2>4. CASE McpRuns(c, Unresolved) /\ UNCHANGED chosen
        <3>1. PICK f \in McpFrames : f.pc = "running" /\ f.tenant = Unresolved /\ McpGoes(c, f)
            BY <2>4, RunFrame
        <3>2. FrameOK(f, chosen')
            BY <3>1 DEF FrameOK
        <3> QED BY <1>i, <2>1, <2>4, <3>1, <3>2, CallGoesOn
    <2> QED BY <1>6, <2>2, <2>3, <2>4 DEF FinalizationFails
<1>7. ASSUME NEW c \in McpCalls, StoreSelection(c) PROVE McpSessionIInv'
    <2>1. /\ mcpCall[c].pc \in {"finalized", "refreshed"}
          /\ UNCHANGED <<remote, memberOf, listings, prompted, chosen>>
        BY <1>7 DEF StoreSelection
    <2>2. mcpCall[c].tenant \in chosen /\ mcpCall[c].tenant \in McpTenants
        BY <1>i, <1>j, <2>1 DEF Bears
    <2>3. PICK fresh \in BOOLEAN : selection' = [tenant |-> mcpCall[c].tenant, fresh |-> fresh]
        BY <1>7 DEF StoreSelection
    <2>4. /\ selection' \in [tenant : McpTenants \cup {Unresolved}, fresh : BOOLEAN]
          /\ selection'.tenant = mcpCall[c].tenant
        BY <2>2, <2>3
    <2>5. /\ lastChosen' \in McpTenants \cup {Unresolved} /\ overtakes' \in BOOLEAN
          /\ mcpCall[c].tenant = lastChosen' \/ overtakes'
          /\ \A d \in McpCalls \ {c} :
                Refreshes(d) => mcpCall[d].tenant = lastChosen' \/ overtakes'
        <3>1. CASE mcpCall[c].pc = "finalized"
            BY <1>7, <2>2, <3>1 DEF StoreSelection, McpAt, Bringing, Refreshes
        <3>2. CASE mcpCall[c].pc = "refreshed"
            BY <1>7, <1>j, <3>2 DEF StoreSelection, McpAt, Refreshes, McpSessionIInv, McpSessionTypeOK
        <3> QED BY <2>1, <3>1, <3>2
    <2>6. \E f \in McpFrames : McpGoes(c, f) /\ FrameOK(f, chosen)
        <3>1. CASE LoginReturns(c)
            <4>1. PICK f \in McpFrames : f.pc \in {"idle", "picking"} /\ McpGoes(c, f)
                BY <3>1, ReturnFrame
            <4> QED BY <4>1 DEF FrameOK
        <3>2. CASE McpRuns(c, mcpCall[c].tenant)
            <4>1. PICK f \in McpFrames :
                    f.pc = "running" /\ f.tenant = mcpCall[c].tenant /\ McpGoes(c, f)
                BY <2>2, <3>2, RunFrame
            <4> QED BY <2>2, <4>1 DEF FrameOK
        <3> QED BY <1>7, <3>1, <3>2 DEF StoreSelection
    <2> QED BY <1>i, <2>1, <2>2, <2>4, <2>5, <2>6, CallMoves
<1>8. ASSUME NEW c \in McpCalls, StoreProcessSelection(c) PROVE McpSessionIInv'
    <2>1. /\ mcpCall[c].pc = "finalized" /\ McpGoes(c, NoMcpCall)
          /\ UNCHANGED <<remote, memberOf, listings, prompted, chosen>>
          /\ lastChosen' = mcpCall[c].tenant /\ overtakes' = (Bringing(c) # {})
        BY <1>8 DEF StoreProcessSelection, McpAt, McpEnds
    <2>2. mcpCall[c].tenant \in chosen /\ mcpCall[c].tenant \in McpTenants
        BY <1>i, <1>j, <2>1 DEF Bears
    <2>3. /\ selection' \in [tenant : McpTenants \cup {Unresolved}, fresh : BOOLEAN]
          /\ selection'.tenant = mcpCall[c].tenant
        BY <1>8, <2>2 DEF StoreProcessSelection
    <2>4. \A d \in McpCalls \ {c} : Refreshes(d) => mcpCall[d].tenant = lastChosen' \/ overtakes'
        BY <2>1 DEF Bringing, Refreshes
    <2>5. FrameOK(NoMcpCall, chosen)
        BY DEF FrameOK, NoMcpCall
    <2> QED BY <1>i, <2>1, <2>2, <2>3, <2>4, <2>5, NoMcpCallIsFrame, CallMoves
<1>9. ASSUME NEW c \in McpCalls, NEW t \in McpTenants, PickTenant(c, t) PROVE McpSessionIInv'
    <2> DEFINE f == [mcpCall[c] EXCEPT !.pc = "finalizing", !.tenant = t]
    <2>0. mcpCall[c] \in McpFrames
        BY <1>i
    <2>1. f \in McpFrames /\ f.pc = "finalizing" /\ f.tenant = t
        BY <2>0 DEF McpFrames
    <2>2. /\ McpGoes(c, f) /\ chosen' = chosen \cup {t}
          /\ UNCHANGED <<remote, memberOf, listings, selection, prompted, lastChosen, overtakes>>
        BY <1>9 DEF PickTenant
    <2> HIDE DEF f
    <2>3. FrameOK(f, chosen')
        BY <2>1, <2>2 DEF FrameOK
    <2> QED BY <1>i, <2>1, <2>2, <2>3, CallGoesOn
<1>10. ASSUME NEW c \in McpCalls, NEW listed \in listings \cup {memberOf}, StartRequest(c, listed)
       PROVE McpSessionIInv'
    <2> DEFINE call == [NoMcpCall EXCEPT !.listed = listed]
    <2>1. call \in McpFrames /\ listings \cup {listed} \subseteq SUBSET McpTenants
        BY <1>i DEF McpFrames, NoMcpCall
    <2>2. /\ UNCHANGED <<remote, memberOf, selection, prompted, lastChosen, overtakes>>
          /\ listings' = listings \cup {listed}
        BY <1>10 DEF StartRequest
    <2>3. CASE selection.tenant = Unresolved
        <3>1. WithoutSelection(c, call)
            BY <1>10, <2>3 DEF StartRequest
        <3> HIDE DEF call
        <3> QED BY <1>i, <2>1, <2>2, <3>1, UnselectedRuns
    <2>4. CASE selection.tenant # Unresolved
        <3> DEFINE f == [call EXCEPT !.tenant = selection.tenant,
                                     !.pc = IF selection.fresh THEN "running" ELSE "refreshing"]
        <3>1. /\ selection.tenant \in chosen /\ selection.tenant \in McpTenants
              /\ selection.tenant = lastChosen \/ overtakes
            BY <1>i, <2>4 DEF McpSessionIInv, SelectionOK, ChosenTenantIsUsed
        <3>2. /\ f \in McpFrames /\ f.pc \in {"running", "refreshing"}
              /\ f.tenant = selection.tenant
            BY <2>1, <3>1 DEF McpFrames, NoMcpCall
        <3>3. McpGoes(c, f) /\ chosen' = chosen
            BY <1>10, <2>4 DEF StartRequest
        <3> HIDE DEF f
        <3>4. FrameOK(f, chosen')
            BY <2>2, <3>1, <3>2, <3>3 DEF FrameOK
        <3> QED BY <1>i, <2>1, <2>2, <3>2, <3>3, <3>4, CallGoesOn
    <2> QED BY <2>3, <2>4
<1>11. CASE SelectionAges
    BY <1>11 DEF SelectionAges, mcpHistory, McpSessionIInv, McpSessionTypeOK, BearersOK, Bears,
                 Refreshes, SelectionOK, ChosenTenantIsUsed, McpAt
<1>12. ASSUME NEW t \in McpTenants, MembershipChanges(t) PROVE McpSessionIInv'
    BY <1>12 DEF MembershipChanges, mcpHistory, McpSessionIInv, McpSessionTypeOK, BearersOK, Bears,
                 Refreshes, SelectionOK, ChosenTenantIsUsed, McpAt
<1>13. CASE McpRestarts
    BY <1>13 DEF McpRestarts, mcpHistory, McpSessionIInv, McpSessionTypeOK, BearersOK, Bears,
                 Refreshes, SelectionOK, ChosenTenantIsUsed, McpAt, NoMcpCall, NoSelection
<1> QED
    BY <1>0, <1>1, <1>2, <1>3, <1>4, <1>5, <1>6, <1>7, <1>8, <1>9, <1>10, <1>11, <1>12, <1>13
    DEF McpSessionNext

\* A request of the MCP server runs in a tenant that was picked or is the only one, and the
\* stored selection is the last choice (tenant_context.py, the login and its page).
THEOREM ChosenTenantUsed == McpSessionSpec => []ChosenTenantIsUsed
<1>1. McpSessionIInv => ChosenTenantIsUsed
    BY DEF McpSessionIInv
<1> QED BY McpStart, McpStep, <1>1, PTL DEF McpSessionSpec

-----------------------------------------------------------------------------
(***************************************************************************)
(* Tenancy: a tenant whose requests came one after the other and ended     *)
(* well is whole.  Ids are handed out once, so that nobody else touches    *)
(* its organization or its row; a request under way says how far the       *)
(* tenant has got: it is whole, half made or half gone.                    *)
(***************************************************************************)
TenantPcs == {"idle", "create", "ensure", "provision", "abandon", "commit", "known",
              "delete", "deleteRow", "rename", "renameRow"}
TenantFrames == [pc : TenantPcs, alias : Aliases \cup {NoAlias},
                 name : TenantNames \cup {NoName}, id : 0..MaxOrg]

\* Ids are handed out once: what refers to an id other than 0 does so for one alias.
Refers(a, i) ==
    \/ orgOf[a] = i
    \/ \E r \in tenantRows : r.slug = a /\ r.id = i
    \/ \E c \in TenantCalls : tenantCall[c].alias = a /\ tenantCall[c].id = i
IdsApart == \A a, b \in Aliases, i \in 1..MaxOrg : Refers(a, i) /\ Refers(b, i) => a = b
IdsMinted ==
    /\ \A a \in Aliases : orgOf[a] <= mintedOrgs
    /\ \A r \in tenantRows : r.id <= mintedOrgs
    /\ \A c \in TenantCalls : tenantCall[c].id <= mintedOrgs
    /\ \A i \in answered : i # 0 /\ i <= mintedOrgs

\* Whatever went wrong: names of organizations and of their rows, and the seeded row.
NamesKept ==
    /\ \A a \in Aliases : orgOf[a] # 0 => orgName[a] # NoName
    /\ \A r \in tenantRows : r.slug # NoAlias => r.name # NoName
    /\ \A r \in tenantRows : r.id = 0 => r.slug = DefaultAlias

CallOK(c) ==
    LET f == tenantCall[c] IN
    /\ f.pc = "idle" => f = NoTenantCall
    /\ f.pc # "idle" => f.alias \in Aliases
    /\ f.pc \notin {"idle", "delete"} => f.name # NoName
    /\ f.pc \in {"ensure", "provision", "abandon", "commit", "known"} => f.id # 0
    /\ f.pc \in {"delete", "deleteRow", "rename", "renameRow"} /\ f.id = 0 /\ f.name # NoName =>
            f.alias = DefaultAlias
CallsApart == \A c, d \in TenantCalls :
    c # d /\ ~TenantCallAt(c, "idle") /\ ~TenantCallAt(d, "idle") =>
        tenantCall[c].alias \in tangled

\* The tenant of an alias is whole, or there is none.
Whole(a) ==
    /\ orgOf[a] = 0 => BySlug(a) = {}
    /\ orgOf[a] # 0 => \E r \in tenantRows :
            BySlug(a) = {r} /\ r.id \in {0, orgOf[a]} /\ (r.id # 0 => ById(r.id) = {r})
    /\ orgOf[a] \in answered => orgOf[a] \in vaultIds
\* It has its organization and nothing else yet.
HalfMade(a, i) ==
    orgOf[a] = i /\ BySlug(a) = {} /\ ById(i) = {} /\ i \notin answered
\* Its organization is gone and its row is not.
HalfGone(a, i) ==
    orgOf[a] = 0 /\ \E r \in tenantRows : BySlug(a) = {r} /\ r.id = i
UnderWay(c, a) ==
    LET f == tenantCall[c] IN
    /\ f.pc \in {"create", "delete", "rename", "renameRow"} => Whole(a)
    /\ f.pc \in {"ensure", "provision", "abandon", "commit"} => HalfMade(a, f.id)
    /\ f.pc = "commit" => f.id \in vaultIds
    /\ f.pc # "known"
    /\ f.pc = "delete" => f.name # NoName /\ \E r \in tenantRows : BySlug(a) = {r} /\ r.id = f.id
    /\ f.pc = "deleteRow" => HalfGone(a, f.id)
TenantOK(a) ==
    /\ \A c \in TenantCalls : tenantCall[c].alias = a => UnderWay(c, a)
    /\ (\A c \in TenantCalls : tenantCall[c].alias # a) => Whole(a)

TenancyIInv ==
    /\ TenancyTypeOK
    /\ IdsApart /\ IdsMinted /\ NamesKept
    /\ \A c \in TenantCalls : CallOK(c)
    /\ CallsApart
    /\ \A a \in Aliases \ tangled : TenantOK(a)

LEMMA TenantFrame ==
    ASSUME TenancyTypeOK, NEW c \in TenantCalls
    PROVE  /\ tenantCall[c] \in TenantFrames
           /\ tenantCall[c].alias \in Aliases \cup {NoAlias}
           /\ tenantCall[c].name \in TenantNames \cup {NoName}
           /\ tenantCall[c].id \in 0..MaxOrg
    BY DEF TenancyTypeOK, TenantFrames, TenantPcs

LEMMA NoTenantFrame == /\ NoTenantCall \in TenantFrames /\ NoTenantCall.pc = "idle"
                       /\ NoTenantCall.alias = NoAlias /\ NoTenantCall.id = 0
                       /\ NoTenantCall.name = NoName
    BY TenancyAssumption DEF NoTenantCall, TenantFrames, TenantPcs

LEMMA Goes ==
    ASSUME TenancyTypeOK, NEW c \in TenantCalls, NEW p \in TenantPcs, GoTo(c, p)
    PROVE  \E g \in TenantFrames :
                /\ tenantCall' = [tenantCall EXCEPT ![c] = g] /\ g.pc = p
                /\ g.alias = tenantCall[c].alias /\ g.name = tenantCall[c].name
                /\ g.id = tenantCall[c].id
<1> DEFINE g == [tenantCall[c] EXCEPT !.pc = p]
<1>1. tenantCall[c] \in TenantFrames
    BY TenantFrame
<1>2. g \in TenantFrames
    BY <1>1 DEF TenantFrames
<1>3. /\ g.pc = p /\ g.alias = tenantCall[c].alias /\ g.name = tenantCall[c].name
      /\ g.id = tenantCall[c].id
    BY <1>1 DEF TenantFrames
<1>4. tenantCall' = [tenantCall EXCEPT ![c] = g]
    BY DEF GoTo
<1> HIDE DEF g
<1> QED BY <1>2, <1>3, <1>4

\* A tenant nobody touches stays as it is.
LEMMA OtherTenant ==
    ASSUME TenancyIInv, NEW b \in Aliases, TenantOK(b),
           orgOf'[b] = orgOf[b], vaultIds \subseteq vaultIds', BySlug(b)' = BySlug(b),
           \A i \in 1..MaxOrg : Refers(b, i) =>
                ById(i)' = ById(i) /\ (i \in answered' => i \in answered),
           0 \notin answered',
           \A c \in TenantCalls : tenantCall'[c].alias = b => tenantCall'[c] = tenantCall[c],
           \A c \in TenantCalls : tenantCall[c].alias = b => tenantCall'[c].alias = b
    PROVE  TenantOK(b)'
<1>0. orgOf[b] \in 0..MaxOrg /\ \A r \in tenantRows : r.id \in 0..MaxOrg
    BY DEF TenancyIInv, TenancyTypeOK, TenantRow
<1>1. ASSUME NEW i \in 0..MaxOrg, i # 0, Refers(b, i)
      PROVE  ById(i)' = ById(i) /\ (i \in answered' => i \in answered)
    BY <1>1
<1>2. orgOf[b] \in answered' => orgOf[b] # 0 /\ orgOf[b] \in answered
    BY <1>0, <1>1 DEF Refers
<1>3. Whole(b) => Whole(b)'
    <2>1. SUFFICES ASSUME Whole(b) PROVE Whole(b)'
        OBVIOUS
    <2>2. CASE orgOf[b] = 0
        BY <1>2, <2>1, <2>2 DEF Whole
    <2>3. CASE orgOf[b] # 0
        <3>1. PICK r \in tenantRows :
                BySlug(b) = {r} /\ r.id \in {0, orgOf[b]} /\ (r.id # 0 => ById(r.id) = {r})
            BY <2>1, <2>3 DEF Whole
        <3>2. r \in BySlug(b)' /\ r.slug = b
            BY <3>1 DEF BySlug
        <3>3. r \in tenantRows'
            BY <3>2 DEF BySlug
        <3>4. r.id # 0 => ById(r.id)' = {r}
            BY <1>0, <1>1, <3>1, <3>2 DEF Refers
        <3> QED BY <1>2, <2>1, <2>3, <3>1, <3>3, <3>4 DEF Whole
    <2> QED BY <2>2, <2>3
<1>4. ASSUME NEW c \in TenantCalls, UnderWay(c, b), tenantCall[c].alias = b,
             tenantCall'[c] = tenantCall[c]
      PROVE  UnderWay(c, b)'
    <2> DEFINE f == tenantCall[c]
    <2>1. f.id \in 0..MaxOrg
        BY TenantFrame DEF TenancyIInv
    <2>2. f.id # 0 => ById(f.id)' = ById(f.id) /\ (f.id \in answered' => f.id \in answered)
        BY <1>1, <1>4, <2>1 DEF Refers
    <2>3. f.pc \in {"ensure", "provision", "abandon", "commit"} => f.id # 0
        BY DEF TenancyIInv, CallOK
    <2>4. HalfMade(b, f.id) /\ f.id # 0 => HalfMade(b, f.id)'
        BY <1>4, <2>2 DEF HalfMade
    <2>5. ASSUME NEW r \in tenantRows, BySlug(b) = {r}
          PROVE  r \in tenantRows' /\ BySlug(b)' = {r}
        BY <2>5 DEF BySlug
    <2>6. HalfGone(b, f.id) => HalfGone(b, f.id)'
        BY <1>4, <2>5 DEF HalfGone
    <2>7. (\E r \in tenantRows : BySlug(b) = {r} /\ r.id = f.id) =>
            \E r \in tenantRows' : BySlug(b)' = {r} /\ r.id = f.id
        BY <2>5
    <2> QED BY <1>3, <1>4, <2>3, <2>4, <2>6, <2>7 DEF UnderWay
<1> QED BY <1>3, <1>4 DEF TenantOK

\* A request goes on, or ends, at work on alias a.
LEMMA StepOn ==
    ASSUME TenancyIInv, NEW c \in TenantCalls, ~TenantCallAt(c, "idle"),
           NEW a \in Aliases, a = tenantCall[c].alias, NEW g \in TenantFrames,
           tenantCall' = [tenantCall EXCEPT ![c] = g],
           g = NoTenantCall \/ (g.pc # "idle" /\ g.alias = a), CallOK(c)',
           tangled' \in {tangled, tangled \cup {a}},
           orgOf' \in [Aliases -> 0..MaxOrg], orgName' \in [Aliases -> TenantNames \cup {NoName}],
           mintedOrgs' \in 0..MaxOrg, mintedOrgs <= mintedOrgs',
           vaultIds' \subseteq 0..MaxOrg, vaultIds \subseteq vaultIds',
           tenantRows' \subseteq TenantRow, UNCHANGED referenced,
           answered' \subseteq answered \cup {tenantCall[c].id},
           tenantCall[c].id # 0 \/ answered' = answered, IdsMinted', NamesKept',
           \A b \in Aliases \ {a} : orgOf'[b] = orgOf[b] /\ BySlug(b)' = BySlug(b),
           \A i \in 1..MaxOrg : Refers(a, i)' => Refers(a, i) \/ i > mintedOrgs,
           \A i \in 1..MaxOrg : Refers(a, i) \/ i > mintedOrgs \/ ById(i)' = ById(i),
           a \notin tangled' => IF g = NoTenantCall THEN Whole(a)' ELSE UnderWay(c, a)'
    PROVE  TenancyIInv'
<1>0. /\ tenantCall'[c] = g /\ \A d \in TenantCalls \ {c} : tenantCall'[d] = tenantCall[d]
      /\ NoAlias \notin Aliases
    BY TenancyAssumption DEF TenancyIInv, TenancyTypeOK
<1>1. TenancyTypeOK'
    <2>1. tenantCall' \in [TenantCalls -> TenantFrames]
        BY DEF TenancyIInv, TenancyTypeOK, TenantFrames, TenantPcs
    <2>2. answered' \subseteq 0..MaxOrg /\ tangled' \subseteq Aliases /\ referenced' \subseteq 0..MaxOrg
        BY TenantFrame DEF TenancyIInv, TenancyTypeOK
    <2> QED BY <2>1, <2>2 DEF TenancyTypeOK, TenantFrames, TenantPcs
<1>2. ASSUME NEW d \in TenantCalls PROVE CallOK(d)'
    <2>1. CASE d = c
        BY <2>1
    <2>2. CASE d # c
        BY <1>0, <2>2 DEF TenancyIInv, CallOK
    <2> QED BY <2>1, <2>2
<1>3. CallsApart'
    <2>1. tangled \subseteq tangled'
        OBVIOUS
    <2>2. ASSUME NEW d \in TenantCalls, NEW e \in TenantCalls, d # e,
                 ~TenantCallAt(d, "idle")', ~TenantCallAt(e, "idle")'
          PROVE  tenantCall'[d].alias \in tangled'
        <3>1. ~TenantCallAt(d, "idle") /\ ~TenantCallAt(e, "idle")
              /\ tenantCall'[d].alias = tenantCall[d].alias
            BY <1>0, <2>2, NoTenantFrame DEF TenantCallAt
        <3> QED BY <2>1, <2>2, <3>1 DEF TenancyIInv, CallsApart
    <2> QED BY <2>2 DEF CallsApart
<1>4. ASSUME NEW b \in Aliases \ {a}, NEW i \in 1..MaxOrg, Refers(b, i)' PROVE Refers(b, i)
    <2>1. CASE orgOf'[b] = i
        BY <2>1 DEF Refers
    <2>2. CASE \E r \in tenantRows' : r.slug = b /\ r.id = i
        <3>1. PICK r \in tenantRows' : r.slug = b /\ r.id = i
            BY <2>2
        <3>2. r \in BySlug(b)'
            BY <3>1 DEF BySlug
        <3>3. r \in BySlug(b)
            BY <3>2
        <3> QED BY <3>1, <3>3 DEF BySlug, Refers
    <2>3. CASE \E d \in TenantCalls : tenantCall'[d].alias = b /\ tenantCall'[d].id = i
        <3>1. PICK d \in TenantCalls : tenantCall'[d].alias = b /\ tenantCall'[d].id = i
            BY <2>3
        <3>2. d # c
            BY <1>0, <3>1, NoTenantFrame
        <3> QED BY <1>0, <3>1, <3>2 DEF Refers
    <2> QED BY <1>4, <2>1, <2>2, <2>3 DEF Refers
<1>5. ASSUME NEW b \in Aliases, NEW i \in 1..MaxOrg, Refers(b, i) PROVE i <= mintedOrgs
    BY <1>5 DEF Refers, TenancyIInv, IdsMinted
<1>6. IdsApart'
    <2>1. mintedOrgs \in Nat
        BY DEF TenancyIInv, TenancyTypeOK
    <2>2. ASSUME NEW d \in Aliases, NEW b \in Aliases, NEW i \in 1..MaxOrg,
                 Refers(d, i)', Refers(b, i)', d # b
          PROVE  FALSE
        <3>1. (Refers(d, i) \/ i > mintedOrgs) /\ (Refers(b, i) \/ i > mintedOrgs)
            BY <1>4, <2>2
        <3>2. (d # a => Refers(d, i)) /\ (b # a => Refers(b, i))
            BY <1>4, <2>2
        <3>3. i <= mintedOrgs
            BY <1>5, <2>2, <3>2
        <3> QED BY <2>1, <2>2, <3>1, <3>3 DEF TenancyIInv, IdsApart
    <2> QED BY <2>2 DEF IdsApart
<1>7. ASSUME NEW b \in Aliases \ {a}, b \notin tangled' PROVE TenantOK(b)'
    <2>1. TenantOK(b) /\ 0 \notin answered'
        BY <1>7 DEF TenancyIInv, IdsMinted
    <2>2. ASSUME NEW i \in 1..MaxOrg, Refers(b, i)
          PROVE  ById(i)' = ById(i) /\ (i \in answered' => i \in answered)
        <3>1. ~Refers(a, i) /\ i <= mintedOrgs /\ mintedOrgs \in Nat
            BY <1>5, <2>2 DEF TenancyIInv, IdsApart, TenancyTypeOK
        <3>2. tenantCall[c].id # i
            BY <3>1 DEF Refers
        <3> QED BY <3>1, <3>2
    <2>3. /\ \A d \in TenantCalls : tenantCall'[d].alias = b => tenantCall'[d] = tenantCall[d]
          /\ \A d \in TenantCalls : tenantCall[d].alias = b => tenantCall'[d].alias = b
        BY <1>0, NoTenantFrame
    <2> QED BY <2>1, <2>2, <2>3, OtherTenant
<1>8. ASSUME a \notin tangled' PROVE TenantOK(a)'
    <2>1. ASSUME NEW d \in TenantCalls \ {c}, tenantCall'[d].alias = a PROVE FALSE
        <3>1. tenantCall[d].alias = a /\ ~TenantCallAt(d, "idle")
            BY <1>0, <2>1, NoTenantFrame DEF TenancyIInv, CallOK, TenantCallAt
        <3>2. a \in tangled
            BY <3>1 DEF TenancyIInv, CallsApart
        <3> QED BY <1>8, <3>2
    <2> QED BY <1>0, <1>8, <2>1, NoTenantFrame DEF TenantOK
<1>9. \A b \in Aliases \ tangled' : TenantOK(b)'
    BY <1>7, <1>8
<1> QED BY <1>1, <1>2, <1>3, <1>6, <1>9 DEF TenancyIInv

\* A request under way, and what it refers to.
LEMMA AtWork ==
    ASSUME TenancyIInv, NEW c \in TenantCalls, ~TenantCallAt(c, "idle")
    PROVE  /\ tenantCall[c] \in TenantFrames /\ tenantCall[c].alias \in Aliases
           /\ tenantCall[c].name \in TenantNames \cup {NoName}
           /\ tenantCall[c].id \in 0..MaxOrg /\ tenantCall[c].id <= mintedOrgs
           /\ CallOK(c)
           /\ tenantCall[c].alias \notin tangled => UnderWay(c, tenantCall[c].alias)
           /\ Refers(tenantCall[c].alias, tenantCall[c].id)
<1>1. CallOK(c) /\ tenantCall[c].alias \in Aliases
    BY DEF TenancyIInv, CallOK, TenantCallAt
<1>2. tenantCall[c].alias \notin tangled => TenantOK(tenantCall[c].alias)
    BY <1>1 DEF TenancyIInv
<1> QED BY <1>1, <1>2, TenantFrame DEF TenancyIInv, IdsMinted, TenantOK, Refers

\* A row of the id a request is at work with has the alias of the request, or none.
LEMMA RowOfCall ==
    ASSUME TenancyIInv, NEW c \in TenantCalls,
           tenantCall[c].pc \in {"deleteRow", "renameRow"},
           NEW r \in tenantRows, r.id = tenantCall[c].id, r.slug \in Aliases
    PROVE  r.slug = tenantCall[c].alias
<1>1. ~TenantCallAt(c, "idle")
    BY DEF TenantCallAt
<1>2. CallOK(c) /\ tenantCall[c].alias \in Aliases /\ tenantCall[c].id \in 0..MaxOrg
      /\ Refers(tenantCall[c].alias, tenantCall[c].id)
    BY <1>1, AtWork
<1>3. Refers(r.slug, r.id)
    BY DEF Refers
<1>4. CASE r.id = 0
    BY <1>2, <1>4 DEF CallOK, TenancyIInv, NamesKept
<1>5. CASE r.id # 0
    <2>1. r.id \in 1..MaxOrg
        BY <1>2, <1>5
    <2> QED BY <1>2, <1>3, <2>1 DEF TenancyIInv, IdsApart
<1> QED BY <1>4, <1>5

\* A request goes on or ends and writes nothing but the name of an organization.
LEMMA CallOn ==
    ASSUME TenancyIInv, NEW c \in TenantCalls, ~TenantCallAt(c, "idle"),
           NEW a \in Aliases, a = tenantCall[c].alias, NEW g \in TenantFrames,
           tenantCall' = [tenantCall EXCEPT ![c] = g],
           g = NoTenantCall \/ (g.pc # "idle" /\ g.alias = a /\ g.id = tenantCall[c].id),
           CallOK(c)', tangled' \in {tangled, tangled \cup {a}},
           orgName' \in [Aliases -> TenantNames \cup {NoName}],
           \A b \in Aliases : orgOf[b] # 0 => orgName'[b] # NoName,
           UNCHANGED <<orgOf, mintedOrgs, vaultIds, tenantRows, referenced, answered>>,
           a \notin tangled' => IF g = NoTenantCall THEN Whole(a) ELSE UnderWay(c, a)'
    PROVE  TenancyIInv'
<1>1. /\ tenantCall'[c] = g /\ \A d \in TenantCalls \ {c} : tenantCall'[d] = tenantCall[d]
    BY DEF TenancyIInv, TenancyTypeOK
<1>2. g.id \in {0, tenantCall[c].id} /\ tenantCall[c].id \in 0..MaxOrg
    BY NoTenantFrame, AtWork
<1>3. IdsMinted'
    <2>1. mintedOrgs \in Nat
        BY DEF TenancyIInv, TenancyTypeOK
    <2>2. \A d \in TenantCalls : tenantCall'[d].id <= mintedOrgs
        BY <1>1, <1>2, <2>1 DEF TenancyIInv, IdsMinted
    <2> QED BY <2>2 DEF TenancyIInv, IdsMinted
<1>4. NamesKept'
    BY DEF TenancyIInv, NamesKept
<1>5. \A b \in Aliases \ {a} : orgOf'[b] = orgOf[b] /\ BySlug(b)' = BySlug(b)
    BY DEF BySlug
<1>6. \A i \in 1..MaxOrg : Refers(a, i)' => Refers(a, i)
    BY <1>1, <1>2, NoTenantFrame DEF Refers
<1>7. \A i \in 1..MaxOrg : ById(i)' = ById(i)
    BY DEF ById
<1>8. Whole(a)' <=> Whole(a)
    BY DEF Whole, BySlug, ById
<1>9. /\ orgOf' \in [Aliases -> 0..MaxOrg] /\ mintedOrgs' \in 0..MaxOrg /\ mintedOrgs <= mintedOrgs'
      /\ vaultIds' \subseteq 0..MaxOrg /\ vaultIds \subseteq vaultIds'
      /\ tenantRows' \subseteq TenantRow /\ UNCHANGED referenced
      /\ answered' \subseteq answered \cup {tenantCall[c].id} /\ answered' = answered
    BY DEF TenancyIInv, TenancyTypeOK
<1>10. g = NoTenantCall \/ (g.pc # "idle" /\ g.alias = a)
    OBVIOUS
<1>11. a \notin tangled' => IF g = NoTenantCall THEN Whole(a)' ELSE UnderWay(c, a)'
    BY <1>8
<1> QED BY <1>3, <1>4, <1>5, <1>6, <1>7, <1>9, <1>10, <1>11, StepOn

\* What an action leaves alone keeps its names.
LEMMA OrgNames ==
    ASSUME TenancyIInv
    PROVE  /\ orgName \in [Aliases -> TenantNames \cup {NoName}]
           /\ \A b \in Aliases : orgOf[b] # 0 => orgName[b] # NoName
    BY DEF TenancyIInv, TenancyTypeOK, NamesKept

\* A request ends.
LEMMA FinishOn ==
    ASSUME TenancyIInv, NEW c \in TenantCalls, ~TenantCallAt(c, "idle"),
           NEW a \in Aliases, a = tenantCall[c].alias, Finish(c),
           tangled' \in {tangled, tangled \cup {a}},
           UNCHANGED <<directoryOrgs, vaultIds, tenantRows, referenced, answered>>,
           a \notin tangled' => Whole(a)
    PROVE  TenancyIInv'
<1>1. /\ NoTenantCall \in TenantFrames /\ tenantCall' = [tenantCall EXCEPT ![c] = NoTenantCall]
      /\ tenantCall'[c] = NoTenantCall
    BY NoTenantFrame DEF Finish, TenancyIInv, TenancyTypeOK
<1>2. CallOK(c)'
    BY <1>1, NoTenantFrame DEF CallOK
<1>3. UNCHANGED <<orgOf, mintedOrgs, vaultIds, tenantRows, referenced, answered>> /\ UNCHANGED orgName
    BY DEF directoryOrgs
<1> HIDE DEF NoTenantCall
<1> QED BY <1>1, <1>2, <1>3, OrgNames, CallOn

\* A request begins.
LEMMA BeginOn ==
    ASSUME TenancyIInv, NEW c \in TenantCalls, NEW a \in Aliases,
           NEW p \in {"create", "delete", "rename"}, NEW n \in TenantNames \cup {NoName},
           NEW i \in 0..MaxOrg, Begin(c, p, a, n, i), i <= mintedOrgs,
           i # 0 => Refers(a, i), p # "delete" => n # NoName,
           p # "create" /\ i = 0 /\ n # NoName => a = DefaultAlias,
           p = "delete" /\ Whole(a) =>
                n # NoName /\ \E r \in tenantRows : BySlug(a) = {r} /\ r.id = i,
           UNCHANGED <<directoryOrgs, vaultIds, tenantRows, referenced, answered>>
    PROVE  TenancyIInv'
<1> DEFINE g == [pc |-> p, alias |-> a, name |-> n, id |-> i]
           others == {d \in TenantCalls \ {c} : ~TenantCallAt(d, "idle")}
<1>0. /\ UNCHANGED <<orgOf, orgName, mintedOrgs>>
      /\ \A b \in Aliases : (Whole(b)' <=> Whole(b)) /\ BySlug(b)' = BySlug(b)
    BY DEF directoryOrgs, Whole, BySlug, ById
<1>1. g \in TenantFrames /\ g.pc = p /\ g.alias = a /\ g.name = n /\ g.id = i
    BY DEF TenantFrames, TenantPcs
<1>2. /\ tenantCall' = [tenantCall EXCEPT ![c] = g]
      /\ TenantCallAt(c, "idle")
      /\ tangled' = IF others = {} THEN tangled
                    ELSE tangled \cup (({a} \cup {tenantCall[d].alias : d \in others}) \cap Aliases)
    BY DEF Begin
<1> HIDE DEF g
<1>3. /\ tenantCall'[c] = g /\ \A d \in TenantCalls \ {c} : tenantCall'[d] = tenantCall[d]
      /\ NoAlias \notin Aliases
    BY <1>2, TenancyAssumption DEF TenancyIInv, TenancyTypeOK
<1>4. \A d \in TenantCalls : TenantCallAt(d, "idle") => tenantCall[d] = NoTenantCall
    BY DEF TenancyIInv, CallOK, TenantCallAt
<1>5. ASSUME NEW d \in TenantCalls \ {c}, NEW b \in Aliases, tenantCall[d].alias = b
      PROVE  d \in others /\ b \in tangled' /\ a \in tangled'
    BY <1>2, <1>3, <1>4, <1>5, NoTenantFrame
<1>6. TenancyTypeOK'
    <2>1. tenantCall' \in [TenantCalls -> TenantFrames]
        BY <1>1, <1>2 DEF TenancyIInv, TenancyTypeOK, TenantFrames, TenantPcs
    <2>2. tangled' \subseteq Aliases
        BY <1>2 DEF TenancyIInv, TenancyTypeOK
    <2> QED BY <1>0, <2>1, <2>2 DEF TenancyIInv, TenancyTypeOK, TenantFrames, TenantPcs
<1>7. IdsMinted'
    <2>1. \A d \in TenantCalls : tenantCall'[d].id <= mintedOrgs
        BY <1>1, <1>3 DEF TenancyIInv, IdsMinted
    <2> QED BY <1>0, <2>1 DEF TenancyIInv, IdsMinted
<1>8. NamesKept'
    BY <1>0 DEF TenancyIInv, NamesKept
<1>9. IdsApart'
    <2>1. ASSUME NEW b \in Aliases, NEW j \in 1..MaxOrg, Refers(b, j)' PROVE Refers(b, j)
        <3>1. CASE \E d \in TenantCalls : tenantCall'[d].alias = b /\ tenantCall'[d].id = j
            BY <1>1, <1>3, <3>1 DEF Refers
        <3> QED BY <1>0, <2>1, <3>1 DEF Refers
    <2> QED BY <2>1 DEF TenancyIInv, IdsApart
<1>10. ASSUME NEW d \in TenantCalls PROVE CallOK(d)'
    <2>1. CASE d = c
        BY <1>1, <1>3, <2>1 DEF CallOK
    <2>2. CASE d # c
        BY <1>3, <2>2 DEF TenancyIInv, CallOK
    <2> QED BY <2>1, <2>2
<1>11. CallsApart'
    <2>1. ASSUME NEW d \in TenantCalls, NEW e \in TenantCalls, d # e,
                 ~TenantCallAt(d, "idle")', ~TenantCallAt(e, "idle")'
          PROVE  tenantCall'[d].alias \in tangled'
        <3>1. CASE d = c
            <4>1. e \in others
                BY <1>3, <2>1, <3>1 DEF TenantCallAt
            <4> QED BY <1>1, <1>2, <1>3, <3>1, <4>1
        <3>2. CASE d # c
            <4>1. d \in others /\ tenantCall'[d] = tenantCall[d]
                BY <1>3, <2>1, <3>2 DEF TenantCallAt
            <4>2. tenantCall[d].alias \in Aliases
                BY <4>1 DEF TenancyIInv, CallOK, TenantCallAt
            <4> QED BY <1>5, <3>2, <4>1, <4>2
        <3> QED BY <3>1, <3>2
    <2> QED BY <2>1 DEF CallsApart
<1>12. ASSUME NEW b \in Aliases, b \notin tangled' PROVE TenantOK(b)'
    <2>1. b \notin tangled /\ TenantOK(b)
        BY <1>2, <1>12 DEF TenancyIInv
    <2>2. \A d \in TenantCalls : tenantCall[d].alias # b
        BY <1>2, <1>3, <1>4, <1>5, <1>12, NoTenantFrame
    <2>3. Whole(b)'
        BY <1>0, <2>1, <2>2 DEF TenantOK
    <2>4. b = a => UnderWay(c, b)'
        <3>1. b = a /\ p = "delete" =>
                n # NoName /\ \E r \in tenantRows : BySlug(a)' = {r} /\ r.id = i
            BY <1>0, <2>3
        <3>2. tenantRows' = tenantRows
            OBVIOUS
        <3> QED BY <1>1, <1>3, <2>3, <3>1, <3>2 DEF UnderWay
    <2>5. \A d \in TenantCalls : tenantCall'[d].alias = b => d = c /\ b = a
        BY <1>1, <1>3, <2>2
    <2> QED BY <2>3, <2>4, <2>5 DEF TenantOK
<1> QED BY <1>6, <1>7, <1>8, <1>9, <1>10, <1>11, <1>12 DEF TenancyIInv

LEMMA TenantRowFacts ==
    ASSUME TenancyIInv, NEW r \in tenantRows
    PROVE  /\ r.id \in 0..MaxOrg /\ r.id <= mintedOrgs
           /\ r.slug \in Aliases \cup {NoAlias} /\ r.name \in TenantNames \cup {NoName}
           /\ r.slug # NoAlias => r.name # NoName
           /\ r.id = 0 => r.slug = DefaultAlias
           /\ r.slug \in Aliases => Refers(r.slug, r.id)
    BY DEF TenancyIInv, TenancyTypeOK, TenantRow, IdsMinted, NamesKept, Refers

LEMMA CreateStarts ==
    ASSUME TenancyIInv, NEW c \in TenantCalls, StartCreateTenant(c)
    PROVE  TenancyIInv'
<1>1. PICK a \in Aliases, n \in TenantNames : Begin(c, "create", a, n, 0)
    BY DEF StartCreateTenant
<1>2. n # NoName /\ 0 \in 0..MaxOrg /\ 0 <= mintedOrgs
    BY TenancyAssumption DEF TenancyIInv, TenancyTypeOK
<1>3. UNCHANGED <<directoryOrgs, vaultIds, tenantRows, referenced, answered>>
    BY DEF StartCreateTenant
<1> QED BY <1>1, <1>2, <1>3, BeginOn

LEMMA RenameStarts ==
    ASSUME TenancyIInv, NEW c \in TenantCalls, StartRenameTenant(c)
    PROVE  TenancyIInv'
<1>1. PICK r \in tenantRows, n \in TenantNames :
        r.slug \in Aliases /\ Begin(c, "rename", r.slug, n, r.id)
    BY DEF StartRenameTenant
<1>2. n # NoName
    BY TenancyAssumption
<1>3. UNCHANGED <<directoryOrgs, vaultIds, tenantRows, referenced, answered>>
    BY DEF StartRenameTenant
<1> QED BY <1>1, <1>2, <1>3, TenantRowFacts, BeginOn

LEMMA DeleteStarts ==
    ASSUME TenancyIInv, NEW c \in TenantCalls, StartDeleteTenant(c)
    PROVE  TenancyIInv'
<1>1. UNCHANGED <<directoryOrgs, vaultIds, tenantRows, referenced, answered>>
    BY DEF StartDeleteTenant
<1>2. PICK a \in Aliases :
        \/ \E r \in BySlug(a) : Begin(c, "delete", a, r.name, r.id)
        \/ BySlug(a) = {} /\ orgOf[a] # 0 /\ Begin(c, "delete", a, NoName, 0)
    BY DEF StartDeleteTenant
<1>3. CASE \E r \in BySlug(a) : Begin(c, "delete", a, r.name, r.id)
    <2>1. PICK r \in BySlug(a) : Begin(c, "delete", a, r.name, r.id)
        BY <1>3
    <2>2. r \in tenantRows /\ r.slug = a /\ a # NoAlias
        BY TenancyAssumption DEF BySlug
    <2>3. Whole(a) => \E q \in tenantRows : BySlug(a) = {q} /\ q.id = r.id
        BY <2>2 DEF Whole
    <2> QED BY <1>1, <2>1, <2>2, <2>3, TenantRowFacts, BeginOn
<1>4. CASE BySlug(a) = {} /\ orgOf[a] # 0 /\ Begin(c, "delete", a, NoName, 0)
    <2>1. ~Whole(a)
        BY <1>4 DEF Whole
    <2>2. 0 \in 0..MaxOrg /\ 0 <= mintedOrgs
        BY TenancyAssumption DEF TenancyIInv, TenancyTypeOK
    <2> QED BY <1>1, <1>4, <2>1, <2>2, BeginOn
<1> QED BY <1>2, <1>3, <1>4

LEMMA OrganizationIsCreated ==
    ASSUME TenancyIInv, NEW c \in TenantCalls, CreateOrganization(c)
    PROVE  TenancyIInv'
<1>0. PICK a, m : a = tenantCall[c].alias /\ m = mintedOrgs + 1
    OBVIOUS
<1>1. /\ TenantCallAt(c, "create") /\ ~TenantCallAt(c, "idle")
      /\ UNCHANGED <<vaultIds, tenantRows, referenced, answered>>
    BY DEF CreateOrganization, TenantCallAt
<1>2. /\ a \in Aliases /\ tenantCall[c] \in TenantFrames /\ tenantCall[c].name # NoName
      /\ a \notin tangled => Whole(a)
      /\ tenantCall[c].name \in TenantNames \cup {NoName}
    BY <1>0, <1>1, AtWork DEF CallOK, TenantCallAt, UnderWay
<1>3. CASE orgOf[a] # 0 /\ Finish(c) /\ UNCHANGED <<directoryOrgs, tangled>>
    BY <1>0, <1>1, <1>2, <1>3, FinishOn
<1>4. CASE /\ orgOf[a] = 0 /\ mintedOrgs < MaxOrg
           /\ mintedOrgs' = m
           /\ orgOf' = [orgOf EXCEPT ![a] = m]
           /\ orgName' = [orgName EXCEPT ![a] = tenantCall[c].name]
           /\ \/ /\ tenantCall' = [tenantCall EXCEPT ![c].pc = "ensure", ![c].id = m]
                 /\ UNCHANGED tangled
              \/ Finish(c) /\ Tangle(a)
    <2>1. /\ mintedOrgs \in Nat /\ MaxOrg \in Nat /\ m \in 1..MaxOrg
          /\ \A i \in answered : i <= mintedOrgs
        BY <1>0, <1>4, TenancyAssumption DEF TenancyIInv, TenancyTypeOK, IdsMinted
    <2>2. /\ orgOf'[a] = m /\ \A b \in Aliases \ {a} : orgOf'[b] = orgOf[b]
          /\ orgOf' \in [Aliases -> 0..MaxOrg]
        BY <1>2, <1>4, <2>1 DEF TenancyIInv, TenancyTypeOK
    <2>3. /\ orgName'[a] = tenantCall[c].name /\ \A b \in Aliases \ {a} : orgName'[b] = orgName[b]
          /\ orgName' \in [Aliases -> TenantNames \cup {NoName}]
        BY <1>2, <1>4 DEF TenancyIInv, TenancyTypeOK
    <2>4. \E g \in TenantFrames :
            /\ tenantCall' = [tenantCall EXCEPT ![c] = g]
            /\ \/ g = NoTenantCall /\ tangled' = tangled \cup {a}
               \/ /\ g.pc = "ensure" /\ g.alias = a /\ g.id = m
                  /\ g.name = tenantCall[c].name /\ UNCHANGED tangled
        <3>1. CASE Finish(c) /\ Tangle(a)
            BY <1>0, <1>2, <3>1, NoTenantFrame DEF Finish, Tangle
        <3>2. CASE /\ tenantCall' = [tenantCall EXCEPT ![c].pc = "ensure", ![c].id = m]
                   /\ UNCHANGED tangled
            <4>1. "ensure" \in TenantPcs /\ m \in 0..MaxOrg
                BY <2>1 DEF TenantPcs
            <4>2. PICK h \in TenantFrames : h = tenantCall[c]
                BY <1>2
            <4> DEFINE k == [h EXCEPT !.pc = "ensure"]
                       g == [k EXCEPT !.id = m]
            <4>3. k \in TenantFrames /\ k.pc = "ensure" /\ k.alias = h.alias /\ k.name = h.name
                BY <4>1 DEF TenantFrames
            <4>4. tenantCall' = [tenantCall EXCEPT ![c] = g]
                BY <3>2, <4>2
            <4> HIDE DEF k
            <4>5. /\ g \in TenantFrames
                  /\ g.pc = "ensure" /\ g.id = m /\ g.alias = h.alias /\ g.name = h.name
                BY <4>1, <4>3 DEF TenantFrames
            <4> HIDE DEF g
            <4> QED BY <1>0, <3>2, <4>2, <4>4, <4>5
        <3> QED BY <1>4, <3>1, <3>2
    <2>5. PICK g \in TenantFrames :
            /\ tenantCall' = [tenantCall EXCEPT ![c] = g]
            /\ \/ g = NoTenantCall /\ tangled' = tangled \cup {a}
               \/ /\ g.pc = "ensure" /\ g.alias = a /\ g.id = m
                  /\ g.name = tenantCall[c].name /\ UNCHANGED tangled
        BY <2>4
    <2>6. tenantCall'[c] = g /\ \A d \in TenantCalls \ {c} : tenantCall'[d] = tenantCall[d]
        BY <2>5 DEF TenancyIInv, TenancyTypeOK
    <2>7. CallOK(c)'
        BY <1>2, <2>1, <2>5, <2>6, NoTenantFrame DEF CallOK
    <2>8. \A b \in Aliases : BySlug(b)' = BySlug(b)
        BY <1>1 DEF BySlug
    <2>9. \A i \in 1..MaxOrg : ById(i)' = ById(i)
        BY <1>1 DEF ById
    <2>10. \A i \in 1..MaxOrg : Refers(a, i)' => Refers(a, i) \/ i > mintedOrgs
        <3>1. ASSUME NEW i \in 1..MaxOrg, Refers(a, i)', ~(i > mintedOrgs) PROVE Refers(a, i)
            <4>1. i # m
                BY <1>0, <2>1, <3>1
            <4>2. CASE \E r \in tenantRows' : r.slug = a /\ r.id = i
                BY <1>1, <4>2 DEF Refers
            <4>3. CASE \E d \in TenantCalls : tenantCall'[d].alias = a /\ tenantCall'[d].id = i
                BY <2>5, <2>6, <4>1, <4>3, NoTenantFrame DEF Refers
            <4> QED BY <2>2, <3>1, <4>1, <4>2, <4>3 DEF Refers
        <3> QED BY <3>1
    <2>11. NamesKept'
        BY <1>1, <1>2, <2>2, <2>3 DEF TenancyIInv, NamesKept
    <2>12. IdsMinted'
        <3>1. \A b \in Aliases : orgOf'[b] <= m
            BY <1>0, <2>1, <2>2 DEF TenancyIInv, IdsMinted, TenancyTypeOK
        <3>2. \A r \in tenantRows : r.id <= m
            BY <1>0, <2>1 DEF TenancyIInv, IdsMinted, TenancyTypeOK, TenantRow
        <3>3. \A d \in TenantCalls : tenantCall'[d].id <= m
            <4>1. \A d \in TenantCalls : tenantCall[d].id <= mintedOrgs /\ tenantCall[d].id \in 0..MaxOrg
                BY TenantFrame DEF TenancyIInv, IdsMinted
            <4> QED BY <1>0, <2>1, <2>5, <2>6, <4>1, NoTenantFrame
        <3>4. \A i \in answered : i # 0 /\ i <= m
            BY <1>0, <2>1 DEF TenancyIInv, IdsMinted, TenancyTypeOK
        <3> QED BY <1>1, <1>4, <3>1, <3>2, <3>3, <3>4 DEF IdsMinted
    <2>13. a \notin tangled' => IF g = NoTenantCall THEN Whole(a)' ELSE UnderWay(c, a)'
        <3>1. SUFFICES ASSUME a \notin tangled' PROVE g # NoTenantCall /\ UnderWay(c, a)'
            OBVIOUS
        <3>2. g.pc = "ensure" /\ g.id = m /\ Whole(a)
            BY <1>2, <2>5, <3>1
        <3>3. BySlug(a)' = {}
            <4>1. orgOf[a] = 0 /\ BySlug(a)' = BySlug(a)
                BY <1>2, <1>4, <2>8
            <4> QED BY <3>2, <4>1 DEF Whole
        <3>4. ById(m)' = {}
            <4>1. \A r \in tenantRows : r.id <= mintedOrgs /\ r.id \in Nat
                BY DEF TenancyIInv, IdsMinted, TenancyTypeOK, TenantRow
            <4>2. \A r \in tenantRows : r.id # m
                BY <1>0, <2>1, <4>1
            <4> QED BY <1>1, <4>2 DEF ById
        <3>5. m \notin answered'
            BY <1>0, <1>1, <2>1
        <3>6. HalfMade(a, m)'
            BY <1>2, <2>2, <3>3, <3>4, <3>5 DEF HalfMade
        <3> QED BY <2>6, <3>2, <3>6, NoTenantFrame DEF UnderWay
    <2>14. g = NoTenantCall \/ (g.pc # "idle" /\ g.alias = a)
        BY <2>5
    <2>15. /\ mintedOrgs' \in 0..MaxOrg /\ mintedOrgs <= mintedOrgs'
           /\ vaultIds' \subseteq 0..MaxOrg /\ vaultIds \subseteq vaultIds'
           /\ tenantRows' \subseteq TenantRow /\ UNCHANGED referenced
           /\ answered' \subseteq answered \cup {tenantCall[c].id} /\ answered' = answered
           /\ tangled' \in {tangled, tangled \cup {a}}
        BY <1>0, <1>1, <1>4, <2>1, <2>5 DEF TenancyIInv, TenancyTypeOK
    <2> QED BY <1>0, <1>1, <1>2, <2>2, <2>3, <2>5, <2>7, <2>8, <2>9, <2>10, <2>11, <2>12, <2>13,
               <2>14, <2>15, StepOn
<1> QED BY <1>0, <1>3, <1>4 DEF CreateOrganization

LEMMA TenantIsEnsured ==
    ASSUME TenancyIInv, NEW c \in TenantCalls, EnsureTenant(c)
    PROVE  TenancyIInv'
<1>0. PICK f, p : /\ f = tenantCall[c]
                  /\ p = IF ById(f.id) \cup BySlug(f.alias) # {} THEN "known" ELSE "provision"
    OBVIOUS
<1>1. /\ f.pc = "ensure" /\ ~TenantCallAt(c, "idle") /\ GoTo(c, p) /\ p \in TenantPcs
      /\ UNCHANGED <<directoryOrgs, vaultIds, tenantRows, referenced, tenancyHistory>>
    BY <1>0 DEF EnsureTenant, TenantCallAt, TenantPcs
<1>2. /\ f.alias \in Aliases /\ f.id # 0 /\ f.name # NoName
      /\ f.alias \notin tangled => HalfMade(f.alias, f.id)
    BY <1>0, <1>1, AtWork DEF CallOK, UnderWay
<1>3. f.alias \notin tangled => p = "provision"
    BY <1>0, <1>2 DEF HalfMade
<1>4. p \in {"known", "provision"}
    BY <1>0
<1>5. PICK g \in TenantFrames :
        /\ tenantCall' = [tenantCall EXCEPT ![c] = g] /\ g.pc = p
        /\ g.alias = f.alias /\ g.name = f.name /\ g.id = f.id
    BY <1>0, <1>1, Goes DEF TenancyIInv
<1>6. tenantCall'[c] = g
    BY <1>5 DEF TenancyIInv, TenancyTypeOK
<1>7. CallOK(c)'
    BY <1>2, <1>4, <1>5, <1>6 DEF CallOK
<1>8. /\ UNCHANGED <<orgOf, mintedOrgs, vaultIds, tenantRows, referenced, answered>>
      /\ UNCHANGED orgName /\ tangled' = tangled
    BY <1>1 DEF directoryOrgs, tenancyHistory
<1>9. HalfMade(f.alias, f.id) => HalfMade(g.alias, g.id)'
    BY <1>5, <1>8 DEF HalfMade, BySlug, ById
<1>10. f.alias \notin tangled' => UnderWay(c, f.alias)'
    BY <1>2, <1>3, <1>5, <1>6, <1>8, <1>9 DEF UnderWay
<1>11. g # NoTenantCall /\ g.pc # "idle"
    BY <1>4, <1>5, NoTenantFrame
<1> QED BY <1>0, <1>1, <1>2, <1>5, <1>7, <1>8, <1>10, <1>11, OrgNames, CallOn

\* A request goes on and writes nothing but the name of an organization.
LEMMA GoOn ==
    ASSUME TenancyIInv, NEW c \in TenantCalls, ~TenantCallAt(c, "idle"),
           NEW a \in Aliases, a = tenantCall[c].alias, NEW g \in TenantFrames,
           tenantCall' = [tenantCall EXCEPT ![c] = g],
           g.pc # "idle", g.alias = a, g.id = tenantCall[c].id, g.name # NoName,
           g.pc \in {"ensure", "provision", "abandon", "commit", "known"} => g.id # 0,
           g.pc \in {"deleteRow", "renameRow"} /\ g.id = 0 => a = DefaultAlias,
           g.pc \notin {"delete", "rename"}, UNCHANGED tangled,
           orgName' \in [Aliases -> TenantNames \cup {NoName}],
           \A b \in Aliases : orgOf[b] # 0 => orgName'[b] # NoName,
           UNCHANGED <<orgOf, mintedOrgs, vaultIds, tenantRows, referenced, answered>>,
           a \notin tangled => UnderWay(c, a)'
    PROVE  TenancyIInv'
<1>1. tenantCall'[c] = g /\ g # NoTenantCall
    BY NoTenantFrame DEF TenancyIInv, TenancyTypeOK
<1>2. CallOK(c)'
    BY <1>1 DEF CallOK
<1> QED BY <1>1, <1>2, CallOn

LEMMA VaultIsProvisioned ==
    ASSUME TenancyIInv, NEW c \in TenantCalls, ProvisionVault(c)
    PROVE  TenancyIInv'
<1>0. PICK a, i : a = tenantCall[c].alias /\ i = tenantCall[c].id
    OBVIOUS
<1>1. /\ tenantCall[c].pc = "provision" /\ ~TenantCallAt(c, "idle")
      /\ UNCHANGED <<directoryOrgs, tenantRows, referenced, tenancyHistory>>
    BY DEF ProvisionVault, TenantCallAt
<1>2. /\ a \in Aliases /\ i \in 0..MaxOrg /\ i # 0 /\ tenantCall[c].name # NoName
      /\ a \notin tangled => HalfMade(a, i)
    BY <1>0, <1>1, AtWork DEF CallOK, UnderWay
<1>3. /\ UNCHANGED <<orgOf, orgName, mintedOrgs, answered, tangled>>
      /\ \A b \in Aliases : BySlug(b)' = BySlug(b)
      /\ \A j \in 1..MaxOrg : ById(j)' = ById(j)
      /\ HalfMade(a, i)' <=> HalfMade(a, i)
    BY <1>1 DEF directoryOrgs, tenancyHistory, BySlug, ById, HalfMade
<1>4. CASE UNCHANGED vaultIds /\ GoTo(c, OnVaultError)
    <2>1. PICK g \in TenantFrames :
            /\ tenantCall' = [tenantCall EXCEPT ![c] = g] /\ g.pc = "abandon"
            /\ g.alias = a /\ g.name = tenantCall[c].name /\ g.id = i
        BY <1>0, <1>4, Goes DEF TenancyIInv, OnVaultError, TenantPcs
    <2>2. tenantCall'[c] = g
        BY <2>1 DEF TenancyIInv, TenancyTypeOK
    <2>3. a \notin tangled => UnderWay(c, a)'
        BY <1>1, <1>2, <1>3, <2>1, <2>2 DEF UnderWay, HalfMade, BySlug, ById
    <2> QED BY <1>0, <1>1, <1>2, <1>3, <1>4, <2>1, <2>3, OrgNames, GoOn
<1>5. CASE vaultIds' = vaultIds \cup {i} /\ GoTo(c, "commit")
    <2>1. PICK g \in TenantFrames :
            /\ tenantCall' = [tenantCall EXCEPT ![c] = g] /\ g.pc = "commit"
            /\ g.alias = a /\ g.name = tenantCall[c].name /\ g.id = i
        BY <1>0, <1>5, Goes DEF TenancyIInv, TenantPcs
    <2>2. tenantCall'[c] = g /\ \A d \in TenantCalls \ {c} : tenantCall'[d] = tenantCall[d]
        BY <2>1 DEF TenancyIInv, TenancyTypeOK
    <2>3. g.pc # "idle" /\ g # NoTenantCall
        BY <2>1, NoTenantFrame
    <2>4. CallOK(c)'
        BY <1>2, <2>1, <2>2 DEF CallOK
    <2>5. a \notin tangled => UnderWay(c, a)'
        BY <1>1, <1>2, <1>3, <1>5, <2>1, <2>2 DEF UnderWay, HalfMade, BySlug, ById
    <2>6. \A d \in TenantCalls : tenantCall'[d].id = tenantCall[d].id
                              /\ tenantCall'[d].alias = tenantCall[d].alias
        BY <1>0, <2>1, <2>2
    <2>7. IdsMinted' /\ NamesKept'
        BY <1>1, <1>3, <2>6 DEF TenancyIInv, IdsMinted, NamesKept
    <2>8. \A j \in 1..MaxOrg : Refers(a, j)' => Refers(a, j)
        BY <1>1, <1>3, <2>6 DEF Refers
    <2>9. /\ orgOf' \in [Aliases -> 0..MaxOrg] /\ orgName' \in [Aliases -> TenantNames \cup {NoName}]
          /\ mintedOrgs' \in 0..MaxOrg /\ mintedOrgs <= mintedOrgs'
          /\ vaultIds' \subseteq 0..MaxOrg /\ vaultIds \subseteq vaultIds'
          /\ tenantRows' \subseteq TenantRow /\ UNCHANGED referenced
          /\ answered' \subseteq answered \cup {tenantCall[c].id} /\ answered' = answered
        BY <1>1, <1>2, <1>3, <1>5 DEF TenancyIInv, TenancyTypeOK
    <2> QED BY <1>0, <1>1, <1>2, <1>3, <2>1, <2>3, <2>4, <2>5, <2>7, <2>8, <2>9, StepOn
<1> QED BY <1>0, <1>4, <1>5 DEF ProvisionVault

\* A request ends that wrote the directory, the table or an answer.
LEMMA EndOn ==
    ASSUME TenancyIInv, NEW c \in TenantCalls, ~TenantCallAt(c, "idle"),
           NEW a \in Aliases, a = tenantCall[c].alias, Finish(c),
           tangled' \in {tangled, tangled \cup {a}},
           orgOf' \in [Aliases -> 0..MaxOrg], orgName' \in [Aliases -> TenantNames \cup {NoName}],
           UNCHANGED <<mintedOrgs, vaultIds, referenced>>, tenantRows' \subseteq TenantRow,
           answered' \subseteq answered \cup {tenantCall[c].id},
           tenantCall[c].id # 0 \/ answered' = answered,
           \A r \in tenantRows' : r.id <= mintedOrgs, NamesKept',
           \A b \in Aliases \ {a} : orgOf'[b] = orgOf[b] /\ BySlug(b)' = BySlug(b),
           orgOf'[a] \in {0, orgOf[a]},
           \A i \in 1..MaxOrg : (\E r \in tenantRows' : r.slug = a /\ r.id = i) => Refers(a, i),
           \A i \in 1..MaxOrg : Refers(a, i) \/ ById(i)' = ById(i),
           a \notin tangled' => Whole(a)'
    PROVE  TenancyIInv'
<1>1. /\ NoTenantCall \in TenantFrames /\ tenantCall' = [tenantCall EXCEPT ![c] = NoTenantCall]
      /\ tenantCall'[c] = NoTenantCall
      /\ \A d \in TenantCalls \ {c} : tenantCall'[d] = tenantCall[d]
    BY NoTenantFrame DEF Finish, TenancyIInv, TenancyTypeOK
<1>2. CallOK(c)'
    BY <1>1, NoTenantFrame DEF CallOK
<1>3. mintedOrgs \in Nat /\ tenantCall[c].id <= mintedOrgs
    BY AtWork DEF TenancyIInv, TenancyTypeOK
<1>4. IdsMinted'
    <2>1. \A b \in Aliases : orgOf'[b] <= mintedOrgs
        BY <1>3 DEF TenancyIInv, IdsMinted
    <2>2. \A d \in TenantCalls : tenantCall'[d].id <= mintedOrgs
        BY <1>1, <1>3, NoTenantFrame DEF TenancyIInv, IdsMinted
    <2>3. \A i \in answered' : i # 0 /\ i <= mintedOrgs
        BY <1>3 DEF TenancyIInv, IdsMinted
    <2> QED BY <2>1, <2>2, <2>3 DEF IdsMinted
<1>5. \A i \in 1..MaxOrg : Refers(a, i)' => Refers(a, i)
    <2>1. ASSUME NEW i \in 1..MaxOrg, Refers(a, i)' PROVE Refers(a, i)
        <3>1. CASE orgOf'[a] = i
            BY <3>1 DEF Refers
        <3>2. CASE \E d \in TenantCalls : tenantCall'[d].alias = a /\ tenantCall'[d].id = i
            BY <1>1, <3>2, NoTenantFrame DEF Refers
        <3> QED BY <2>1, <3>1, <3>2 DEF Refers
    <2> QED BY <2>1
<1>6. /\ mintedOrgs' \in 0..MaxOrg /\ mintedOrgs <= mintedOrgs'
      /\ vaultIds' \subseteq 0..MaxOrg /\ vaultIds \subseteq vaultIds'
    BY <1>3 DEF TenancyIInv, TenancyTypeOK
<1> HIDE DEF NoTenantCall
<1> QED BY <1>1, <1>2, <1>4, <1>5, <1>6, StepOn

LEMMA OrganizationIsAbandoned ==
    ASSUME TenancyIInv, NEW c \in TenantCalls, AbandonOrganization(c)
    PROVE  TenancyIInv'
<1>0. PICK a, i : a = tenantCall[c].alias /\ i = tenantCall[c].id
    OBVIOUS
<1>1. /\ tenantCall[c].pc = "abandon" /\ ~TenantCallAt(c, "idle") /\ Finish(c)
      /\ UNCHANGED <<mintedOrgs, vaultIds, tenantRows, referenced, answered>>
    BY DEF AbandonOrganization, TenantCallAt
<1>2. /\ a \in Aliases /\ i \in 0..MaxOrg
      /\ a \notin tangled => HalfMade(a, i)
    BY <1>0, <1>1, AtWork DEF CallOK, UnderWay
<1>3. /\ \A b \in Aliases : BySlug(b)' = BySlug(b)
      /\ \A j \in 1..MaxOrg : ById(j)' = ById(j)
    BY <1>1 DEF BySlug, ById
<1>4. 0 \notin answered
    BY DEF TenancyIInv, IdsMinted
<1>5. /\ tangled' \in {tangled, tangled \cup {a}}
      /\ orgOf' \in [Aliases -> 0..MaxOrg] /\ orgName' \in [Aliases -> TenantNames \cup {NoName}]
      /\ orgOf'[a] \in {0, orgOf[a]}
      /\ \A b \in Aliases \ {a} : orgOf'[b] = orgOf[b] /\ orgName'[b] = orgName[b]
      /\ orgOf'[a] # 0 => orgOf'[a] = orgOf[a] /\ orgName'[a] = orgName[a]
      /\ a \notin tangled' => a \notin tangled /\ orgOf'[a] = 0
    <2>1. CASE RemoveOrganization(a) /\ UNCHANGED tangled
        <3>1. 0 \in 0..MaxOrg
            BY TenancyAssumption
        <3> QED BY <1>2, <2>1, <3>1 DEF RemoveOrganization, TenancyIInv, TenancyTypeOK
    <2>2. CASE UNCHANGED <<orgOf, orgName>> /\ Tangle(a)
        BY <1>2, <2>2 DEF Tangle, TenancyIInv, TenancyTypeOK
    <2> QED BY <1>0, <2>1, <2>2 DEF AbandonOrganization
<1>6. a \notin tangled' => Whole(a)'
    BY <1>1, <1>2, <1>3, <1>4, <1>5 DEF HalfMade, Whole
<1>7. NamesKept'
    BY <1>1, <1>2, <1>5 DEF TenancyIInv, NamesKept
<1>8. /\ tenantRows' \subseteq TenantRow /\ \A r \in tenantRows' : r.id <= mintedOrgs
      /\ UNCHANGED <<mintedOrgs, vaultIds, referenced>> /\ answered' = answered
      /\ \A j \in 1..MaxOrg : (\E r \in tenantRows' : r.slug = a /\ r.id = j) => Refers(a, j)
    BY <1>1 DEF TenancyIInv, TenancyTypeOK, IdsMinted, Refers
<1>9. answered' \subseteq answered \cup {tenantCall[c].id}
    BY <1>8
<1> QED BY <1>0, <1>1, <1>2, <1>3, <1>5, <1>6, <1>7, <1>8, <1>9, EndOn

LEMMA TenantIsAnswered ==
    ASSUME TenancyIInv, NEW c \in TenantCalls, AnswerCreated(c)
    PROVE  TenancyIInv'
<1>0. PICK a, i, n : a = tenantCall[c].alias /\ i = tenantCall[c].id /\ n = tenantCall[c].name
    OBVIOUS
<1>1. /\ tenantCall[c].pc \in {"known", "commit"} /\ ~TenantCallAt(c, "idle") /\ Finish(c)
      /\ UNCHANGED <<directoryOrgs, vaultIds, referenced>>
      /\ answered' = answered \cup {i}
    BY <1>0 DEF AnswerCreated, TenantCallAt
<1>2. /\ a \in Aliases /\ i \in 0..MaxOrg /\ i # 0 /\ n # NoName /\ i <= mintedOrgs
      /\ n \in TenantNames \cup {NoName} /\ Refers(a, i) /\ NoAlias \notin Aliases
    BY <1>0, <1>1, AtWork, TenancyAssumption DEF CallOK
<1>3. a \notin tangled =>
        tenantCall[c].pc = "commit" /\ HalfMade(a, i) /\ i \in vaultIds
    BY <1>0, <1>1, AtWork DEF UnderWay
<1>4. UNCHANGED <<orgOf, orgName, mintedOrgs>>
    BY <1>1 DEF directoryOrgs
<1>5. /\ orgOf' \in [Aliases -> 0..MaxOrg] /\ orgName' \in [Aliases -> TenantNames \cup {NoName}]
      /\ UNCHANGED <<mintedOrgs, vaultIds, referenced>>
      /\ answered' \subseteq answered \cup {tenantCall[c].id} /\ tenantCall[c].id # 0
      /\ orgOf'[a] \in {0, orgOf[a]} /\ \A b \in Aliases \ {a} : orgOf'[b] = orgOf[b]
    BY <1>0, <1>1, <1>2, <1>4 DEF TenancyIInv, TenancyTypeOK
<1>6. CASE /\ UNCHANGED tenantRows
           /\ \/ tenantCall[c].pc = "known" /\ UNCHANGED tangled
              \/ tangled' = tangled \cup {a}
    <2>1. tangled' \in {tangled, tangled \cup {a}} /\ a \in tangled'
        BY <1>3, <1>6
    <2>2. /\ \A b \in Aliases : BySlug(b)' = BySlug(b)
          /\ \A j \in 1..MaxOrg : ById(j)' = ById(j)
        BY <1>6 DEF BySlug, ById
    <2>3. NamesKept'
        BY <1>4, <1>6 DEF TenancyIInv, NamesKept
    <2>4. /\ tenantRows' \subseteq TenantRow /\ \A r \in tenantRows' : r.id <= mintedOrgs
          /\ \A j \in 1..MaxOrg : (\E r \in tenantRows' : r.slug = a /\ r.id = j) => Refers(a, j)
        BY <1>6 DEF TenancyIInv, TenancyTypeOK, IdsMinted, Refers
    <2> QED BY <1>0, <1>1, <1>2, <1>5, <2>1, <2>2, <2>3, <2>4, EndOn
<1>7. CASE /\ ById(i) \cup BySlug(a) = {} /\ UNCHANGED tangled
           /\ tenantRows' = tenantRows \cup {[id |-> i, slug |-> a, name |-> n]}
    <2>1. PICK q : q = [id |-> i, slug |-> a, name |-> n]
        OBVIOUS
    <2>2. q \in TenantRow /\ q.id = i /\ q.slug = a /\ q.name = n
        BY <1>2, <2>1 DEF TenantRow
    <2>3. tenantRows' = tenantRows \cup {q}
        BY <1>7, <2>1
    <2>4. \A b \in Aliases \ {a} : BySlug(b)' = BySlug(b)
        BY <2>2, <2>3 DEF BySlug
    <2>5. BySlug(a)' = {q} /\ ById(i)' = {q} /\ q \in tenantRows'
        BY <1>7, <2>2, <2>3 DEF BySlug, ById
    <2>6. \A j \in 1..MaxOrg : Refers(a, j) \/ ById(j)' = ById(j)
        <3>1. ASSUME NEW j \in 1..MaxOrg, j # i PROVE ById(j)' = ById(j)
            BY <2>2, <2>3, <3>1 DEF ById
        <3> QED BY <1>2, <3>1
    <2>7. NamesKept'
        BY <1>2, <1>4, <2>2, <2>3 DEF TenancyIInv, NamesKept
    <2>8. /\ tenantRows' \subseteq TenantRow /\ \A r \in tenantRows' : r.id <= mintedOrgs
          /\ \A j \in 1..MaxOrg : (\E r \in tenantRows' : r.slug = a /\ r.id = j) => Refers(a, j)
        BY <1>2, <2>2, <2>3 DEF TenancyIInv, TenancyTypeOK, IdsMinted, Refers
    <2>9. a \notin tangled' => Whole(a)'
        <3>1. a \notin tangled => orgOf'[a] = i /\ i \in vaultIds'
            BY <1>1, <1>3, <1>4 DEF HalfMade
        <3>2. a \notin tangled => ById(q.id)' = {q}
            BY <2>2, <2>5
        <3> QED BY <1>2, <1>7, <2>2, <2>5, <3>1, <3>2 DEF Whole
    <2> QED BY <1>0, <1>1, <1>2, <1>5, <1>7, <2>4, <2>6, <2>7, <2>8, <2>9, EndOn
<1> QED BY <1>0, <1>2, <1>6, <1>7 DEF AnswerCreated, Tangle, TenantCallAt

LEMMA OrganizationIsDeleted ==
    ASSUME TenancyIInv, NEW c \in TenantCalls, DeleteOrganization(c)
    PROVE  TenancyIInv'
<1>0. PICK a, i, n : a = tenantCall[c].alias /\ i = tenantCall[c].id /\ n = tenantCall[c].name
    OBVIOUS
<1>1. /\ tenantCall[c].pc = "delete" /\ ~TenantCallAt(c, "idle")
      /\ UNCHANGED <<mintedOrgs, vaultIds, tenantRows, referenced, answered, tangled>>
    BY DEF DeleteOrganization, TenantCallAt, tenancyHistory
<1>2. /\ a \in Aliases /\ i \in 0..MaxOrg /\ CallOK(c)
      /\ a \notin tangled => Whole(a) /\ n # NoName /\ \E r \in tenantRows : BySlug(a) = {r} /\ r.id = i
    BY <1>0, <1>1, AtWork DEF UnderWay
<1>3. /\ \A b \in Aliases : BySlug(b)' = BySlug(b)
      /\ \A j \in 1..MaxOrg : ById(j)' = ById(j)
    BY <1>1 DEF BySlug, ById
<1>4. /\ tenantRows' \subseteq TenantRow /\ \A r \in tenantRows' : r.id <= mintedOrgs
      /\ UNCHANGED <<mintedOrgs, vaultIds, referenced>> /\ answered' = answered
      /\ \A j \in 1..MaxOrg : (\E r \in tenantRows' : r.slug = a /\ r.id = j) => Refers(a, j)
      /\ answered' \subseteq answered \cup {tenantCall[c].id}
    BY <1>1 DEF TenancyIInv, TenancyTypeOK, IdsMinted, Refers
<1>5. CASE UNCHANGED <<orgOf, orgName>> /\ Finish(c)
    <2>1. UNCHANGED directoryOrgs
        BY <1>1, <1>5 DEF directoryOrgs
    <2> QED BY <1>0, <1>1, <1>2, <1>5, <2>1, FinishOn
<1>6. CASE RemoveOrganization(a) /\ (IF n = NoName THEN Finish(c) ELSE GoTo(c, "deleteRow"))
    <2>1. /\ orgOf' \in [Aliases -> 0..MaxOrg] /\ orgName' \in [Aliases -> TenantNames \cup {NoName}]
          /\ orgOf'[a] = 0
          /\ \A b \in Aliases \ {a} : orgOf'[b] = orgOf[b] /\ orgName'[b] = orgName[b]
        <3>1. 0 \in 0..MaxOrg
            BY TenancyAssumption
        <3> QED BY <1>2, <1>6, <3>1 DEF RemoveOrganization, TenancyIInv, TenancyTypeOK
    <2>2. NamesKept'
        BY <1>1, <1>2, <2>1 DEF TenancyIInv, NamesKept
    <2>3. CASE n = NoName
        <3>1. Finish(c) /\ a \in tangled' /\ tangled' = tangled /\ orgOf'[a] \in {0, orgOf[a]}
            BY <1>1, <1>2, <1>6, <2>1, <2>3
        <3> QED BY <1>0, <1>1, <1>2, <1>3, <1>4, <2>1, <2>2, <3>1, EndOn
    <2>4. CASE n # NoName
        <3>1. PICK g \in TenantFrames :
                /\ tenantCall' = [tenantCall EXCEPT ![c] = g] /\ g.pc = "deleteRow"
                /\ g.alias = a /\ g.name = n /\ g.id = i
            BY <1>0, <1>6, <2>4, Goes DEF TenancyIInv, TenantPcs
        <3>2. tenantCall'[c] = g /\ \A d \in TenantCalls \ {c} : tenantCall'[d] = tenantCall[d]
            BY <3>1 DEF TenancyIInv, TenancyTypeOK
        <3>3. CallOK(c)'
            BY <1>0, <1>1, <1>2, <2>4, <3>1, <3>2 DEF CallOK
        <3>4. \A d \in TenantCalls : tenantCall'[d].id = tenantCall[d].id
                                  /\ tenantCall'[d].alias = tenantCall[d].alias
            BY <1>0, <3>1, <3>2
        <3>5. IdsMinted'
            <4>1. \A b \in Aliases : orgOf'[b] <= mintedOrgs
                BY <2>1 DEF TenancyIInv, TenancyTypeOK, IdsMinted
            <4> QED BY <1>1, <3>4, <4>1 DEF TenancyIInv, IdsMinted
        <3>6. \A j \in 1..MaxOrg : Refers(a, j)' => Refers(a, j)
            BY <1>1, <2>1, <3>4 DEF Refers
        <3>7. a \notin tangled' => UnderWay(c, a)'
            <4>1. SUFFICES ASSUME a \notin tangled' PROVE UnderWay(c, a)'
                OBVIOUS
            <4>2. PICK r \in tenantRows : BySlug(a) = {r} /\ r.id = i
                BY <1>1, <1>2, <4>1
            <4>3. r \in tenantRows' /\ BySlug(a)' = {r} /\ orgOf'[a] = 0
                BY <1>1, <1>2, <1>3, <2>1, <4>2
            <4> QED BY <3>1, <3>2, <4>2, <4>3 DEF UnderWay, HalfGone
        <3>8. /\ g.pc # "idle" /\ g # NoTenantCall
              /\ mintedOrgs' \in 0..MaxOrg /\ mintedOrgs <= mintedOrgs'
              /\ vaultIds' \subseteq 0..MaxOrg /\ vaultIds \subseteq vaultIds'
            BY <1>1, <3>1, NoTenantFrame DEF TenancyIInv, TenancyTypeOK
        <3>9. \A b \in Aliases \ {a} : orgOf'[b] = orgOf[b] /\ BySlug(b)' = BySlug(b)
            BY <1>3, <2>1
        <3> QED BY <1>0, <1>1, <1>2, <1>3, <1>4, <2>1, <2>2, <3>1, <3>3, <3>5, <3>6, <3>7, <3>8,
                   <3>9, StepOn
    <2> QED BY <2>3, <2>4
<1> QED BY <1>0, <1>5, <1>6 DEF DeleteOrganization, AfterProviderError

LEMMA RowIsDeleted ==
    ASSUME TenancyIInv, NEW c \in TenantCalls, DeleteRow(c)
    PROVE  TenancyIInv'
<1>0. PICK a, i : a = tenantCall[c].alias /\ i = tenantCall[c].id
    OBVIOUS
<1>1. /\ tenantCall[c].pc = "deleteRow" /\ ~TenantCallAt(c, "idle") /\ Finish(c)
      /\ UNCHANGED <<directoryOrgs, vaultIds, referenced, answered>>
    BY DEF DeleteRow, TenantCallAt
<1>2. /\ a \in Aliases /\ i \in 0..MaxOrg /\ Refers(a, i)
      /\ a \notin tangled => HalfGone(a, i)
    BY <1>0, <1>1, AtWork DEF UnderWay
<1>3. CASE UNCHANGED tenantRows /\ Tangle(a)
    <2>1. tangled' = tangled \cup {a}
        BY <1>2, <1>3 DEF Tangle
    <2> QED BY <1>0, <1>1, <1>2, <1>3, <2>1, FinishOn
<1>4. CASE tenantRows' = tenantRows \ ById(i) /\ UNCHANGED tangled
    <2>1. UNCHANGED <<orgOf, orgName, mintedOrgs>>
        BY <1>1 DEF directoryOrgs
    <2>2. \A b \in Aliases \ {a} : orgOf'[b] = orgOf[b] /\ BySlug(b)' = BySlug(b)
        <3>1. ASSUME NEW b \in Aliases \ {a}, NEW r \in tenantRows, r.slug = b PROVE r \notin ById(i)
            BY <1>0, <1>1, <3>1, RowOfCall DEF ById
        <3> QED BY <1>4, <2>1, <3>1 DEF BySlug
    <2>3. \A j \in 1..MaxOrg : Refers(a, j) \/ ById(j)' = ById(j)
        <3>1. ASSUME NEW j \in 1..MaxOrg, j # i PROVE ById(j)' = ById(j)
            BY <1>4, <3>1 DEF ById
        <3> QED BY <1>2, <3>1
    <2>4. NamesKept'
        BY <1>4, <2>1 DEF TenancyIInv, NamesKept
    <2>5. /\ tenantRows' \subseteq TenantRow /\ \A r \in tenantRows' : r.id <= mintedOrgs
          /\ \A j \in 1..MaxOrg : (\E r \in tenantRows' : r.slug = a /\ r.id = j) => Refers(a, j)
        BY <1>4 DEF TenancyIInv, TenancyTypeOK, IdsMinted, Refers
    <2>6. a \notin tangled' => Whole(a)'
        <3>1. SUFFICES ASSUME a \notin tangled' PROVE Whole(a)'
            OBVIOUS
        <3>2. HalfGone(a, i)
            BY <1>2, <1>4, <3>1
        <3>3. PICK r \in tenantRows : BySlug(a) = {r} /\ r.id = i
            BY <3>2 DEF HalfGone
        <3>4. BySlug(a)' = {}
            BY <1>4, <3>3 DEF BySlug, ById
        <3>5. orgOf'[a] = 0 /\ 0 \notin answered'
            BY <1>1, <2>1, <3>2 DEF HalfGone, TenancyIInv, IdsMinted
        <3> QED BY <3>4, <3>5 DEF Whole
    <2>7. /\ orgOf' \in [Aliases -> 0..MaxOrg] /\ orgName' \in [Aliases -> TenantNames \cup {NoName}]
          /\ UNCHANGED <<mintedOrgs, vaultIds, referenced>>
          /\ answered' \subseteq answered \cup {tenantCall[c].id} /\ answered' = answered
          /\ orgOf'[a] \in {0, orgOf[a]} /\ tangled' = tangled
        BY <1>1, <1>2, <1>4, <2>1 DEF TenancyIInv, TenancyTypeOK
    <2> QED BY <1>0, <1>1, <1>2, <2>2, <2>3, <2>4, <2>5, <2>6, <2>7, EndOn
<1> QED BY <1>0, <1>3, <1>4 DEF DeleteRow

LEMMA OrganizationIsRenamed ==
    ASSUME TenancyIInv, NEW c \in TenantCalls, RenameOrganization(c)
    PROVE  TenancyIInv'
<1>0. PICK a, i, n : a = tenantCall[c].alias /\ i = tenantCall[c].id /\ n = tenantCall[c].name
    OBVIOUS
<1>1. /\ tenantCall[c].pc = "rename" /\ ~TenantCallAt(c, "idle")
      /\ UNCHANGED <<orgOf, mintedOrgs, vaultIds, tenantRows, referenced, answered, tangled>>
    BY DEF RenameOrganization, TenantCallAt, tenancyHistory
<1>2. /\ a \in Aliases /\ i \in 0..MaxOrg /\ n # NoName /\ n \in TenantNames \cup {NoName}
      /\ i = 0 => a = DefaultAlias
      /\ a \notin tangled => Whole(a)
    BY <1>0, <1>1, AtWork DEF UnderWay, CallOK
<1>3. CASE Finish(c) /\ UNCHANGED orgName
    <2>1. UNCHANGED directoryOrgs
        BY <1>1, <1>3 DEF directoryOrgs
    <2> QED BY <1>0, <1>1, <1>2, <1>3, <2>1, FinishOn
<1>4. CASE orgName' = [orgName EXCEPT ![a] = n] /\ GoTo(c, "renameRow")
    <2>1. /\ orgName' \in [Aliases -> TenantNames \cup {NoName}]
          /\ \A b \in Aliases : orgOf[b] # 0 => orgName'[b] # NoName
        BY <1>2, <1>4, OrgNames
    <2>2. PICK g \in TenantFrames :
            /\ tenantCall' = [tenantCall EXCEPT ![c] = g] /\ g.pc = "renameRow"
            /\ g.alias = a /\ g.name = n /\ g.id = i
        BY <1>0, <1>4, Goes DEF TenancyIInv, TenantPcs
    <2>3. tenantCall'[c] = g
        BY <2>2 DEF TenancyIInv, TenancyTypeOK
    <2>4. Whole(a)' <=> Whole(a)
        BY <1>1 DEF Whole, BySlug, ById
    <2>5. a \notin tangled => UnderWay(c, a)'
        BY <1>2, <2>2, <2>3, <2>4 DEF UnderWay
    <2> QED BY <1>0, <1>1, <1>2, <2>1, <2>2, <2>5, GoOn
<1> QED BY <1>0, <1>3, <1>4 DEF RenameOrganization

LEMMA RowIsRenamed ==
    ASSUME TenancyIInv, NEW c \in TenantCalls, RenameRow(c)
    PROVE  TenancyIInv'
<1>0. PICK a, i, n : a = tenantCall[c].alias /\ i = tenantCall[c].id /\ n = tenantCall[c].name
    OBVIOUS
<1>1. /\ tenantCall[c].pc = "renameRow" /\ ~TenantCallAt(c, "idle") /\ Finish(c)
      /\ UNCHANGED <<directoryOrgs, vaultIds, referenced, answered>>
    BY DEF RenameRow, TenantCallAt
<1>2. /\ a \in Aliases /\ i \in 0..MaxOrg /\ Refers(a, i) /\ n # NoName
      /\ n \in TenantNames \cup {NoName}
      /\ a \notin tangled => Whole(a)
    BY <1>0, <1>1, AtWork DEF UnderWay, CallOK
<1>3. CASE UNCHANGED tenantRows /\ Tangle(a)
    <2>1. tangled' = tangled \cup {a}
        BY <1>2, <1>3 DEF Tangle
    <2> QED BY <1>0, <1>1, <1>2, <1>3, <2>1, FinishOn
<1>4. CASE /\ tenantRows' = {IF r.id = i THEN [r EXCEPT !.name = n] ELSE r : r \in tenantRows}
           /\ UNCHANGED tangled
    <2> DEFINE New(r) == IF r.id = i THEN [r EXCEPT !.name = n] ELSE r
    <2>1. UNCHANGED <<orgOf, orgName, mintedOrgs>>
        BY <1>1 DEF directoryOrgs
    <2>2. ASSUME NEW r \in tenantRows
          PROVE  /\ New(r) \in TenantRow /\ New(r).id = r.id /\ New(r).slug = r.slug
                 /\ New(r).name \in {r.name, n} /\ (r.id # i => New(r) = r)
        BY <1>2 DEF TenancyIInv, TenancyTypeOK, TenantRow
    <2>3. tenantRows' = {New(r) : r \in tenantRows}
        BY <1>4
    <2> HIDE DEF New
    <2>4. \A b \in Aliases \ {a} : orgOf'[b] = orgOf[b] /\ BySlug(b)' = BySlug(b)
        <3>1. ASSUME NEW b \in Aliases \ {a}, NEW r \in tenantRows, r.slug = b PROVE New(r) = r
            BY <1>0, <1>1, <2>2, <3>1, RowOfCall
        <3>2. ASSUME NEW b \in Aliases \ {a} PROVE BySlug(b)' = {New(r) : r \in BySlug(b)}
            BY <2>2, <2>3 DEF BySlug
        <3>3. ASSUME NEW b \in Aliases \ {a} PROVE BySlug(b)' = BySlug(b)
            BY <3>1, <3>2 DEF BySlug
        <3> QED BY <2>1, <3>3
    <2>5. \A j \in 1..MaxOrg : Refers(a, j) \/ ById(j)' = ById(j)
        <3>1. ASSUME NEW j \in 1..MaxOrg, j # i PROVE ById(j)' = ById(j)
            BY <2>2, <2>3, <3>1 DEF ById
        <3> QED BY <1>2, <3>1
    <2>6. NamesKept'
        <3>1. ASSUME NEW q \in tenantRows'
              PROVE  (q.slug # NoAlias => q.name # NoName) /\ (q.id = 0 => q.slug = DefaultAlias)
            <4>1. PICK r \in tenantRows : q = New(r)
                BY <2>3
            <4> QED BY <1>2, <2>2, <4>1 DEF TenancyIInv, NamesKept
        <3> QED BY <2>1, <3>1 DEF TenancyIInv, NamesKept
    <2>7. /\ tenantRows' \subseteq TenantRow /\ \A r \in tenantRows' : r.id <= mintedOrgs
          /\ \A j \in 1..MaxOrg : (\E r \in tenantRows' : r.slug = a /\ r.id = j) => Refers(a, j)
        <3>1. ASSUME NEW q \in tenantRows'
              PROVE  q \in TenantRow /\ q.id <= mintedOrgs /\ (q.slug = a => Refers(a, q.id))
            <4>1. PICK r \in tenantRows : q = New(r)
                BY <2>3
            <4> QED BY <2>2, <4>1 DEF TenancyIInv, IdsMinted, Refers
        <3> QED BY <3>1
    <2>8. Whole(a) => Whole(a)'
        <3>1. SUFFICES ASSUME Whole(a) PROVE Whole(a)'
            OBVIOUS
        <3>2. \A j : BySlug(j)' = {New(r) : r \in BySlug(j)}
            BY <2>2, <2>3 DEF BySlug
        <3>3. \A j : ById(j)' = {New(r) : r \in ById(j)}
            BY <2>2, <2>3 DEF ById
        <3>4. CASE orgOf[a] = 0
            BY <1>1, <2>1, <3>1, <3>2, <3>4 DEF Whole
        <3>5. CASE orgOf[a] # 0
            <4>1. PICK r \in tenantRows :
                    BySlug(a) = {r} /\ r.id \in {0, orgOf[a]} /\ (r.id # 0 => ById(r.id) = {r})
                BY <3>1, <3>5 DEF Whole
            <4>2. PICK q : q = New(r)
                OBVIOUS
            <4>3. q \in tenantRows' /\ q.id = r.id
                BY <2>2, <2>3, <4>2
            <4>4. BySlug(a)' = {q}
                BY <3>2, <4>1, <4>2
            <4>5. ASSUME r.id # 0 PROVE ById(q.id)' = {q}
                <5>1. ById(r.id)' = {New(s) : s \in ById(r.id)}
                    BY <3>3
                <5> QED BY <4>1, <4>2, <4>3, <4>5, <5>1
            <4> QED BY <1>1, <2>1, <3>1, <3>5, <4>1, <4>3, <4>4, <4>5 DEF Whole
        <3> QED BY <3>4, <3>5
    <2>9. /\ orgOf' \in [Aliases -> 0..MaxOrg] /\ orgName' \in [Aliases -> TenantNames \cup {NoName}]
          /\ UNCHANGED <<mintedOrgs, vaultIds, referenced>>
          /\ answered' \subseteq answered \cup {tenantCall[c].id} /\ answered' = answered
          /\ orgOf'[a] \in {0, orgOf[a]} /\ tangled' = tangled
        BY <1>1, <1>2, <1>4, <2>1 DEF TenancyIInv, TenancyTypeOK
    <2> QED BY <1>0, <1>1, <1>2, <2>4, <2>5, <2>6, <2>7, <2>8, <2>9, EndOn
<1> QED BY <1>0, <1>3, <1>4 DEF RenameRow

\* Another writer touches the rows of an alias, and marks it when a request is at work on it.
LEMMA OthersOn ==
    ASSUME TenancyIInv, NEW a \in Aliases, UNCHANGED <<directoryOrgs, tenantCall, answered>>,
           TangleBusy(a), vaultIds \subseteq vaultIds', vaultIds' \subseteq 0..MaxOrg,
           referenced' \subseteq 0..MaxOrg, tenantRows' \subseteq TenantRow,
           \A b \in Aliases \ {a} : BySlug(b)' = BySlug(b),
           \A i \in 1..MaxOrg : (\E r \in tenantRows' : r.slug = a /\ r.id = i) => Refers(a, i),
           \A i \in 1..MaxOrg : Refers(a, i) \/ ById(i)' = ById(i),
           \A r \in tenantRows' : r.id <= mintedOrgs, NamesKept',
           Whole(a) => Whole(a)'
    PROVE  TenancyIInv'
<1>0. /\ UNCHANGED <<orgOf, orgName, mintedOrgs, tenantCall, answered>>
      /\ tangled' = IF \E c \in TenantCalls : tenantCall[c].alias = a
                    THEN tangled \cup {a} ELSE tangled
    BY DEF directoryOrgs, TangleBusy, Tangle
<1>1. TenancyTypeOK'
    BY <1>0 DEF TenancyIInv, TenancyTypeOK
<1>2. (\A c \in TenantCalls : CallOK(c)') /\ CallsApart' /\ IdsMinted'
    BY <1>0 DEF TenancyIInv, CallOK, CallsApart, TenantCallAt, IdsMinted
<1>3. ASSUME NEW b \in Aliases, NEW i \in 1..MaxOrg, Refers(b, i)' PROVE Refers(b, i)
    <2>1. CASE \E r \in tenantRows' : r.slug = b /\ r.id = i
        <3>1. CASE b = a
            BY <2>1, <3>1
        <3>2. CASE b # a
            <4>1. PICK r \in tenantRows' : r.slug = b /\ r.id = i
                BY <2>1
            <4>2. r \in BySlug(b)'
                BY <4>1 DEF BySlug
            <4>3. r \in BySlug(b)
                BY <3>2, <4>2
            <4> QED BY <4>1, <4>3 DEF BySlug, Refers
        <3> QED BY <3>1, <3>2
    <2> QED BY <1>0, <1>3, <2>1 DEF Refers
<1>4. IdsApart'
    BY <1>3 DEF TenancyIInv, IdsApart
<1>5. ASSUME NEW b \in Aliases \ {a}, b \notin tangled' PROVE TenantOK(b)'
    <2>1. TenantOK(b) /\ 0 \notin answered'
        BY <1>0, <1>5 DEF TenancyIInv, IdsMinted
    <2>2. ASSUME NEW i \in 1..MaxOrg, Refers(b, i)
          PROVE  ById(i)' = ById(i) /\ (i \in answered' => i \in answered)
        BY <1>0, <2>2 DEF TenancyIInv, IdsApart
    <2>3. /\ orgOf'[b] = orgOf[b] /\ BySlug(b)' = BySlug(b)
          /\ \A d \in TenantCalls : tenantCall'[d].alias = b => tenantCall'[d] = tenantCall[d]
          /\ \A d \in TenantCalls : tenantCall[d].alias = b => tenantCall'[d].alias = b
        BY <1>0
    <2> QED BY <2>1, <2>2, <2>3, OtherTenant
<1>6. ASSUME a \notin tangled' PROVE TenantOK(a)'
    <2>1. a \notin tangled /\ \A c \in TenantCalls : tenantCall[c].alias # a
        BY <1>0, <1>6
    <2>2. Whole(a)'
        BY <2>1 DEF TenancyIInv, TenantOK
    <2> QED BY <1>0, <2>1, <2>2 DEF TenantOK
<1> QED BY <1>1, <1>2, <1>4, <1>5, <1>6 DEF TenancyIInv

LEMMA DataArrives ==
    ASSUME TenancyIInv, NEW i \in 0..MaxOrg, GetsData(i)
    PROVE  TenancyIInv'
<1>1. /\ UNCHANGED <<orgOf, orgName, mintedOrgs, vaultIds, tenantRows, tenantCall, answered, tangled>>
      /\ referenced' \subseteq 0..MaxOrg
    BY DEF GetsData, directoryOrgs, tenancyHistory, TenancyIInv, TenancyTypeOK
<1>2. /\ TenancyTypeOK' /\ IdsApart' /\ IdsMinted' /\ NamesKept' /\ CallsApart'
      /\ \A c \in TenantCalls : CallOK(c)'
    BY <1>1 DEF TenancyIInv, TenancyTypeOK, IdsApart, Refers, IdsMinted, NamesKept, CallsApart,
                TenantCallAt, CallOK
<1>3. /\ \A b : (Whole(b)' <=> Whole(b)) /\ BySlug(b)' = BySlug(b)
      /\ \A b, j : (HalfMade(b, j)' <=> HalfMade(b, j)) /\ (HalfGone(b, j)' <=> HalfGone(b, j))
    BY <1>1 DEF Whole, HalfMade, HalfGone, BySlug, ById
<1>4. ASSUME NEW b \in Aliases \ tangled PROVE TenantOK(b)'
    <2>1. TenantOK(b)
        BY DEF TenancyIInv
    <2> QED BY <1>1, <1>3, <2>1 DEF TenantOK, UnderWay, HalfMade, HalfGone, BySlug, ById
<1> QED BY <1>1, <1>2, <1>4 DEF TenancyIInv

LEMMA MemberSignsIn ==
    ASSUME TenancyIInv, NEW a \in Aliases, SignInTenant(a)
    PROVE  TenancyIInv'
<1>1. PICK i, q : i = orgOf[a] /\ q = [id |-> i, slug |-> NoAlias, name |-> NoName]
    OBVIOUS
<1>2. /\ i # 0 /\ ById(i) = {} /\ tenantRows' = tenantRows \cup {q} /\ TangleBusy(a)
      /\ UNCHANGED <<directoryOrgs, vaultIds, referenced, tenantCall, answered>>
    BY <1>1 DEF SignInTenant
<1>3. /\ i \in 0..MaxOrg /\ Refers(a, i) /\ i <= mintedOrgs /\ NoAlias \notin Aliases
      /\ UNCHANGED <<orgOf, orgName, mintedOrgs>>
    BY <1>1, <1>2, TenancyAssumption DEF TenancyIInv, TenancyTypeOK, IdsMinted, Refers, directoryOrgs
<1>4. q \in TenantRow /\ q.id = i /\ q.slug = NoAlias /\ q.name = NoName
    BY <1>1, <1>3 DEF TenantRow
<1>5. \A b \in Aliases : BySlug(b)' = BySlug(b)
    BY <1>2, <1>3, <1>4 DEF BySlug
<1>6. ASSUME NEW j \in 0..MaxOrg, j # i PROVE ById(j)' = ById(j)
    BY <1>2, <1>4, <1>6 DEF ById
<1>7. \A j \in 1..MaxOrg : Refers(a, j) \/ ById(j)' = ById(j)
    BY <1>3, <1>6
<1>8. NamesKept'
    BY <1>2, <1>3, <1>4 DEF TenancyIInv, NamesKept
<1>9. /\ tenantRows' \subseteq TenantRow /\ \A r \in tenantRows' : r.id <= mintedOrgs
      /\ \A j \in 1..MaxOrg : (\E r \in tenantRows' : r.slug = a /\ r.id = j) => Refers(a, j)
      /\ vaultIds' \subseteq 0..MaxOrg /\ referenced' \subseteq 0..MaxOrg
    BY <1>2, <1>3, <1>4 DEF TenancyIInv, TenancyTypeOK, IdsMinted, Refers
<1>10. Whole(a) => Whole(a)'
    <2>1. SUFFICES ASSUME Whole(a) PROVE Whole(a)'
        OBVIOUS
    <2>2. PICK r \in tenantRows :
            BySlug(a) = {r} /\ r.id \in {0, orgOf[a]} /\ (r.id # 0 => ById(r.id) = {r})
        BY <1>1, <1>2, <2>1 DEF Whole
    <2>3. r.id = 0
        BY <1>1, <1>2, <2>2
    <2>4. r \in tenantRows' /\ BySlug(a)' = {r} /\ orgOf'[a] # 0
        BY <1>1, <1>2, <1>3, <1>5, <2>2
    <2> QED BY <1>2, <1>3, <2>1, <2>3, <2>4 DEF Whole
<1> QED BY <1>2, <1>5, <1>7, <1>8, <1>9, <1>10, OthersOn

LEMMA DefaultIsReconciled ==
    ASSUME TenancyIInv, ReconcileDefault
    PROVE  TenancyIInv'
<1>0. PICK a, i, n, q : /\ a = DefaultAlias /\ i = orgOf[a] /\ n = orgName[a]
                        /\ q = [id |-> i, slug |-> a, name |-> n]
    OBVIOUS
<1>1. /\ i # 0 /\ TangleBusy(a)
      /\ ById(i) = {} \/ BySlug(a) \subseteq ById(i)
      /\ UNCHANGED <<directoryOrgs, tenantCall, answered>>
    BY <1>0 DEF ReconcileDefault
<1>2. /\ a \in Aliases /\ i \in 0..MaxOrg /\ Refers(a, i) /\ i <= mintedOrgs /\ NoAlias \notin Aliases
      /\ n \in TenantNames \cup {NoName} /\ n # NoName
      /\ UNCHANGED <<orgOf, orgName, mintedOrgs>>
    BY <1>0, <1>1, TenancyAssumption, OrgNames
    DEF TenancyIInv, TenancyTypeOK, IdsMinted, Refers, directoryOrgs
<1>3. q \in TenantRow /\ q.id = i /\ q.slug = a /\ q.name = n
    BY <1>0, <1>2 DEF TenantRow
<1>4. \E gone \in SUBSET tenantRows :
        /\ tenantRows' = (tenantRows \ gone) \cup {q}
        /\ vaultIds' \in {vaultIds, vaultIds \cup {i}}
        /\ referenced' \subseteq 0..MaxOrg
        /\ \/ gone = {} /\ ById(i) = {} /\ BySlug(a) = {}
           \/ \E r \in ById(i) : gone = {r}
           \/ ById(i) = {} /\ \E r \in BySlug(a) : gone = {r}
    <2>1. CASE ById(i) = {} /\ BySlug(a) = {}
        <3>1. /\ tenantRows' = tenantRows \cup {q} /\ vaultIds' = vaultIds \cup {i}
              /\ UNCHANGED referenced
            BY <1>0, <2>1 DEF ReconcileDefault
        <3> QED BY <2>1, <3>1 DEF TenancyIInv, TenancyTypeOK
    <2>2. CASE ~(ById(i) = {} /\ BySlug(a) = {})
        <3>1. PICK r \in IF ById(i) # {} THEN ById(i) ELSE BySlug(a) :
                /\ tenantRows' = (tenantRows \ {r}) \cup {q}
                /\ referenced' = IF r.id \in referenced
                                 THEN (referenced \ {r.id}) \cup {i} ELSE referenced
                /\ UNCHANGED vaultIds
            BY <1>0, <2>2 DEF ReconcileDefault
        <3>2. r \in tenantRows
            BY <3>1 DEF ById, BySlug
        <3>3. referenced' \subseteq 0..MaxOrg
            BY <1>2, <3>1 DEF TenancyIInv, TenancyTypeOK
        <3> QED BY <3>1, <3>2, <3>3
    <2> QED BY <2>1, <2>2
<1>5. PICK gone \in SUBSET tenantRows :
        /\ tenantRows' = (tenantRows \ gone) \cup {q}
        /\ vaultIds' \in {vaultIds, vaultIds \cup {i}}
        /\ referenced' \subseteq 0..MaxOrg
        /\ \/ gone = {} /\ ById(i) = {} /\ BySlug(a) = {}
           \/ \E r \in ById(i) : gone = {r}
           \/ ById(i) = {} /\ \E r \in BySlug(a) : gone = {r}
    BY <1>4
\* The row that gives way is of this organization, or of this slug.
<1>6. ASSUME NEW r \in gone
      PROVE  /\ r.slug \in {a, NoAlias} /\ r.id \in 0..MaxOrg
             /\ r.id \in 1..MaxOrg => Refers(a, r.id)
    <2>1. r \in tenantRows /\ (r.id = i \/ r.slug = a)
        BY <1>5 DEF ById, BySlug
    <2>2. r.id \in 0..MaxOrg /\ r.slug \in Aliases \cup {NoAlias}
          /\ (r.slug \in Aliases => Refers(r.slug, r.id))
        BY <2>1, TenantRowFacts
    <2>3. r.slug \in Aliases /\ r.id = i => r.slug = a
        BY <1>1, <1>2, <2>2 DEF TenancyIInv, IdsApart
    <2> QED BY <1>2, <2>1, <2>2, <2>3
<1>7. ASSUME NEW b \in Aliases \ {a} PROVE BySlug(b)' = BySlug(b)
    BY <1>2, <1>3, <1>5, <1>6 DEF BySlug
<1>8. ASSUME NEW j \in 1..MaxOrg PROVE Refers(a, j) \/ ById(j)' = ById(j)
    <2>1. SUFFICES ASSUME ~Refers(a, j) PROVE ById(j)' = ById(j)
        OBVIOUS
    <2>2. j # i /\ \A r \in gone : r.id # j
        BY <1>2, <1>6, <2>1
    <2> QED BY <1>3, <1>5, <2>2 DEF ById
<1>9. NamesKept'
    BY <1>1, <1>2, <1>3, <1>5 DEF TenancyIInv, NamesKept
<1>10. /\ tenantRows' \subseteq TenantRow /\ \A r \in tenantRows' : r.id <= mintedOrgs
       /\ \A j \in 1..MaxOrg : (\E r \in tenantRows' : r.slug = a /\ r.id = j) => Refers(a, j)
       /\ vaultIds' \subseteq 0..MaxOrg /\ vaultIds \subseteq vaultIds'
    BY <1>2, <1>3, <1>5 DEF TenancyIInv, TenancyTypeOK, IdsMinted, Refers
<1>11. Whole(a) => Whole(a)'
    <2>1. SUFFICES ASSUME Whole(a) PROVE Whole(a)'
        OBVIOUS
    <2>2. PICK r \in tenantRows :
            BySlug(a) = {r} /\ r.id \in {0, i} /\ (r.id # 0 => ById(r.id) = {r})
        BY <1>0, <1>1, <2>1 DEF Whole
    <2>3. gone = {r} /\ ById(i) \subseteq {r}
        <3>1. CASE ById(i) = {}
            BY <1>5, <2>2, <3>1
        <3>2. CASE ById(i) # {}
            <4>1. r.id = i
                BY <1>1, <2>2, <3>2 DEF ById
            <4>2. ById(i) = {r}
                BY <1>1, <2>2, <4>1
            <4> QED BY <1>5, <2>2, <4>2
        <3> QED BY <3>1, <3>2
    <2>4. BySlug(a)' = {q}
        BY <1>3, <1>5, <2>2, <2>3 DEF BySlug
    <2>5. ById(i)' = {q}
        BY <1>3, <1>5, <2>3 DEF ById
    <2>6. ById(q.id)' = {q}
        BY <1>3, <2>5
    <2>7. q \in tenantRows' /\ orgOf'[a] = i /\ (i \in answered' => i \in vaultIds')
        BY <1>0, <1>1, <1>2, <1>5, <2>1 DEF Whole
    <2> QED BY <1>1, <1>3, <2>4, <2>6, <2>7 DEF Whole
<1> QED BY <1>1, <1>2, <1>5, <1>7, <1>8, <1>9, <1>10, <1>11, OthersOn

LEMMA TenancyStarts ==
    ASSUME TenancyInit PROVE TenancyIInv
<1>0. PICK n \in TenantNames :
        /\ orgName = [a \in Aliases |-> IF a = DefaultAlias THEN n ELSE NoName]
        /\ tenantRows = {[id |-> 0, slug |-> DefaultAlias, name |-> n]}
    BY DEF TenancyInit
<1>1. PICK q : q = [id |-> 0, slug |-> DefaultAlias, name |-> n] /\ tenantRows = {q}
    BY <1>0
<1>2. /\ orgOf = [a \in Aliases |-> IF a = DefaultAlias THEN 1 ELSE 0]
      /\ mintedOrgs = 1 /\ vaultIds = {} /\ referenced = {}
      /\ tenantCall = [c \in TenantCalls |-> NoTenantCall]
      /\ answered = {} /\ tangled = {}
    BY DEF TenancyInit
<1>3. /\ DefaultAlias \in Aliases /\ NoAlias \notin Aliases /\ n # NoName
      /\ MaxOrg \in Nat \ {0} /\ 0 \in 0..MaxOrg /\ 1 \in 0..MaxOrg
    BY TenancyAssumption
<1>4. /\ \A a \in Aliases : orgOf[a] = IF a = DefaultAlias THEN 1 ELSE 0
      /\ \A c \in TenantCalls : tenantCall[c] = NoTenantCall
      /\ q.id = 0 /\ q.slug = DefaultAlias /\ q.name = n /\ q \in TenantRow
    BY <1>1, <1>2, <1>3 DEF TenantRow
<1> HIDE DEF NoTenantCall
<1>5. TenancyTypeOK
    <2>1. tenantCall \in [TenantCalls -> TenantFrames]
        BY <1>2, NoTenantFrame
    <2> QED BY <1>0, <1>1, <1>2, <1>3, <1>4, <2>1 DEF TenancyTypeOK, TenantFrames, TenantPcs
<1>6. IdsApart
    BY <1>1, <1>3, <1>4, NoTenantFrame DEF IdsApart, Refers
<1>7. IdsMinted
    BY <1>1, <1>2, <1>4, NoTenantFrame DEF IdsMinted
<1>8. NamesKept
    BY <1>0, <1>1, <1>3, <1>4 DEF NamesKept
<1>9. CallsApart /\ \A c \in TenantCalls : CallOK(c)
    BY <1>4, NoTenantFrame DEF CallsApart, CallOK, TenantCallAt
<1>10. ASSUME NEW a \in Aliases PROVE TenantOK(a)
    <2>1. Whole(a)
        <3>1. CASE a = DefaultAlias
            BY <1>1, <1>2, <1>4, <3>1 DEF Whole, BySlug
        <3>2. CASE a # DefaultAlias
            BY <1>1, <1>2, <1>4, <3>2 DEF Whole, BySlug
        <3> QED BY <3>1, <3>2
    <2> QED BY <1>3, <1>4, <2>1, NoTenantFrame DEF TenantOK
<1> QED BY <1>5, <1>6, <1>7, <1>8, <1>9, <1>10 DEF TenancyIInv

LEMMA TenancyStep ==
    ASSUME TenancyIInv, [TenancyNext]_tenancyVars PROVE TenancyIInv'
<1>1. ASSUME NEW c \in TenantCalls,
             \/ StartCreateTenant(c) \/ CreateOrganization(c) \/ EnsureTenant(c)
             \/ ProvisionVault(c) \/ AbandonOrganization(c) \/ AnswerCreated(c)
             \/ StartDeleteTenant(c) \/ DeleteOrganization(c) \/ DeleteRow(c)
             \/ StartRenameTenant(c) \/ RenameOrganization(c) \/ RenameRow(c)
      PROVE  TenancyIInv'
    BY <1>1, CreateStarts, OrganizationIsCreated, TenantIsEnsured, VaultIsProvisioned,
       OrganizationIsAbandoned, TenantIsAnswered, DeleteStarts, OrganizationIsDeleted,
       RowIsDeleted, RenameStarts, OrganizationIsRenamed, RowIsRenamed
<1>2. CASE UNCHANGED tenancyVars
    <2>1. UNCHANGED <<orgOf, orgName, mintedOrgs, vaultIds, tenantRows, referenced, tenantCall,
                      answered, tangled>>
        BY <1>2 DEF tenancyVars, directoryOrgs, tenancyHistory
    <2> QED BY <2>1 DEF TenancyIInv, TenancyTypeOK, IdsApart, Refers, IdsMinted, NamesKept,
                        CallsApart, TenantCallAt, CallOK, TenantOK, UnderWay, Whole, HalfMade,
                        HalfGone, BySlug, ById
<1> QED BY <1>1, <1>2, DataArrives, MemberSignsIn, DefaultIsReconciled DEF TenancyNext

LEMMA TenancyHolds == TenancySpec => []TenancyIInv
    BY TenancyStarts, TenancyStep, PTL DEF TenancySpec

LEMMA WholeWhenQuiet ==
    ASSUME TenancyIInv PROVE TenantIsWhole
<1>1. ASSUME NEW a \in Quiet PROVE Whole(a) /\ a \in Aliases
    BY DEF Quiet, TenancyIInv, TenantOK
<1>2. ASSUME NEW r \in tenantRows, r.slug \in Quiet, r.id # 0 PROVE orgOf[r.slug] = r.id
    <2>1. Whole(r.slug) /\ r \in BySlug(r.slug)
        BY <1>1, <1>2 DEF BySlug
    <2> QED BY <1>2, <2>1 DEF Whole
<1>3. ASSUME NEW a \in Quiet, orgOf[a] # 0
      PROVE  \E r \in tenantRows : r.slug = a /\ r.id \in {0, orgOf[a]}
    <2>1. PICK r \in tenantRows : BySlug(a) = {r} /\ r.id \in {0, orgOf[a]}
        BY <1>1, <1>3 DEF Whole
    <2> QED BY <2>1 DEF BySlug
<1>4. ASSUME NEW a \in Quiet, orgOf[a] \in answered PROVE orgOf[a] \in vaultIds
    BY <1>1, <1>4 DEF Whole
<1> QED BY <1>2, <1>3, <1>4 DEF TenantIsWhole

\* routes/keycloak_controller.py: of an alias nobody is at work on and whose requests ended
\* well, one after the other, the directory and the table tell the same: a row is an
\* organization's under its id, an organization has its row, and a tenant that was answered
\* 201 has its Vault identity.
THEOREM TenantsAreWhole == TenancySpec => []TenantIsWhole
    BY TenancyHolds, WholeWhenQuiet, PTL

(***************************************************************************)
(* TenantRoles: the local rows of a member are what the member's groups    *)
(* grant, and what the member's token brought beyond it, except for the    *)
(* members in doubt and those that the one request under way is still to   *)
(* rewrite.                                                                *)
(***************************************************************************)

RoleFrames == [
    pc : {"idle", "joining", "checked", "losing", "creating", "written", "clearing", "listing",
          "syncing", "mirroring"},
    op : MemberOps \cup GroupOps \cup {"none", "sync"},
    group : Groups \cup {"none"}, role : Roles \cup {0}, grants : SUBSET Roles,
    queue : SUBSET Members, member : Members \cup {"none"}, desired : SUBSET Roles,
    next : 1..(MaxRole + 1), added : SUBSET Roles, known : SUBSET Groups,
    lookup : SUBSET (Groups \X Roles), alone : BOOLEAN]

\* The rows of a member are what the member's groups grant; a row beyond is the token's.
Exact(u) ==
    /\ Grants(u) \subseteq localRoles[u]
    /\ \A r \in localRoles[u] : r \in Grants(u) \/ <<u, r>> \in brought
Rewriting == {"listing", "syncing", "mirroring"}

\* What a request is about, whoever else is under way
StructOK(c) ==
    LET f == roleCall[c] IN
    /\ f.pc = "idle" => f = NoRoleCall
    /\ f.pc = "joining" => f.op = "addMember"
    /\ f.pc = "clearing" => f.op = "removeMember"
    /\ f.pc = "creating" => f.op = "create"
    /\ f.pc = "losing" => f.op = "delete"
    /\ f.pc = "checked" => f.op \in MemberOps \cup GroupOps
    /\ f.pc = "written" => f.op \in (MemberOps \ {"removeMember"}) \cup (GroupOps \ {"create"})
    /\ f.pc \in Rewriting <=> f.op = "sync"
    /\ f.op \in MemberOps => \E u \in Members : f.queue = {u}
    /\ f.op \in GroupOps \ {"delete"} \/ f.pc \in {"losing", "listing"} => f.queue = {}
    /\ f.op \in (MemberOps \ {"removeMember"}) \cup GroupOps \/ f.pc = "listing" => f.group \in Groups
    /\ f.pc \in {"syncing", "mirroring"} => f.group = "none"
    /\ f.op \in {"create", "grantRole", "removeRole"} => f.role \in Roles
    /\ f.pc = "mirroring" <=> f.member # "none"
    /\ f.added \subseteq f.desired
    /\ \A r \in f.added : r < f.next

\* What a request that is the only one leaves to be rewritten
OnlyOK(c) ==
    LET f == roleCall[c] IN
    /\ \A u \in Members \ (doubted \cup Concerned(c)) : Exact(u)
    /\ f.op = "create" /\ f.pc = "checked" => InGroup(f.group) = {}
    /\ f.op = "delete" /\ f.pc = "checked" => InGroup(f.group) \subseteq f.queue \cup doubted
    /\ f.op = "delete" /\ f.pc = "written" => InGroup(f.group) = {}
    /\ f.pc = "clearing" => f.queue \cap orgMembers = {}
    /\ f.pc \in Rewriting => /\ f.known = groups
                             /\ f.lookup = {p \in groups \X Roles : p[2] \in groupRoles[p[1]]}
    /\ f.pc = "mirroring" =>
            /\ f.desired = Grants(f.member)
            /\ \A r \in Roles : r < f.next =>
                    /\ r \in f.desired => r \in localRoles[f.member] \cup f.added
                    /\ r \in localRoles[f.member] \cup f.added =>
                            r \in f.desired \/ <<f.member, r>> \in brought

\* Requests that overlap put everybody in doubt; with no request under way every member
\* who is not in doubt is mirrored, and with one alone every member it is not concerned with.
MirrorOK ==
    /\ \A c, d \in RoleCalls : c # d /\ Busy(c) /\ Busy(d) => ~roleCall[c].alone
    /\ \A c \in RoleCalls : Busy(c) /\ ~roleCall[c].alone => doubted = Members
    /\ (\A c \in RoleCalls : ~Busy(c)) => \A u \in Members \ doubted : Exact(u)
    /\ \A c \in RoleCalls : Busy(c) /\ roleCall[c].alone => OnlyOK(c)

SessionsTyped ==
    /\ tokenGroups \in [Members -> SUBSET Groups]
    /\ brought \subseteq Members \X Roles

RolesTyped ==
    /\ SessionsTyped
    /\ orgMembers \subseteq Members
    /\ groups \subseteq Groups
    /\ inGroup \subseteq orgMembers \X groups
    /\ groupRoles \in [Groups -> SUBSET Roles]
    /\ localRoles \in [Members -> SUBSET Roles]
    /\ roleCall \in [RoleCalls -> RoleFrames]
    /\ doubted \subseteq Members

TenantRolesIInv ==
    /\ RolesTyped
    /\ \A c \in RoleCalls : StructOK(c)
    /\ MirrorOK

LEMMA NoRoleCallFrame ==
    /\ NoRoleCall \in RoleFrames
    /\ NoRoleCall.pc = "idle" /\ NoRoleCall.op = "none" /\ NoRoleCall.alone = TRUE
    /\ NoRoleCall.queue = {} /\ NoRoleCall.member = "none" /\ NoRoleCall.added = {}
    /\ NoRoleCall.group = "none" /\ NoRoleCall.desired = {}
BY TenantRolesAssumption DEF NoRoleCall, RoleFrames, Roles

LEMMA Granted ==
    ASSUME NEW u, NEW r
    PROVE  r \in Grants(u) <=> \E g \in groups : <<u, g>> \in inGroup /\ r \in groupRoles[g]
BY DEF Grants

\* Whose groups and whose groups' roles stay, stays granted the same.
LEMMA GrantsStay ==
    ASSUME RolesTyped, NEW u \in Members,
           \A g \in Groups : <<u, g>> \in inGroup' <=> <<u, g>> \in inGroup,
           \A g \in groups : <<u, g>> \in inGroup => g \in groups' /\ groupRoles'[g] = groupRoles[g],
           groups' \subseteq Groups
    PROVE  Grants(u)' = Grants(u)
<1>1. ASSUME NEW r PROVE r \in Grants(u)' <=> r \in Grants(u)
    <2>1. r \in Grants(u)' <=> \E g \in groups' : <<u, g>> \in inGroup' /\ r \in groupRoles'[g]
        BY DEF Grants
    <2>2. \A g \in Groups : <<u, g>> \in inGroup => g \in groups
        BY DEF RolesTyped
    <2> QED BY <2>1, <2>2, Granted DEF RolesTyped
<1> QED BY <1>1

LEMMA SessionsStay ==
    ASSUME RolesTyped, UNCHANGED sessions
    PROVE  SessionsTyped'
BY DEF RolesTyped, SessionsTyped, sessions

LEMMA NobodyInNone ==
    ASSUME RolesTyped
    PROVE  InGroup("none") = {} /\ \A g : g \notin groups => InGroup(g) = {}
BY TenantRolesAssumption DEF RolesTyped, InGroup

LEMMA RolesStart == TenantRolesInit => TenantRolesIInv
<1> SUFFICES ASSUME TenantRolesInit PROVE TenantRolesIInv
    OBVIOUS
<1>1. \A c \in RoleCalls : roleCall[c] = NoRoleCall
    BY DEF TenantRolesInit
<1>2. RolesTyped
    BY NoRoleCallFrame, TenantRolesAssumption
    DEF TenantRolesInit, RolesTyped, SessionsTyped, DefaultRoles
<1>3. \A c \in RoleCalls : StructOK(c)
    BY <1>1, NoRoleCallFrame DEF StructOK, Rewriting, MemberOps, GroupOps
<1>4. \A u \in Members : Exact(u)
    <2> SUFFICES ASSUME NEW u \in Members PROVE Grants(u) = {}
        BY DEF TenantRolesInit, Exact, sessions
    <2> QED BY Granted DEF TenantRolesInit
<1>5. MirrorOK
    BY <1>1, <1>4, NoRoleCallFrame DEF MirrorOK, Busy
<1> QED BY <1>2, <1>3, <1>5 DEF TenantRolesIInv

(***************************************************************************)
(* A step of one request, and what the others keep                         *)
(***************************************************************************)

\* The request has a new frame, which no other request shares.
Steps(c, frame) ==
    /\ roleCall' \in [RoleCalls -> RoleFrames]
    /\ roleCall'[c] = frame
    /\ \A d \in RoleCalls \ {c} : roleCall'[d] = roleCall[d]

LEMMA Framed ==
    ASSUME RolesTyped, NEW c \in RoleCalls, NEW frame \in RoleFrames, Frame(c, frame)
    PROVE  Steps(c, frame)
BY DEF RolesTyped, Frame, Steps

\* Of a request that was not the only one nothing is said, and while there is one that is
\* the only one there is no other.
LEMMA MirrorStep ==
    ASSUME TenantRolesIInv, NEW c \in RoleCalls, Busy(c), NEW frame \in RoleFrames, Steps(c, frame),
           frame.pc # "idle" => frame.alone = roleCall[c].alone,
           ~roleCall[c].alone => doubted \subseteq doubted', doubted' \subseteq Members,
           roleCall[c].alone /\ frame.pc # "idle" => OnlyOK(c)',
           roleCall[c].alone /\ frame.pc = "idle" => \A u \in Members \ doubted' : Exact(u)'
    PROVE  MirrorOK'
<1>1. CASE roleCall[c].alone
    <2>1. \A d \in RoleCalls \ {c} : ~Busy(d)
        BY <1>1 DEF TenantRolesIInv, MirrorOK
    <2>2. \A d \in RoleCalls \ {c} : ~Busy(d)'
        BY <2>1 DEF Steps, Busy
    <2> QED BY <1>1, <2>2 DEF MirrorOK, Busy, Steps
<1>2. CASE ~roleCall[c].alone
    <2>1. doubted = Members /\ doubted' = Members
        BY <1>2 DEF TenantRolesIInv, MirrorOK
    <2>2. \A d \in RoleCalls : Busy(d) => ~roleCall[d].alone
        BY <1>2 DEF TenantRolesIInv, MirrorOK
    <2>3. \A d \in RoleCalls : Busy(d)' => ~roleCall'[d].alone
        BY <1>2, <2>2 DEF Steps, Busy
    <2> QED BY <2>1, <2>3 DEF MirrorOK
<1> QED BY <1>1, <1>2 DEF TenantRolesIInv, RolesTyped, RoleFrames

LEMMA OthersStruct ==
    ASSUME TenantRolesIInv, NEW c \in RoleCalls, NEW frame \in RoleFrames, Steps(c, frame), StructOK(c)'
    PROVE  \A d \in RoleCalls : StructOK(d)'
<1> SUFFICES ASSUME NEW d \in RoleCalls \ {c} PROVE StructOK(d)'
    OBVIOUS
<1> QED BY DEF TenantRolesIInv, StructOK, Steps

LEMMA IdleStruct ==
    ASSUME NEW c \in RoleCalls, roleCall'[c] = NoRoleCall
    PROVE  StructOK(c)'
BY NoRoleCallFrame DEF StructOK, Rewriting, MemberOps, GroupOps

LEMMA WithAlone ==
    ASSUME NEW f \in RoleFrames, NEW b \in BOOLEAN
    PROVE  [f EXCEPT !.alone = b] \in RoleFrames
BY DEF RoleFrames

\* A request enters.
LEMMA Admitted ==
    ASSUME TenantRolesIInv, NEW c \in RoleCalls, NEW frame \in RoleFrames, Admit(c, frame),
           UNCHANGED <<organization, localRoles, sessions>>, frame.pc \in {"joining", "checked", "losing", "creating"},
           frame.op = "create" => frame.pc = "creating",
           frame.op = "delete" => frame.pc = "losing",
           frame.pc = "joining" => frame.op = "addMember",
           frame.pc = "creating" => frame.op = "create",
           frame.pc = "losing" => frame.op = "delete",
           frame.op \in MemberOps => \E u \in Members : frame.queue = {u},
           frame.op \in GroupOps => frame.queue = {},
           frame.op \in MemberOps \cup GroupOps,
           frame.op # "removeMember" => frame.group \in Groups,
           frame.op \in {"create", "grantRole", "removeRole"} => frame.role \in Roles,
           frame.member = "none", frame.added = {}
    PROVE  TenantRolesIInv'
<1>1. PICK lonely \in BOOLEAN : lonely <=> \A d \in RoleCalls : ~Busy(d)
    OBVIOUS
<1>2. PICK f \in RoleFrames : f = [frame EXCEPT !.alone = lonely]
    BY DEF RoleFrames
<1>3. /\ f.pc = frame.pc /\ f.op = frame.op /\ f.group = frame.group /\ f.queue = frame.queue
      /\ f.member = frame.member /\ f.added = frame.added /\ f.alone = lonely /\ f.role = frame.role
    BY <1>2 DEF RoleFrames
<1>4. roleCall'[c] = f
    BY <1>1, <1>2 DEF Admit
<1>5. ASSUME NEW d \in RoleCalls \ {c}
      PROVE  /\ roleCall'[d] \in RoleFrames
             /\ roleCall'[d].alone = (roleCall[d].alone /\ ~Busy(d))
             /\ ~Busy(d) => roleCall'[d] = roleCall[d]
             /\ StructOK(d)'
    <2>1. roleCall[d] \in RoleFrames /\ StructOK(d)
        BY DEF TenantRolesIInv, RolesTyped
    <2>2. roleCall'[d] = [roleCall[d] EXCEPT !.alone = @ /\ d # c /\ ~Busy(d)]
        BY DEF Admit
    <2>3. roleCall'[d] = [roleCall[d] EXCEPT !.alone = roleCall[d].alone /\ ~Busy(d)]
        BY <2>1, <2>2 DEF RoleFrames
    <2>4. PICK b \in BOOLEAN : b = (roleCall[d].alone /\ ~Busy(d))
        BY <2>1 DEF Busy, RoleFrames
    <2>5. PICK g \in RoleFrames : g = [roleCall[d] EXCEPT !.alone = b]
        BY <2>1, WithAlone
    <2>6. /\ g.alone = b /\ g.pc = roleCall[d].pc /\ g.op = roleCall[d].op
          /\ g.group = roleCall[d].group /\ g.queue = roleCall[d].queue /\ g.member = roleCall[d].member
          /\ g.role = roleCall[d].role /\ g.added = roleCall[d].added /\ g.desired = roleCall[d].desired /\ g.next = roleCall[d].next
        BY <2>1, <2>5 DEF RoleFrames
    <2>7. roleCall'[d] = g
        BY <2>3, <2>4, <2>5
    <2>9. ~Busy(d) => roleCall'[d] = roleCall[d]
        <3>1. ASSUME ~Busy(d) PROVE b = roleCall[d].alone
            BY <3>1, <2>4, <2>1, NoRoleCallFrame DEF StructOK, Busy, RoleFrames
        <3>2. ASSUME b = roleCall[d].alone PROVE g = roleCall[d]
            BY <3>2, <2>1, <2>5 DEF RoleFrames
        <3> QED BY <3>1, <3>2, <2>7
    <2>8. StructOK(d)'
        <3>1. CASE Busy(d)
            BY <3>1, <2>1, <2>6, <2>7 DEF StructOK, Busy
        <3>2. CASE ~Busy(d)
            BY <3>2, <2>1, <2>9 DEF StructOK
        <3> QED BY <3>1, <3>2
    <2> QED BY <2>4, <2>6, <2>7, <2>8, <2>9
<1>6. StructOK(c)'
    BY <1>3, <1>4 DEF StructOK, Rewriting, MemberOps, GroupOps
<1>7. doubted' = IF lonely THEN doubted ELSE Members
    BY <1>1 DEF Admit
<1>8. roleCall' \in [RoleCalls -> RoleFrames]
    <2>1. \A d \in RoleCalls : roleCall'[d] \in RoleFrames
        BY <1>4, <1>5
    <2>2. DOMAIN roleCall' = RoleCalls /\ roleCall' = [d \in RoleCalls |-> roleCall'[d]]
        BY DEF Admit
    <2> QED BY <2>1, <2>2
<1>9. RolesTyped'
    BY <1>7, <1>8, SessionsStay DEF TenantRolesIInv, RolesTyped, organization
<1>10. ~Busy(c) /\ Busy(c)'
    BY <1>3, <1>4 DEF Admit, Busy
<1>11. MirrorOK'
    <2>1. CASE lonely
        <3>1. \A d \in RoleCalls \ {c} : ~Busy(d)'
            BY <1>1, <1>5, <2>1 DEF Busy
        <3>2. \A u \in Members \ doubted' : Exact(u)'
            <4>1. \A u \in Members \ doubted : Exact(u)
                BY <1>1, <2>1 DEF TenantRolesIInv, MirrorOK
            <4>2. \A u : Exact(u)' <=> Exact(u)
                BY DEF organization, Exact, sessions, Grants
            <4> QED BY <1>7, <2>1, <4>1, <4>2
        <3>3. OnlyOK(c)'
            BY <1>3, <1>4, <3>2 DEF OnlyOK, Rewriting
        <3> QED BY <3>1, <3>3, <1>3, <1>4, <1>10, <2>1 DEF MirrorOK
    <2>2. CASE ~lonely
        <3>1. \A d \in RoleCalls : Busy(d)' => ~roleCall'[d].alone
            BY <1>3, <1>4, <1>5, <2>2 DEF Busy
        <3> QED BY <3>1, <2>2, <1>7, <1>10 DEF MirrorOK
    <2> QED BY <2>1, <2>2
<1> QED BY <1>5, <1>6, <1>9, <1>11 DEF TenantRolesIInv

LEMMA MemberCallOK ==
    ASSUME TenantRolesIInv, NEW c \in RoleCalls, NEW op \in MemberOps, NEW u \in Members,
           NEW g \in Groups \cup {"none"}, op # "removeMember" => g \in Groups,
           NEW r \in Roles \cup {0}, op = "removeRole" => r \in Roles, StartMemberCall(c, op, u, g, r)
    PROVE  TenantRolesIInv'
<1>1. PICK pc \in {"joining", "checked"} : pc = IF op = "addMember" THEN "joining" ELSE "checked"
    OBVIOUS
<1>2. PICK f \in RoleFrames :
          f = [NoRoleCall EXCEPT !.pc = pc, !.op = op, !.queue = {u}, !.group = g, !.role = r]
    <2>1. PICK queue \in SUBSET Members : queue = {u}
        OBVIOUS
    <2>2. [NoRoleCall EXCEPT !.pc = pc, !.op = op, !.queue = queue, !.group = g, !.role = r] \in RoleFrames
        BY NoRoleCallFrame DEF RoleFrames
    <2> QED BY <2>1, <2>2
<1>3. /\ f.pc = pc /\ f.op = op /\ f.queue = {u} /\ f.group = g /\ f.member = "none"
      /\ f.added = {} /\ f.role = r
    BY <1>2 DEF NoRoleCall
<1>4. Admit(c, f) /\ UNCHANGED <<organization, localRoles, sessions>>
    BY <1>1, <1>2 DEF StartMemberCall
<1> QED BY <1>1, <1>3, <1>4, Admitted DEF MemberOps, GroupOps

LEMMA GroupCallOK ==
    ASSUME TenantRolesIInv, NEW c \in RoleCalls, NEW op \in {"grantRole", "dropRole", "rename"},
           NEW g \in Groups, NEW r \in Roles \cup {0}, op = "grantRole" => r \in Roles,
           StartGroupCall(c, op, g, r)
    PROVE  TenantRolesIInv'
<1>1. PICK grants \in SUBSET Roles : grants = groupRoles[g]
    BY DEF TenantRolesIInv, RolesTyped
<1>2. PICK f \in RoleFrames :
          f = [NoRoleCall EXCEPT !.pc = "checked", !.op = op, !.group = g, !.role = r, !.grants = grants]
    BY NoRoleCallFrame DEF RoleFrames, GroupOps
<1>3. /\ f.pc = "checked" /\ f.op = op /\ f.queue = {} /\ f.group = g /\ f.member = "none"
      /\ f.added = {} /\ f.role = r
    BY <1>2 DEF NoRoleCall
<1>4. Admit(c, f) /\ UNCHANGED <<organization, localRoles, sessions>>
    BY <1>1, <1>2 DEF StartGroupCall
<1> QED BY <1>3, <1>4, Admitted DEF MemberOps, GroupOps

LEMMA StartDeleteGroupOK ==
    ASSUME TenantRolesIInv, NEW c \in RoleCalls, StartDeleteGroup(c)
    PROVE  TenantRolesIInv'
<1>1. PICK g \in groups :
          Admit(c, [NoRoleCall EXCEPT !.pc = "losing", !.op = "delete", !.group = g])
    BY DEF StartDeleteGroup
<1>2. PICK f \in RoleFrames : f = [NoRoleCall EXCEPT !.pc = "losing", !.op = "delete", !.group = g]
    BY NoRoleCallFrame DEF RoleFrames, GroupOps, TenantRolesIInv, RolesTyped
<1>3. f.pc = "losing" /\ f.op = "delete" /\ f.queue = {} /\ f.group = g /\ f.member = "none" /\ f.added = {}
    BY <1>2 DEF NoRoleCall
<1> QED BY <1>1, <1>2, <1>3, Admitted DEF MemberOps, GroupOps, StartDeleteGroup, TenantRolesIInv, RolesTyped

LEMMA StartCreateGroupOK ==
    ASSUME TenantRolesIInv, NEW c \in RoleCalls, StartCreateGroup(c)
    PROVE  TenantRolesIInv'
<1>1. PICK g \in Groups \ groups, r \in Roles :
          Admit(c, [NoRoleCall EXCEPT !.pc = "creating", !.op = "create", !.group = g, !.role = r])
    BY DEF StartCreateGroup
<1>2. PICK f \in RoleFrames :
          f = [NoRoleCall EXCEPT !.pc = "creating", !.op = "create", !.group = g, !.role = r]
    BY NoRoleCallFrame DEF RoleFrames, GroupOps
<1>3. /\ f.pc = "creating" /\ f.op = "create" /\ f.queue = {} /\ f.group = g /\ f.member = "none"
      /\ f.added = {} /\ f.role = r
    BY <1>2 DEF NoRoleCall
<1> QED BY <1>1, <1>2, <1>3, Admitted DEF MemberOps, GroupOps, StartCreateGroup

\* A request that is under way goes on or ends: what is left to show of it
LEMMA WentOn ==
    ASSUME TenantRolesIInv, NEW c \in RoleCalls, Busy(c), NEW f \in RoleFrames, Frame(c, f),
           orgMembers' \subseteq Members, groups' \subseteq Groups, inGroup' \subseteq orgMembers' \X groups',
           groupRoles' \in [Groups -> SUBSET Roles], localRoles' \in [Members -> SUBSET Roles],
           SessionsTyped', doubted' \subseteq Members,
           StructOK(c)', f.pc # "idle" => f.alone = roleCall[c].alone,
           ~roleCall[c].alone => doubted \subseteq doubted',
           roleCall[c].alone /\ f.pc # "idle" => OnlyOK(c)',
           roleCall[c].alone /\ f.pc = "idle" => \A u \in Members \ doubted' : Exact(u)'
    PROVE  TenantRolesIInv'
<1>1. Steps(c, f)
    BY Framed DEF TenantRolesIInv
<1>2. RolesTyped'
    BY <1>1 DEF RolesTyped, Steps
<1>3. \A d \in RoleCalls : StructOK(d)'
    BY <1>1, OthersStruct
<1>4. MirrorOK'
    BY <1>1, MirrorStep
<1> QED BY <1>2, <1>3, <1>4 DEF TenantRolesIInv

LEMMA JoinOrganizationOK ==
    ASSUME TenantRolesIInv, NEW c \in RoleCalls, JoinOrganization(c)
    PROVE  TenantRolesIInv'
<1>1. roleCall[c] \in RoleFrames /\ RolesTyped /\ StructOK(c) /\ roleCall[c].pc = "joining" /\ Busy(c)
    BY DEF TenantRolesIInv, RolesTyped, JoinOrganization, RoleAt, Busy
<1>2. PICK f \in RoleFrames : f = [roleCall[c] EXCEPT !.pc = "checked"]
    BY <1>1 DEF RoleFrames
<1>3. /\ f.pc = "checked" /\ f.op = roleCall[c].op /\ f.group = roleCall[c].group
      /\ f.queue = roleCall[c].queue /\ f.member = roleCall[c].member /\ f.added = roleCall[c].added
      /\ f.desired = roleCall[c].desired /\ f.next = roleCall[c].next /\ f.alone = roleCall[c].alone
    BY <1>1, <1>2 DEF RoleFrames
<1>4. /\ Frame(c, f) /\ UNCHANGED <<groups, inGroup, groupRoles, localRoles, doubted, sessions>>
      /\ orgMembers' = orgMembers \cup roleCall[c].queue
    BY <1>2 DEF JoinOrganization
<1>5. roleCall'[c] = f
    BY <1>1, <1>4 DEF Frame, RolesTyped
<1>6. StructOK(c)'
    BY <1>1, <1>3, <1>5 DEF StructOK, Rewriting, MemberOps, GroupOps
<1>7. roleCall[c].alone => OnlyOK(c)'
    <2>1. ASSUME roleCall[c].alone
          PROVE  \A u \in Members \ (doubted \cup Concerned(c)) : Exact(u)
        BY <2>1, <1>1 DEF TenantRolesIInv, MirrorOK, OnlyOK
    <2>2. Concerned(c)' = Concerned(c)
        BY <1>3, <1>4, <1>5 DEF Concerned, InGroup
    <2>3. ASSUME NEW u PROVE Exact(u)' <=> Exact(u)
        BY <1>4 DEF Exact, sessions, Grants
    <2> QED BY <2>1, <2>2, <2>3, <1>1, <1>3, <1>4, <1>5 DEF OnlyOK, Rewriting, StructOK
<1> QED BY <1>1, <1>3, <1>4, <1>6, <1>7, WentOn, SessionsStay DEF RolesTyped, RoleFrames

LEMMA PutGroupMemberOK ==
    ASSUME TenantRolesIInv, NEW c \in RoleCalls, PutGroupMember(c)
    PROVE  TenantRolesIInv'
<1>1. /\ roleCall[c] \in RoleFrames /\ RolesTyped /\ StructOK(c) /\ roleCall[c].pc = "checked" /\ Busy(c)
      /\ roleCall[c].op \in {"addMember", "addToGroup", "assignRole"}
    BY DEF TenantRolesIInv, RolesTyped, PutGroupMember, RoleAt, Busy
<1>2. PICK g \in Groups : g = roleCall[c].group
    BY <1>1 DEF StructOK, MemberOps
<1>3. PICK f \in RoleFrames : f = [roleCall[c] EXCEPT !.pc = "written"]
    BY <1>1 DEF RoleFrames
<1>4. /\ f.pc = "written" /\ f.op = roleCall[c].op /\ f.group = g
      /\ f.queue = roleCall[c].queue /\ f.member = roleCall[c].member /\ f.added = roleCall[c].added
      /\ f.desired = roleCall[c].desired /\ f.next = roleCall[c].next /\ f.alone = roleCall[c].alone
    BY <1>1, <1>2, <1>3 DEF RoleFrames
<1>5. /\ Frame(c, f) /\ UNCHANGED <<orgMembers, localRoles, doubted, sessions>>
      /\ roleCall[c].queue \subseteq orgMembers /\ groups' = groups \cup {g}
      /\ groupRoles' = IF g \in groups THEN groupRoles ELSE [groupRoles EXCEPT ![g] = DefaultRoles(g)]
      /\ inGroup' = inGroup \cup (roleCall[c].queue \X {g})
    BY <1>2, <1>3 DEF PutGroupMember
<1>6. roleCall'[c] = f
    BY <1>1, <1>5 DEF Frame, RolesTyped
<1>7. StructOK(c)'
    BY <1>1, <1>4, <1>6 DEF StructOK, Rewriting, MemberOps, GroupOps
<1>8. /\ groupRoles' \in [Groups -> SUBSET Roles]
      /\ \A h \in groups : groupRoles'[h] = groupRoles[h]
    BY <1>1, <1>5 DEF RolesTyped, DefaultRoles
<1>9. roleCall[c].alone => OnlyOK(c)'
    <2>1. ASSUME roleCall[c].alone
          PROVE  \A u \in Members \ (doubted \cup Concerned(c)) : Exact(u)
        BY <2>1, <1>1 DEF TenantRolesIInv, MirrorOK, OnlyOK
    <2>2. Concerned(c)' = Concerned(c)
        BY <1>1, <1>4, <1>6 DEF Concerned, MemberOps
    <2>3. ASSUME NEW u \in Members \ Concerned(c) PROVE Exact(u)' <=> Exact(u)
        <3>1. u \notin roleCall[c].queue
            BY DEF Concerned
        <3>2. Grants(u)' = Grants(u)
            BY <1>1, <1>5, <1>8, <3>1, GrantsStay DEF RolesTyped
        <3> QED BY <1>5, <3>2 DEF Exact, sessions
    <2> QED BY <2>1, <2>2, <2>3, <1>1, <1>4, <1>5, <1>6 DEF OnlyOK, Rewriting, MemberOps
<1>10. inGroup' \subseteq orgMembers' \X groups' /\ groups' \subseteq Groups
    BY <1>1, <1>5 DEF RolesTyped
<1> QED BY <1>1, <1>4, <1>5, <1>7, <1>8, <1>9, <1>10, WentOn, SessionsStay DEF RolesTyped

LEMMA DeleteGroupMemberOK ==
    ASSUME TenantRolesIInv, NEW c \in RoleCalls, DeleteGroupMember(c)
    PROVE  TenantRolesIInv'
<1>1. /\ roleCall[c] \in RoleFrames /\ RolesTyped /\ StructOK(c) /\ roleCall[c].pc = "checked" /\ Busy(c)
      /\ roleCall[c].op \in {"removeFromGroup", "removeRole"}
    BY DEF TenantRolesIInv, RolesTyped, DeleteGroupMember, RoleAt, Busy
<1>2. PICK g \in Groups : g = roleCall[c].group
    BY <1>1 DEF StructOK, MemberOps
<1>3. PICK f \in RoleFrames :
        /\ Frame(c, f)
        /\ \/ roleCall[c].op = "removeFromGroup" /\ f = [roleCall[c] EXCEPT !.pc = "written"]
           \/ /\ roleCall[c].op = "removeRole"
              /\ f = [roleCall[c] EXCEPT !.op = "removeFromGroup",
                                         !.group = NamedAfter[roleCall[c].role], !.role = 0]
    <2>1. CASE roleCall[c].op = "removeFromGroup"
        <3>1. [roleCall[c] EXCEPT !.pc = "written"] \in RoleFrames
            BY <1>1 DEF RoleFrames
        <3> QED BY <2>1, <3>1 DEF DeleteGroupMember
    <2>2. CASE roleCall[c].op = "removeRole"
        <3>1. roleCall[c].role \in Roles /\ NamedAfter[roleCall[c].role] \in Groups
            BY <1>1, <2>2, TenantRolesAssumption DEF StructOK
        <3>2. [roleCall[c] EXCEPT !.op = "removeFromGroup",
                                  !.group = NamedAfter[roleCall[c].role], !.role = 0] \in RoleFrames
            BY <1>1, <3>1 DEF RoleFrames, MemberOps
        <3> QED BY <2>2, <3>2 DEF DeleteGroupMember
    <2> QED BY <1>1, <2>1, <2>2
<1>4. /\ f.pc \in {"written", "checked"} /\ f.op = "removeFromGroup" /\ f.group \in Groups
      /\ f.queue = roleCall[c].queue /\ f.member = roleCall[c].member /\ f.added = roleCall[c].added
      /\ f.desired = roleCall[c].desired /\ f.next = roleCall[c].next /\ f.alone = roleCall[c].alone
    <2>1. CASE roleCall[c].op = "removeFromGroup"
        BY <1>1, <1>2, <1>3, <2>1 DEF RoleFrames
    <2>2. CASE roleCall[c].op = "removeRole"
        <3>1. PICK h \in Groups : h = NamedAfter[roleCall[c].role]
            BY <1>1, <2>2, TenantRolesAssumption DEF StructOK
        <3>2. f = [roleCall[c] EXCEPT !.op = "removeFromGroup", !.group = h, !.role = 0]
            BY <1>3, <2>2, <3>1
        <3> QED BY <1>1, <3>1, <3>2 DEF RoleFrames
    <2> QED BY <1>1, <2>1, <2>2
<1>5. /\ Frame(c, f) /\ UNCHANGED <<orgMembers, groups, groupRoles, localRoles, doubted, sessions>>
      /\ inGroup' = inGroup \ (roleCall[c].queue \X {g})
    BY <1>2, <1>3 DEF DeleteGroupMember
<1>6. roleCall'[c] = f
    BY <1>1, <1>5 DEF Frame, RolesTyped
<1>7. StructOK(c)'
    BY <1>1, <1>4, <1>6 DEF StructOK, Rewriting, MemberOps, GroupOps
<1>9. roleCall[c].alone => OnlyOK(c)'
    <2>1. ASSUME roleCall[c].alone
          PROVE  \A u \in Members \ (doubted \cup Concerned(c)) : Exact(u)
        BY <2>1, <1>1 DEF TenantRolesIInv, MirrorOK, OnlyOK
    <2>2. Concerned(c)' = Concerned(c)
        BY <1>1, <1>4, <1>6 DEF Concerned, MemberOps
    <2>3. ASSUME NEW u \in Members \ Concerned(c) PROVE Exact(u)' <=> Exact(u)
        <3>1. u \notin roleCall[c].queue
            BY DEF Concerned
        <3>2. Grants(u)' = Grants(u)
            BY <1>1, <1>5, <3>1, GrantsStay DEF RolesTyped
        <3> QED BY <1>5, <3>2 DEF Exact, sessions
    <2> QED BY <2>1, <2>2, <2>3, <1>1, <1>4, <1>5, <1>6 DEF OnlyOK, Rewriting, MemberOps
<1> QED BY <1>1, <1>4, <1>5, <1>7, <1>9, WentOn, SessionsStay DEF RolesTyped

LEMMA LeaveOrganizationOK ==
    ASSUME TenantRolesIInv, NEW c \in RoleCalls, LeaveOrganization(c)
    PROVE  TenantRolesIInv'
<1>1. /\ roleCall[c] \in RoleFrames /\ RolesTyped /\ StructOK(c) /\ roleCall[c].pc = "checked" /\ Busy(c)
      /\ roleCall[c].op = "removeMember"
    BY DEF TenantRolesIInv, RolesTyped, LeaveOrganization, RoleAt, Busy
<1>3. PICK f \in RoleFrames : f = [roleCall[c] EXCEPT !.pc = "clearing"]
    BY <1>1 DEF RoleFrames
<1>4. /\ f.pc = "clearing" /\ f.op = roleCall[c].op /\ f.group = roleCall[c].group
      /\ f.queue = roleCall[c].queue /\ f.member = roleCall[c].member /\ f.added = roleCall[c].added
      /\ f.desired = roleCall[c].desired /\ f.next = roleCall[c].next /\ f.alone = roleCall[c].alone
    BY <1>1, <1>3 DEF RoleFrames
<1>5. /\ Frame(c, f) /\ UNCHANGED <<groups, groupRoles, localRoles, doubted, sessions>>
      /\ orgMembers' = orgMembers \ roleCall[c].queue
      /\ inGroup' = {m \in inGroup : m[1] \notin roleCall[c].queue}
    BY <1>3 DEF LeaveOrganization
<1>6. roleCall'[c] = f
    BY <1>1, <1>5 DEF Frame, RolesTyped
<1>7. StructOK(c)'
    BY <1>1, <1>4, <1>6 DEF StructOK, Rewriting, MemberOps, GroupOps
<1>9. roleCall[c].alone => OnlyOK(c)'
    <2>1. ASSUME roleCall[c].alone
          PROVE  \A u \in Members \ (doubted \cup Concerned(c)) : Exact(u)
        BY <2>1, <1>1 DEF TenantRolesIInv, MirrorOK, OnlyOK
    <2>2. Concerned(c)' = Concerned(c)
        BY <1>1, <1>4, <1>6 DEF Concerned, MemberOps
    <2>3. ASSUME NEW u \in Members \ Concerned(c) PROVE Exact(u)' <=> Exact(u)
        <3>1. u \notin roleCall[c].queue
            BY DEF Concerned
        <3>2. Grants(u)' = Grants(u)
            BY <1>1, <1>5, <3>1, GrantsStay DEF RolesTyped
        <3> QED BY <1>5, <3>2 DEF Exact, sessions
    <2> QED BY <2>1, <2>2, <2>3, <1>1, <1>4, <1>5, <1>6 DEF OnlyOK, Rewriting, MemberOps
<1>10. inGroup' \subseteq orgMembers' \X groups' /\ orgMembers' \subseteq Members
    BY <1>1, <1>5 DEF RolesTyped
<1> QED BY <1>1, <1>4, <1>5, <1>7, <1>9, <1>10, WentOn, SessionsStay DEF RolesTyped

LEMMA ClearAssignmentsOK ==
    ASSUME TenantRolesIInv, NEW c \in RoleCalls, ClearAssignments(c)
    PROVE  TenantRolesIInv'
<1>1. /\ roleCall[c] \in RoleFrames /\ RolesTyped /\ StructOK(c) /\ Busy(c)
      /\ roleCall[c].pc = "clearing" /\ roleCall[c].op = "removeMember"
    BY DEF TenantRolesIInv, RolesTyped, ClearAssignments, RoleAt, Busy, StructOK
<1>2. roleCall[c].alone => OnlyOK(c)
    BY <1>1 DEF TenantRolesIInv, MirrorOK
<1>3. PICK u \in Members : roleCall[c].queue = {u}
    BY <1>1 DEF StructOK, MemberOps
<1>4. /\ localRoles' = [localRoles EXCEPT ![u] = {}] /\ Frame(c, NoRoleCall)
      /\ UNCHANGED <<organization, tokenGroups>> /\ brought' = {b \in brought : b[1] # u}
      /\ doubted' = IF roleCall[c].alone THEN doubted \ {u} ELSE doubted
    BY <1>3 DEF ClearAssignments, Settle
<1>5. roleCall'[c] = NoRoleCall /\ StructOK(c)'
    BY <1>1, <1>4, IdleStruct DEF Frame, RolesTyped
<1>6. roleCall[c].alone => \A v \in Members \ doubted' : Exact(v)'
    <2> SUFFICES ASSUME roleCall[c].alone, NEW v \in Members \ doubted' PROVE Exact(v)'
        OBVIOUS
    <2>1. Grants(v)' = Grants(v)
        BY <1>4 DEF organization, Grants
    <2>2. CASE v = u
        <3>1. u \notin orgMembers
            BY <1>1, <1>2, <1>3 DEF OnlyOK
        <3>2. Grants(u) = {}
            <4>1. \A g \in groups : <<u, g>> \notin inGroup
                BY <1>1, <3>1 DEF RolesTyped
            <4> QED BY <4>1 DEF Grants
        <3> QED BY <1>1, <1>4, <2>1, <2>2, <3>2 DEF Exact, sessions, RolesTyped
    <2>3. CASE v # u
        <3>1. v \notin doubted \cup Concerned(c)
            <4>1. roleCall[c].member = "none"
                BY <1>1 DEF StructOK, RoleFrames
            <4> QED BY <1>1, <1>3, <1>4, <2>3, <4>1 DEF Concerned, MemberOps
        <3> QED BY <1>1, <1>2, <1>4, <2>1, <2>3, <3>1 DEF OnlyOK, Exact, sessions, RolesTyped
    <2> QED BY <2>2, <2>3
<1>7. SessionsTyped'
    BY <1>1, <1>4 DEF RolesTyped, SessionsTyped
<1> QED BY <1>1, <1>4, <1>5, <1>6, <1>7, NoRoleCallFrame, WentOn DEF RolesTyped, organization

LEMMA ListLosersOK ==
    ASSUME TenantRolesIInv, NEW c \in RoleCalls, ListLosers(c)
    PROVE  TenantRolesIInv'
<1>1. /\ roleCall[c] \in RoleFrames /\ RolesTyped /\ StructOK(c) /\ Busy(c)
      /\ roleCall[c].pc = "losing" /\ roleCall[c].op = "delete" /\ roleCall[c].queue = {}
    BY DEF TenantRolesIInv, RolesTyped, ListLosers, RoleAt, Busy, StructOK, ListGroup
<1>2. roleCall[c].alone => OnlyOK(c)
    BY <1>1 DEF TenantRolesIInv, MirrorOK
<1>3. PICK g \in Groups : g = roleCall[c].group
    BY <1>1 DEF StructOK, MemberOps, GroupOps
<1>4. PICK listed \in SUBSET Members :
        /\ listed \subseteq InGroup(g)
        /\ doubted' = doubted \cup (InGroup(g) \ listed)
        /\ Frame(c, [roleCall[c] EXCEPT !.queue = listed, !.pc = "checked", !.group = g])
        /\ UNCHANGED <<organization, localRoles, sessions>>
    BY <1>3 DEF ListLosers, ListGroup, Listed
<1>5. PICK f \in RoleFrames : f = [roleCall[c] EXCEPT !.queue = listed, !.pc = "checked", !.group = g]
    BY <1>1 DEF RoleFrames
<1>6. /\ Frame(c, f)
      /\ f.pc = "checked" /\ f.op = roleCall[c].op /\ f.group = g
      /\ f.queue = listed /\ f.member = roleCall[c].member /\ f.added = roleCall[c].added
      /\ f.desired = roleCall[c].desired /\ f.next = roleCall[c].next /\ f.alone = roleCall[c].alone
      /\ f.known = roleCall[c].known /\ f.lookup = roleCall[c].lookup /\ f.role = roleCall[c].role
    BY <1>1, <1>4, <1>5 DEF RoleFrames
<1>7. roleCall'[c] = f
    BY <1>1, <1>6 DEF Frame, RolesTyped
<1>8. StructOK(c)'
    BY <1>1, <1>6, <1>7 DEF StructOK, Rewriting, MemberOps, GroupOps
<1>9. doubted' \subseteq Members /\ doubted \subseteq doubted'
    BY <1>1, <1>4 DEF RolesTyped, InGroup
<1>10. roleCall[c].alone => OnlyOK(c)'
    <2>1. InGroup(g)' = InGroup(g)
        BY <1>4 DEF InGroup, organization
    <2>2. Concerned(c) = InGroup(g) /\ Concerned(c)' = listed \cup InGroup(g)'
        <3>1. roleCall[c].member = "none" /\ roleCall'[c].group = g
            BY <1>1, <1>6, <1>7 DEF StructOK, RoleFrames
        <3> QED BY <1>1, <1>3, <1>6, <1>7, <3>1 DEF Concerned, MemberOps, InGroup
    <2>3. \A u : Exact(u)' <=> Exact(u)
        BY <1>4 DEF Exact, sessions, Grants, organization
    <2>4. InGroup(roleCall[c].group)' = InGroup(g)
        BY <2>1, <1>6, <1>7 DEF InGroup
    <2> QED BY <1>1, <1>2, <1>4, <1>6, <1>7, <1>9, <2>1, <2>2, <2>3, <2>4 DEF OnlyOK, Rewriting
<1> QED BY <1>1, <1>4, <1>6, <1>8, <1>9, <1>10, WentOn, SessionsStay DEF RolesTyped, organization

LEMMA ListGroupMembersOK ==
    ASSUME TenantRolesIInv, NEW c \in RoleCalls, ListGroupMembers(c)
    PROVE  TenantRolesIInv'
<1>1. /\ roleCall[c] \in RoleFrames /\ RolesTyped /\ StructOK(c) /\ Busy(c)
      /\ roleCall[c].pc = "listing" /\ roleCall[c].op = "sync" /\ roleCall[c].queue = {}
    BY DEF TenantRolesIInv, RolesTyped, ListGroupMembers, RoleAt, Busy, StructOK, ListGroup, Rewriting
<1>2. roleCall[c].alone => OnlyOK(c)
    BY <1>1 DEF TenantRolesIInv, MirrorOK
<1>3. PICK g \in Groups : g = roleCall[c].group
    BY <1>1 DEF StructOK
<1>4. PICK listed \in SUBSET Members :
        /\ listed \subseteq InGroup(g)
        /\ doubted' = doubted \cup (InGroup(g) \ listed)
        /\ Frame(c, [roleCall[c] EXCEPT !.queue = listed, !.pc = "syncing", !.group = "none"])
        /\ UNCHANGED <<organization, localRoles, sessions>>
    BY <1>3 DEF ListGroupMembers, ListGroup, Listed
<1>5. PICK f \in RoleFrames : f = [roleCall[c] EXCEPT !.queue = listed, !.pc = "syncing", !.group = "none"]
    BY <1>1 DEF RoleFrames
<1>6. /\ Frame(c, f)
      /\ f.pc = "syncing" /\ f.op = roleCall[c].op /\ f.group = "none"
      /\ f.queue = listed /\ f.member = roleCall[c].member /\ f.added = roleCall[c].added
      /\ f.desired = roleCall[c].desired /\ f.next = roleCall[c].next /\ f.alone = roleCall[c].alone
      /\ f.known = roleCall[c].known /\ f.lookup = roleCall[c].lookup /\ f.role = roleCall[c].role
    BY <1>1, <1>4, <1>5 DEF RoleFrames
<1>7. roleCall'[c] = f
    BY <1>1, <1>6 DEF Frame, RolesTyped
<1>8. StructOK(c)'
    BY <1>1, <1>6, <1>7 DEF StructOK, Rewriting, MemberOps, GroupOps
<1>9. doubted' \subseteq Members /\ doubted \subseteq doubted'
    BY <1>1, <1>4 DEF RolesTyped, InGroup
<1>10. roleCall[c].alone => OnlyOK(c)'
    <2>2. Concerned(c) = InGroup(g) /\ listed \subseteq Concerned(c)'
        <3>1. roleCall[c].member = "none"
            BY <1>1 DEF StructOK, RoleFrames
        <3> QED BY <1>1, <1>3, <1>6, <1>7, <3>1 DEF Concerned, MemberOps, InGroup
    <2>3. \A u : Exact(u)' <=> Exact(u)
        BY <1>4 DEF Exact, sessions, Grants, organization
    <2> QED BY <1>1, <1>2, <1>4, <1>6, <1>7, <1>9, <2>2, <2>3 DEF OnlyOK, Rewriting, organization
<1> QED BY <1>1, <1>4, <1>6, <1>8, <1>9, <1>10, WentOn, SessionsStay DEF RolesTyped, organization

LEMMA CreateTenantGroupOK ==
    ASSUME TenantRolesIInv, NEW c \in RoleCalls, CreateTenantGroup(c)
    PROVE  TenantRolesIInv'
<1>1. /\ roleCall[c] \in RoleFrames /\ RolesTyped /\ StructOK(c) /\ Busy(c)
      /\ roleCall[c].pc = "creating" /\ roleCall[c].op = "create"
    BY DEF TenantRolesIInv, RolesTyped, CreateTenantGroup, RoleAt, Busy, StructOK
<1>2. roleCall[c].alone => OnlyOK(c)
    BY <1>1 DEF TenantRolesIInv, MirrorOK
<1>3. PICK g \in Groups : g = roleCall[c].group
    BY <1>1 DEF StructOK, MemberOps, GroupOps
<1>4. PICK f \in RoleFrames : f = [roleCall[c] EXCEPT !.pc = "checked"]
    BY <1>1 DEF RoleFrames
<1>5. /\ Frame(c, f) /\ g \notin groups /\ groups' = groups \cup {g}
      /\ groupRoles' = [groupRoles EXCEPT ![g] = DefaultRoles(g)]
      /\ UNCHANGED <<orgMembers, inGroup, localRoles, doubted, sessions>>
    BY <1>3, <1>4 DEF CreateTenantGroup
<1>6. /\ roleCall'[c] = f
      /\ f.pc = "checked" /\ f.op = roleCall[c].op /\ f.group = g
      /\ f.queue = roleCall[c].queue /\ f.member = roleCall[c].member /\ f.added = roleCall[c].added
      /\ f.desired = roleCall[c].desired /\ f.next = roleCall[c].next /\ f.alone = roleCall[c].alone
      /\ f.known = roleCall[c].known /\ f.lookup = roleCall[c].lookup /\ f.role = roleCall[c].role
    BY <1>1, <1>3, <1>4, <1>5 DEF Frame, RolesTyped, RoleFrames
<1>7. StructOK(c)'
    BY <1>1, <1>6 DEF StructOK, Rewriting, MemberOps, GroupOps
<1>8. /\ groupRoles' \in [Groups -> SUBSET Roles] /\ \A h \in groups : groupRoles'[h] = groupRoles[h]
      /\ inGroup' \subseteq orgMembers' \X groups' /\ groups' \subseteq Groups
    BY <1>1, <1>5 DEF RolesTyped, DefaultRoles
<1>9. roleCall[c].alone => OnlyOK(c)'
    <2>1. InGroup(g) = {} /\ InGroup(roleCall[c].group)' = {}
        BY <1>1, <1>5, <1>6, NobodyInNone DEF InGroup
    <2>2. Concerned(c)' = Concerned(c)
        BY <1>1, <1>3, <1>5, <1>6 DEF Concerned, InGroup
    <2>3. ASSUME NEW u \in Members PROVE Exact(u)' <=> Exact(u)
        <3>2. Grants(u)' = Grants(u)
            BY <1>1, <1>5, <1>8, GrantsStay DEF RolesTyped
        <3> QED BY <1>5, <3>2 DEF Exact, sessions
    <2> QED BY <1>1, <1>2, <1>5, <1>6, <2>1, <2>2, <2>3 DEF OnlyOK, Rewriting
<1> QED BY <1>1, <1>5, <1>6, <1>7, <1>8, <1>9, WentOn, SessionsStay DEF RolesTyped

LEMMA PutGroupRolesOK ==
    ASSUME TenantRolesIInv, NEW c \in RoleCalls, PutGroupRoles(c)
    PROVE  TenantRolesIInv'
<1>1. /\ roleCall[c] \in RoleFrames /\ RolesTyped /\ StructOK(c) /\ Busy(c)
      /\ roleCall[c].pc = "checked" /\ roleCall[c].queue = {} /\ roleCall[c].member = "none"
      /\ roleCall[c].op \in {"create", "grantRole", "dropRole"}
    BY DEF TenantRolesIInv, RolesTyped, PutGroupRoles, RoleAt, Busy, StructOK, RoleFrames, GroupOps
<1>2. roleCall[c].alone => OnlyOK(c)
    BY <1>1 DEF TenantRolesIInv, MirrorOK
<1>3. PICK g \in Groups : g = roleCall[c].group
    BY <1>1 DEF StructOK, MemberOps, GroupOps
<1>4. /\ g \in groups /\ UNCHANGED <<orgMembers, groups, inGroup, localRoles, doubted, sessions>>
      /\ groupRoles' \in [Groups -> SUBSET Roles] /\ \A h \in Groups \ {g} : groupRoles'[h] = groupRoles[h]
    <2>1. PICK roles \in SUBSET Roles : groupRoles' = [groupRoles EXCEPT ![g] = roles]
        <3>1. roleCall[c].grants \in SUBSET Roles /\ roleCall[c].role \in Roles \cup {0}
            BY <1>1 DEF RoleFrames
        <3>2. roleCall[c].op # "dropRole" => roleCall[c].role \in Roles
            BY <1>1 DEF StructOK
        <3> QED BY <1>3, <3>1, <3>2 DEF PutGroupRoles
    <2> QED BY <1>1, <1>3, <2>1 DEF PutGroupRoles, RolesTyped
<1>5. \A u \in Members \ InGroup(g) : Grants(u)' = Grants(u)
    BY <1>1, <1>4, GrantsStay DEF RolesTyped, InGroup
<1>6. roleCall[c].alone => \A u \in Members \ (doubted \cup InGroup(g)) : Exact(u)'
    <2>1. Concerned(c) = InGroup(g)
        BY <1>1, <1>3 DEF Concerned, MemberOps
    <2> QED BY <1>2, <1>4, <1>5, <2>1 DEF OnlyOK, Exact, sessions
<1>7. CASE roleCall[c].op = "create"
    <2>1. Frame(c, NoRoleCall)
        BY <1>7 DEF PutGroupRoles
    <2>2. roleCall'[c] = NoRoleCall /\ StructOK(c)'
        BY <1>1, <2>1, IdleStruct DEF Frame, RolesTyped
    <2>3. roleCall[c].alone => InGroup(g) = {}
        BY <1>1, <1>2, <1>3, <1>7 DEF OnlyOK
    <2> QED BY <1>1, <1>4, <1>6, <2>1, <2>2, <2>3, NoRoleCallFrame, WentOn, SessionsStay DEF RolesTyped
<1>8. CASE roleCall[c].op # "create"
    <2>1. PICK f \in RoleFrames : f = [roleCall[c] EXCEPT !.pc = "written"]
        BY <1>1 DEF RoleFrames
    <2>2. /\ Frame(c, f)
      /\ f.pc = "written" /\ f.op = roleCall[c].op /\ f.group = g
      /\ f.queue = roleCall[c].queue /\ f.member = roleCall[c].member /\ f.added = roleCall[c].added
      /\ f.desired = roleCall[c].desired /\ f.next = roleCall[c].next /\ f.alone = roleCall[c].alone
      /\ f.known = roleCall[c].known /\ f.lookup = roleCall[c].lookup /\ f.role = roleCall[c].role
        BY <1>1, <1>3, <1>8, <2>1 DEF PutGroupRoles, RoleFrames
    <2>3. roleCall'[c] = f
        BY <1>1, <2>2 DEF Frame, RolesTyped
    <2>4. StructOK(c)'
        BY <1>1, <1>8, <2>2, <2>3 DEF StructOK, Rewriting, MemberOps, GroupOps
    <2>5. InGroup(g) \subseteq Concerned(c)'
        BY <1>1, <1>4, <2>2, <2>3 DEF Concerned, MemberOps, InGroup
    <2>6. roleCall[c].alone => OnlyOK(c)'
        BY <1>1, <1>4, <1>6, <1>8, <2>2, <2>3, <2>5 DEF OnlyOK, Rewriting
    <2> QED BY <1>1, <1>4, <2>2, <2>4, <2>6, WentOn, SessionsStay DEF RolesTyped
<1> QED BY <1>7, <1>8

LEMMA RenameGroupOK ==
    ASSUME TenantRolesIInv, NEW c \in RoleCalls, RenameGroup(c)
    PROVE  TenantRolesIInv'
<1>1. /\ roleCall[c] \in RoleFrames /\ RolesTyped /\ StructOK(c) /\ Busy(c)
      /\ roleCall[c].pc = "checked" /\ roleCall[c].queue = {} /\ roleCall[c].member = "none"
      /\ roleCall[c].op = "rename"
    BY DEF TenantRolesIInv, RolesTyped, RenameGroup, RoleAt, Busy, StructOK, RoleFrames, GroupOps
<1>2. roleCall[c].alone => OnlyOK(c)
    BY <1>1 DEF TenantRolesIInv, MirrorOK
<1>3. PICK g \in Groups : g = roleCall[c].group
    BY <1>1 DEF StructOK, MemberOps, GroupOps
<1>4. PICK h \in Groups \ groups :
        /\ g \in groups /\ groups' = (groups \ {g}) \cup {h}
        /\ inGroup' = {m \in inGroup : m[2] # g} \cup {<<m[1], h>> : m \in {n \in inGroup : n[2] = g}}
        /\ groupRoles' = [groupRoles EXCEPT ![h] = roleCall[c].grants]
        /\ Frame(c, [roleCall[c] EXCEPT !.pc = "written", !.group = h])
        /\ UNCHANGED <<orgMembers, localRoles, doubted, sessions>>
    BY <1>3 DEF RenameGroup
<1>5. PICK f \in RoleFrames : f = [roleCall[c] EXCEPT !.pc = "written", !.group = h]
    BY <1>1 DEF RoleFrames
<1>6. /\ Frame(c, f)
      /\ f.pc = "written" /\ f.op = roleCall[c].op /\ f.group = h
      /\ f.queue = roleCall[c].queue /\ f.member = roleCall[c].member /\ f.added = roleCall[c].added
      /\ f.desired = roleCall[c].desired /\ f.next = roleCall[c].next /\ f.alone = roleCall[c].alone
      /\ f.known = roleCall[c].known /\ f.lookup = roleCall[c].lookup /\ f.role = roleCall[c].role
    BY <1>1, <1>4, <1>5 DEF RoleFrames
<1>7. roleCall'[c] = f
    BY <1>1, <1>6 DEF Frame, RolesTyped
<1>8. StructOK(c)'
    BY <1>1, <1>6, <1>7 DEF StructOK, Rewriting, MemberOps, GroupOps
<1>9. /\ inGroup' \subseteq orgMembers' \X groups' /\ groups' \subseteq Groups
      /\ \A u \in Members, k \in Groups :
            <<u, k>> \in inGroup' <=> (k # g /\ <<u, k>> \in inGroup) \/ (k = h /\ <<u, g>> \in inGroup)
    BY <1>1, <1>3, <1>4 DEF RolesTyped
<1>10. groupRoles' \in [Groups -> SUBSET Roles] /\ \A k \in groups : groupRoles'[k] = groupRoles[k]
    BY <1>1, <1>4 DEF RolesTyped, RoleFrames
<1>11. roleCall[c].alone => OnlyOK(c)'
    <2>1. Concerned(c) = InGroup(g)
        BY <1>1, <1>3 DEF Concerned, MemberOps
    <2>2. InGroup(g) \subseteq Concerned(c)'
        <3>1. Concerned(c)' = InGroup(h)'
            BY <1>1, <1>6, <1>7 DEF Concerned, MemberOps, InGroup
        <3> QED BY <3>1, <1>9 DEF InGroup
    <2>3. ASSUME NEW u \in Members \ InGroup(g) PROVE Exact(u)' <=> Exact(u)
        <3>1. \A k \in Groups : <<u, k>> \in inGroup' <=> <<u, k>> \in inGroup
            BY <1>9 DEF InGroup
        <3>2. \A k \in groups : <<u, k>> \in inGroup => k \in groups'
            BY <1>4 DEF InGroup
        <3>3. Grants(u)' = Grants(u)
            BY <1>1, <1>9, <1>10, <3>1, <3>2, GrantsStay
        <3> QED BY <1>4, <3>3 DEF Exact, sessions
    <2> QED BY <1>1, <1>2, <1>4, <1>6, <1>7, <2>1, <2>2, <2>3 DEF OnlyOK, Rewriting
<1> QED BY <1>1, <1>4, <1>6, <1>8, <1>9, <1>10, <1>11, WentOn, SessionsStay DEF RolesTyped

LEMMA DeleteTenantGroupOK ==
    ASSUME TenantRolesIInv, NEW c \in RoleCalls, DeleteTenantGroup(c)
    PROVE  TenantRolesIInv'
<1>1. /\ roleCall[c] \in RoleFrames /\ RolesTyped /\ StructOK(c) /\ Busy(c)
      /\ roleCall[c].pc = "checked" /\ roleCall[c].op = "delete" /\ roleCall[c].member = "none"
    BY DEF TenantRolesIInv, RolesTyped, DeleteTenantGroup, RoleAt, Busy, StructOK, RoleFrames, GroupOps
<1>2. roleCall[c].alone => OnlyOK(c)
    BY <1>1 DEF TenantRolesIInv, MirrorOK
<1>3. PICK g \in Groups : g = roleCall[c].group
    BY <1>1 DEF StructOK, MemberOps, GroupOps
<1>4. PICK f \in RoleFrames : f = [roleCall[c] EXCEPT !.pc = "written"]
    BY <1>1 DEF RoleFrames
<1>5. /\ Frame(c, f) /\ groups' = groups \ {g} /\ inGroup' = {m \in inGroup : m[2] # g}
      /\ UNCHANGED <<orgMembers, groupRoles, localRoles, doubted, sessions>>
    BY <1>3, <1>4 DEF DeleteTenantGroup
<1>6. /\ roleCall'[c] = f
      /\ f.pc = "written" /\ f.op = roleCall[c].op /\ f.group = g
      /\ f.queue = roleCall[c].queue /\ f.member = roleCall[c].member /\ f.added = roleCall[c].added
      /\ f.desired = roleCall[c].desired /\ f.next = roleCall[c].next /\ f.alone = roleCall[c].alone
      /\ f.known = roleCall[c].known /\ f.lookup = roleCall[c].lookup /\ f.role = roleCall[c].role
    BY <1>1, <1>3, <1>4, <1>5 DEF Frame, RolesTyped, RoleFrames
<1>7. StructOK(c)'
    BY <1>1, <1>6 DEF StructOK, Rewriting, MemberOps, GroupOps
<1>8. /\ inGroup' \subseteq orgMembers' \X groups' /\ groups' \subseteq Groups
      /\ \A u, k : <<u, k>> \in inGroup' <=> (k # g /\ <<u, k>> \in inGroup)
    BY <1>1, <1>5 DEF RolesTyped
<1>9. roleCall[c].alone => OnlyOK(c)'
    <2>1. InGroup(roleCall[c].group)' = {}
        BY <1>6, <1>8 DEF InGroup
    <2>2. Concerned(c) = roleCall[c].queue \cup InGroup(g) /\ roleCall[c].queue \subseteq Concerned(c)'
        BY <1>1, <1>3, <1>6 DEF Concerned, MemberOps
    <2>3. ASSUME NEW u \in Members \ InGroup(g) PROVE Exact(u)' <=> Exact(u)
        <3>1. \A k \in Groups : <<u, k>> \in inGroup' <=> <<u, k>> \in inGroup
            BY <1>8 DEF InGroup
        <3>2. \A k \in groups : <<u, k>> \in inGroup => k \in groups'
            BY <1>5 DEF InGroup
        <3>3. Grants(u)' = Grants(u)
            BY <1>1, <1>5, <1>8, <3>1, <3>2, GrantsStay
        <3> QED BY <1>5, <3>3 DEF Exact, sessions
    <2>4. roleCall[c].alone => InGroup(g) \subseteq roleCall[c].queue \cup doubted
        BY <1>1, <1>2, <1>3 DEF OnlyOK
    <2> QED BY <1>1, <1>2, <1>5, <1>6, <2>1, <2>2, <2>3, <2>4 DEF OnlyOK, Rewriting
<1> QED BY <1>1, <1>5, <1>6, <1>7, <1>8, <1>9, WentOn, SessionsStay DEF RolesTyped

LEMMA ReadLookupOK ==
    ASSUME TenantRolesIInv, NEW c \in RoleCalls, ReadLookup(c)
    PROVE  TenantRolesIInv'
<1>1. /\ roleCall[c] \in RoleFrames /\ RolesTyped /\ StructOK(c) /\ Busy(c)
      /\ roleCall[c].pc = "written" /\ roleCall[c].op \notin {"removeMember", "create"}
      /\ roleCall[c].op \in MemberOps \cup GroupOps /\ roleCall[c].member = "none" /\ roleCall[c].group \in Groups
    BY DEF TenantRolesIInv, RolesTyped, ReadLookup, RoleAt, Busy, StructOK, RoleFrames, MemberOps, GroupOps
<1>2. roleCall[c].alone => OnlyOK(c)
    BY <1>1 DEF TenantRolesIInv, MirrorOK
<1>3. PICK group \in Groups \cup {"none"}, pc \in {"listing", "syncing"}, lookup \in SUBSET (Groups \X Roles) :
        /\ lookup = {p \in groups \X Roles : p[2] \in groupRoles[p[1]]}
        /\ IF roleCall[c].op \in {"grantRole", "dropRole", "rename"}
           THEN group = roleCall[c].group /\ pc = "listing" ELSE group = "none" /\ pc = "syncing"
        /\ Frame(c, [roleCall[c] EXCEPT !.role = 0, !.grants = {}, !.known = groups, !.lookup = lookup,
                                        !.op = "sync", !.group = group, !.pc = pc])
    <2>1. {p \in groups \X Roles : p[2] \in groupRoles[p[1]]} \in SUBSET (Groups \X Roles)
        BY <1>1 DEF RolesTyped
    <2>2. CASE roleCall[c].op \in {"grantRole", "dropRole", "rename"}
        BY <1>1, <2>1, <2>2 DEF ReadLookup
    <2>3. CASE roleCall[c].op \notin {"grantRole", "dropRole", "rename"}
        BY <1>1, <2>1, <2>3 DEF ReadLookup
    <2> QED BY <2>2, <2>3
<1>4. PICK f \in RoleFrames :
        f = [roleCall[c] EXCEPT !.role = 0, !.grants = {}, !.known = groups, !.lookup = lookup,
                                !.op = "sync", !.group = group, !.pc = pc]
    <2>1. groups \in SUBSET Groups /\ {} \in SUBSET Roles
        BY <1>1 DEF RolesTyped
    <2> QED BY <1>1, <1>3, <2>1 DEF RoleFrames
<1>5. /\ Frame(c, f) /\ UNCHANGED <<organization, localRoles, doubted, sessions>>
      /\ f.pc = pc /\ f.op = "sync" /\ f.group = group
      /\ f.queue = roleCall[c].queue /\ f.member = roleCall[c].member /\ f.added = roleCall[c].added
      /\ f.desired = roleCall[c].desired /\ f.next = roleCall[c].next /\ f.alone = roleCall[c].alone
      /\ f.known = groups /\ f.lookup = lookup
    <2>1. Frame(c, f)
        BY <1>3, <1>4
    <2>2. UNCHANGED <<organization, localRoles, doubted, sessions>>
        BY DEF ReadLookup
    <2>3. /\ f.pc = pc /\ f.op = "sync" /\ f.group = group
          /\ f.queue = roleCall[c].queue /\ f.member = roleCall[c].member /\ f.added = roleCall[c].added
          /\ f.desired = roleCall[c].desired /\ f.next = roleCall[c].next /\ f.alone = roleCall[c].alone
          /\ f.known = groups /\ f.lookup = lookup
        BY <1>1, <1>4 DEF RoleFrames
    <2> QED BY <2>1, <2>2, <2>3
<1>6. roleCall'[c] = f
    BY <1>1, <1>5 DEF Frame, RolesTyped
<1>7. StructOK(c)'
    BY <1>1, <1>3, <1>5, <1>6 DEF StructOK, Rewriting, MemberOps, GroupOps
<1>8. roleCall[c].alone => OnlyOK(c)'
    <2>1. ASSUME roleCall[c].alone PROVE Concerned(c) \subseteq Concerned(c)'
        <3>1. CASE roleCall[c].op \in MemberOps \/ group = roleCall[c].group
            BY <3>1, <1>1, <1>5, <1>6 DEF Concerned, InGroup, organization, MemberOps
        <3>2. CASE roleCall[c].op = "delete"
            <4>1. InGroup(roleCall[c].group) = {}
                BY <2>1, <3>2, <1>1, <1>2 DEF OnlyOK
            <4> QED BY <4>1, <3>2, <1>1, <1>5, <1>6 DEF Concerned
        <3> QED BY <3>1, <3>2, <1>1, <1>3 DEF MemberOps, GroupOps
    <2>2. \A u : Exact(u)' <=> Exact(u)
        BY <1>5 DEF Exact, sessions, Grants, organization
    <2> QED BY <1>1, <1>2, <1>3, <1>5, <1>6, <2>1, <2>2 DEF OnlyOK, Rewriting, organization
<1> QED BY <1>1, <1>5, <1>7, <1>8, WentOn, SessionsStay DEF RolesTyped, organization

LEMMA ReadMemberRolesOK ==
    ASSUME TenantRolesIInv, NEW c \in RoleCalls, ReadMemberRoles(c)
    PROVE  TenantRolesIInv'
<1>1. /\ roleCall[c] \in RoleFrames /\ RolesTyped /\ StructOK(c) /\ Busy(c)
      /\ roleCall[c].pc = "syncing" /\ roleCall[c].op = "sync" /\ roleCall[c].group = "none"
      /\ roleCall[c].member = "none"
    BY DEF TenantRolesIInv, RolesTyped, ReadMemberRoles, RoleAt, Busy, StructOK, RoleFrames, Rewriting
<1>2. roleCall[c].alone => OnlyOK(c)
    BY <1>1 DEF TenantRolesIInv, MirrorOK
<1>3. PICK u \in Members, desired \in SUBSET Roles :
        /\ u \in roleCall[c].queue
        /\ LET mine == {g \in groups : <<u, g>> \in inGroup} IN
           desired = {p[2] : p \in {q \in roleCall[c].lookup : q[1] \in mine}}
                     \cup UNION {groupRoles[g] : g \in mine \ roleCall[c].known}
        /\ Frame(c, [roleCall[c] EXCEPT !.pc = "mirroring", !.member = u, !.next = 1, !.added = {},
                                        !.queue = @ \ {u}, !.desired = desired])
    <2>1. PICK u \in roleCall[c].queue :
            LET mine == {g \in groups : <<u, g>> \in inGroup} IN
            Frame(c, [roleCall[c] EXCEPT
                !.pc = "mirroring", !.member = u, !.next = 1, !.added = {}, !.queue = @ \ {u},
                !.desired = {p[2] : p \in {q \in roleCall[c].lookup : q[1] \in mine}}
                            \cup UNION {groupRoles[g] : g \in mine \ roleCall[c].known}])
        BY DEF ReadMemberRoles
    <2>2. u \in Members
        BY <1>1 DEF RoleFrames
    <2>3. PICK mine : mine = {g \in groups : <<u, g>> \in inGroup}
        OBVIOUS
    <2>4. {p[2] : p \in {q \in roleCall[c].lookup : q[1] \in mine}}
              \cup UNION {groupRoles[g] : g \in mine \ roleCall[c].known} \in SUBSET Roles
        <3>1. \A q \in roleCall[c].lookup : q[2] \in Roles
            BY <1>1 DEF RoleFrames
        <3>2. \A g \in mine : groupRoles[g] \subseteq Roles
            BY <1>1, <2>3 DEF RolesTyped
        <3> QED BY <3>1, <3>2
    <2> QED BY <2>1, <2>2, <2>3, <2>4
<1>4. PICK queue \in SUBSET Members : queue = roleCall[c].queue \ {u}
    BY <1>1 DEF RoleFrames
<1>5. PICK f \in RoleFrames :
        f = [roleCall[c] EXCEPT !.pc = "mirroring", !.member = u, !.next = 1, !.added = {},
                                !.queue = queue, !.desired = desired]
    <2>1. 1 \in 1..(MaxRole + 1)
        BY TenantRolesAssumption
    <2> QED BY <1>1, <1>3, <1>4, <2>1 DEF RoleFrames
<1>6. /\ Frame(c, f) /\ UNCHANGED <<organization, localRoles, doubted, sessions>>
      /\ f.pc = "mirroring" /\ f.op = "sync" /\ f.group = "none"
      /\ f.queue = queue /\ f.member = u /\ f.added = {}
      /\ f.desired = desired /\ f.next = 1 /\ f.alone = roleCall[c].alone
      /\ f.known = roleCall[c].known /\ f.lookup = roleCall[c].lookup
    <2>1. Frame(c, f)
        BY <1>3, <1>4, <1>5
    <2>2. UNCHANGED <<organization, localRoles, doubted, sessions>>
        BY DEF ReadMemberRoles
    <2>3. /\ f.pc = "mirroring" /\ f.op = roleCall[c].op /\ f.group = roleCall[c].group
          /\ f.queue = queue /\ f.member = u /\ f.added = {}
          /\ f.desired = desired /\ f.next = 1 /\ f.alone = roleCall[c].alone
          /\ f.known = roleCall[c].known /\ f.lookup = roleCall[c].lookup
        BY <1>1, <1>5 DEF RoleFrames
    <2> QED BY <1>1, <2>1, <2>2, <2>3
<1>7. roleCall'[c] = f
    BY <1>1, <1>6 DEF Frame, RolesTyped
<1>8. StructOK(c)'
    <2>1. u # "none"
        BY TenantRolesAssumption
    <2> QED BY <1>1, <1>6, <1>7, <2>1 DEF StructOK, Rewriting, MemberOps, GroupOps
<1>9. roleCall[c].alone => OnlyOK(c)'
    <2>1. Concerned(c) \subseteq Concerned(c)'
        <3>1. InGroup("none") = {} /\ u # "none"
            BY <1>1, NobodyInNone, TenantRolesAssumption
        <3> QED BY <3>1, <1>1, <1>4, <1>6, <1>7 DEF Concerned
    <2>2. \A v : Exact(v)' <=> Exact(v)
        BY <1>6 DEF Exact, sessions, Grants, organization
    <2>3. ASSUME roleCall[c].alone PROVE desired = Grants(u)
        <3>1. /\ roleCall[c].known = groups
              /\ roleCall[c].lookup = {p \in groups \X Roles : p[2] \in groupRoles[p[1]]}
            BY <2>3, <1>1, <1>2 DEF OnlyOK, Rewriting
        <3>2. ASSUME NEW r PROVE r \in desired <=> \E g \in groups : <<u, g>> \in inGroup /\ r \in groupRoles[g]
            <4>1. r \in desired <=> \E p \in roleCall[c].lookup : r = p[2] /\ <<u, p[1]>> \in inGroup /\ p[1] \in groups
                BY <1>3, <3>1
            <4>2. ASSUME NEW g \in groups, r \in groupRoles[g]
                  PROVE  <<g, r>> \in roleCall[c].lookup
                BY <1>1, <3>1, <4>2 DEF RolesTyped
            <4> QED BY <4>1, <4>2, <3>1
        <3> QED BY <3>2, Granted
    <2>4. Grants(u)' = Grants(u)
        BY <1>6 DEF Grants, organization
    <2>5. Grants(roleCall[c].member)' = Grants(u)'
        BY <1>6, <1>7 DEF Grants
    <2>6. \A r \in Roles : ~(r < 1)
        BY TenantRolesAssumption DEF Roles
    <2> QED BY <1>1, <1>2, <1>6, <1>7, <2>1, <2>2, <2>3, <2>4, <2>5, <2>6 DEF OnlyOK, Rewriting, organization
<1> QED BY <1>1, <1>6, <1>8, <1>9, WentOn, SessionsStay DEF RolesTyped, organization

LEMMA MirrorRoleOK ==
    ASSUME TenantRolesIInv, NEW c \in RoleCalls, MirrorRole(c)
    PROVE  TenantRolesIInv'
<1>1. /\ roleCall[c] \in RoleFrames /\ RolesTyped /\ StructOK(c) /\ Busy(c)
      /\ roleCall[c].pc = "mirroring" /\ roleCall[c].op = "sync" /\ roleCall[c].group = "none"
    BY DEF TenantRolesIInv, RolesTyped, MirrorRole, RoleAt, Busy, StructOK, RoleFrames, Rewriting
<1>2. roleCall[c].alone => OnlyOK(c)
    BY <1>1 DEF TenantRolesIInv, MirrorOK
<1>3. PICK u \in Members : u = roleCall[c].member
    BY <1>1 DEF StructOK, RoleFrames
<1>4. PICK r \in Roles : r = roleCall[c].next
    BY <1>1, TenantRolesAssumption DEF RoleFrames, MirrorRole, Roles
<1>5. PICK had \in SUBSET Roles : had = roleCall[c].added
    BY <1>1 DEF RoleFrames
<1>6. PICK desired \in SUBSET Roles : desired = roleCall[c].desired
    BY <1>1 DEF RoleFrames
<1>7. had \subseteq desired /\ \A s \in had : s < r
    BY <1>1, <1>4, <1>5, <1>6 DEF StructOK
<1>8. PICK added \in SUBSET Roles, rows \in SUBSET Roles :
        /\ Frame(c, [roleCall[c] EXCEPT !.next = r + 1, !.added = added])
        /\ localRoles' \in [Members -> SUBSET Roles] /\ localRoles'[u] = rows
        /\ \A v \in Members \ {u} : localRoles'[v] = localRoles[v]
        /\ added \subseteq desired /\ added \subseteq had \cup {r}
        /\ r \in rows \cup added <=> r \in desired
        /\ \A s \in Roles \ {r} : s \in rows \cup added <=> s \in localRoles[u] \cup had
    <2>1. localRoles[u] \in SUBSET Roles
        BY <1>1 DEF RolesTyped
    <2>2. CASE r \in desired
        <3>1. PICK added \in SUBSET Roles : added = had \cup ({r} \ localRoles[u])
            OBVIOUS
        <3>2. /\ Frame(c, [roleCall[c] EXCEPT !.next = r + 1, !.added = added])
              /\ UNCHANGED localRoles
            BY <1>1, <1>3, <1>4, <1>5, <1>6, <2>2, <3>1 DEF MirrorRole, RoleFrames
        <3> QED BY <1>1, <1>7, <2>1, <2>2, <3>1, <3>2 DEF RolesTyped
    <2>3. CASE r \notin desired /\ r \in localRoles[u]
        <3>1. PICK rows \in SUBSET Roles : rows = (localRoles[u] \cup had) \ {r}
            BY <2>1
        <3>2. /\ Frame(c, [roleCall[c] EXCEPT !.next = r + 1, !.added = {}])
              /\ localRoles' = [localRoles EXCEPT ![u] = rows]
            <4>1. /\ Frame(c, [roleCall[c] EXCEPT !.next = @ + 1, !.added = {}])
                  /\ localRoles' = [localRoles EXCEPT ![u] = (@ \cup had) \ {r}]
                BY <1>3, <1>4, <1>5, <1>6, <2>3 DEF MirrorRole
            <4>2. [roleCall[c] EXCEPT !.next = @ + 1, !.added = {}]
                  = [roleCall[c] EXCEPT !.next = r + 1, !.added = {}]
                BY <1>1, <1>4 DEF RoleFrames
            <4>3. [localRoles EXCEPT ![u] = (@ \cup had) \ {r}] = [localRoles EXCEPT ![u] = rows]
                BY <1>1, <3>1 DEF RolesTyped
            <4> QED BY <4>1, <4>2, <4>3
        <3>3. PICK added \in SUBSET Roles : added = {}
            OBVIOUS
        <3>4. /\ localRoles' \in [Members -> SUBSET Roles] /\ localRoles'[u] = rows
              /\ \A v \in Members \ {u} : localRoles'[v] = localRoles[v]
            BY <1>1, <3>2 DEF RolesTyped
        <3>5. Frame(c, [roleCall[c] EXCEPT !.next = r + 1, !.added = added])
            BY <3>2, <3>3
        <3>6. /\ added \subseteq desired /\ added \subseteq had \cup {r}
              /\ r \in rows \cup added <=> r \in desired
              /\ \A s \in Roles \ {r} : s \in rows \cup added <=> s \in localRoles[u] \cup had
            BY <2>3, <3>1, <3>3
        <3> QED BY <3>4, <3>5, <3>6
    <2>4. CASE r \notin desired \cup localRoles[u]
        <3>1. /\ Frame(c, [roleCall[c] EXCEPT !.next = r + 1])
              /\ UNCHANGED localRoles
            BY <1>1, <1>3, <1>4, <1>5, <1>6, <2>4 DEF MirrorRole, RoleFrames
        <3>2. [roleCall[c] EXCEPT !.next = r + 1] = [roleCall[c] EXCEPT !.next = r + 1, !.added = had]
            BY <1>1, <1>5 DEF RoleFrames
        <3>3. r \notin had
            BY <1>7 DEF Roles
        <3> QED BY <1>1, <1>7, <2>1, <2>4, <3>1, <3>2, <3>3 DEF RolesTyped
    <2> QED BY <2>2, <2>3, <2>4
<1>9. PICK f \in RoleFrames : f = [roleCall[c] EXCEPT !.next = r + 1, !.added = added]
    <2>1. r + 1 \in 1..(MaxRole + 1)
        BY TenantRolesAssumption DEF Roles
    <2> QED BY <1>1, <2>1 DEF RoleFrames
<1>10. /\ f.pc = "mirroring" /\ f.op = "sync" /\ f.group = "none"
       /\ f.queue = roleCall[c].queue /\ f.member = u /\ f.added = added
       /\ f.desired = desired /\ f.next = r + 1 /\ f.alone = roleCall[c].alone
       /\ f.known = roleCall[c].known /\ f.lookup = roleCall[c].lookup /\ f.role = roleCall[c].role
    BY <1>1, <1>3, <1>6, <1>9 DEF RoleFrames
<1>11. /\ Frame(c, f) /\ UNCHANGED <<organization, doubted, tokenGroups>> /\ roleCall'[c] = f
       /\ brought' = brought \ {<<u, r>>}
    BY <1>1, <1>3, <1>4, <1>8, <1>9 DEF MirrorRole, Frame, RolesTyped
<1>12. StructOK(c)'
    <2>1. u # "none"
        BY TenantRolesAssumption
    <2>2. \A s \in added : s < r + 1
        BY <1>7, <1>8 DEF Roles
    <2> QED BY <1>1, <1>8, <1>10, <1>11, <2>1, <2>2 DEF StructOK, Rewriting, MemberOps, GroupOps
<1>13. roleCall[c].alone => OnlyOK(c)'
    <2>1. \A v : Grants(v)' = Grants(v)
        BY <1>11 DEF Grants, organization
    <2>2. Grants(roleCall[c].member)' = Grants(u)
        BY <1>10, <1>11 DEF Grants, organization
    <2>3. Concerned(c)' = Concerned(c) /\ u \in Concerned(c)
        <3>1. u # "none"
            BY TenantRolesAssumption
        <3> QED BY <1>1, <1>3, <1>10, <1>11, <3>1 DEF Concerned, InGroup, organization
    <2>4. \A v \in Members \ Concerned(c) : Exact(v)' <=> Exact(v)
        BY <1>8, <1>11, <2>1, <2>3 DEF Exact, sessions
    <2>5. roleCall[c].alone => desired = Grants(u)
        BY <1>1, <1>2, <1>3, <1>6 DEF OnlyOK
    <2>6. ASSUME roleCall[c].alone, NEW s \in Roles, s < r + 1
          PROVE  /\ s \in desired => s \in rows \cup added
                 /\ s \in rows \cup added => s \in desired \/ <<u, s>> \in brought'
        <3>1. CASE s = r
            BY <1>8, <3>1
        <3>2. CASE s # r
            <4>1. s < r
                BY <2>6, <3>2 DEF Roles
            <4>2. /\ s \in desired => s \in localRoles[u] \cup had
                  /\ s \in localRoles[u] \cup had => s \in desired \/ <<u, s>> \in brought
                BY <4>1, <2>6, <1>1, <1>2, <1>3, <1>4, <1>5, <1>6 DEF OnlyOK
            <4> QED BY <1>8, <1>11, <3>2, <4>2
        <3> QED BY <3>1, <3>2
    <2>7. localRoles'[roleCall'[c].member] = rows /\ roleCall'[c].added = added
        BY <1>8, <1>10, <1>11
    <2>8. roleCall[c].alone => \A v \in Members \ (doubted \cup Concerned(c)) : Exact(v)'
        BY <1>2, <2>4 DEF OnlyOK
    <2>9. roleCall[c].alone => /\ roleCall'[c].known = groups'
                               /\ roleCall'[c].lookup = {p \in groups \X Roles : p[2] \in groupRoles[p[1]]}'
        BY <1>1, <1>2, <1>10, <1>11 DEF OnlyOK, Rewriting, organization
    <2> QED BY <1>10, <1>11, <2>2, <2>3, <2>5, <2>6, <2>7, <2>8, <2>9 DEF OnlyOK
<1>14. SessionsTyped'
    BY <1>1, <1>11 DEF RolesTyped, SessionsTyped
<1> QED BY <1>1, <1>8, <1>10, <1>11, <1>12, <1>13, <1>14, WentOn DEF RolesTyped, organization

LEMMA CommitMirrorOK ==
    ASSUME TenantRolesIInv, NEW c \in RoleCalls, CommitMirror(c)
    PROVE  TenantRolesIInv'
<1>1. /\ roleCall[c] \in RoleFrames /\ RolesTyped /\ StructOK(c) /\ Busy(c)
      /\ roleCall[c].pc = "mirroring" /\ roleCall[c].op = "sync" /\ roleCall[c].group = "none"
    BY DEF TenantRolesIInv, RolesTyped, CommitMirror, RoleAt, Busy, StructOK, RoleFrames, Rewriting
<1>2. roleCall[c].alone => OnlyOK(c)
    BY <1>1 DEF TenantRolesIInv, MirrorOK
<1>3. PICK u \in Members : u = roleCall[c].member
    BY <1>1 DEF StructOK, RoleFrames
<1>4. PICK rows \in SUBSET Roles : rows = localRoles[u] \cup roleCall[c].added
    BY <1>1 DEF RolesTyped, RoleFrames
<1>5. PICK f \in RoleFrames :
        f = [roleCall[c] EXCEPT !.pc = "syncing", !.member = "none", !.next = 1, !.desired = {}, !.added = {}]
    <2>1. 1 \in 1..(MaxRole + 1)
        BY TenantRolesAssumption
    <2> QED BY <1>1, <2>1 DEF RoleFrames
<1>6. /\ f.pc = "syncing" /\ f.op = "sync" /\ f.group = "none"
      /\ f.queue = roleCall[c].queue /\ f.member = "none" /\ f.added = {}
      /\ f.desired = {} /\ f.next = 1 /\ f.alone = roleCall[c].alone
      /\ f.known = roleCall[c].known /\ f.lookup = roleCall[c].lookup
    BY <1>1, <1>5 DEF RoleFrames
<1>7. /\ Frame(c, f) /\ localRoles' = [localRoles EXCEPT ![u] = rows]
      /\ UNCHANGED <<organization, sessions>>
      /\ doubted' = IF roleCall[c].alone THEN doubted \ {u} ELSE doubted
    BY <1>1, <1>3, <1>4, <1>5 DEF CommitMirror, Settle, RolesTyped
<1>8. roleCall'[c] = f
    BY <1>1, <1>7 DEF Frame, RolesTyped
<1>9. StructOK(c)'
    BY <1>1, <1>6, <1>8 DEF StructOK, Rewriting, MemberOps, GroupOps
<1>10. /\ localRoles' \in [Members -> SUBSET Roles] /\ localRoles'[u] = rows
       /\ \A v \in Members \ {u} : localRoles'[v] = localRoles[v]
    BY <1>1, <1>7 DEF RolesTyped
<1>11. roleCall[c].alone => OnlyOK(c)'
    <2>1. \A v : Grants(v)' = Grants(v)
        BY <1>7 DEF Grants, organization
    <2>2. ASSUME roleCall[c].alone
          PROVE  Grants(u) \subseteq rows /\ \A r \in rows : r \in Grants(u) \/ <<u, r>> \in brought
        <3>1. \A r \in Roles : r < roleCall[c].next
            BY <1>1, TenantRolesAssumption DEF CommitMirror, RoleFrames, Roles
        <3>2. \A r \in Roles : /\ r \in roleCall[c].desired => r \in rows
                               /\ r \in rows => r \in roleCall[c].desired \/ <<u, r>> \in brought
            BY <2>2, <3>1, <1>1, <1>2, <1>3, <1>4 DEF OnlyOK
        <3>3. roleCall[c].desired \in SUBSET Roles
            BY <1>1 DEF RoleFrames
        <3>4. roleCall[c].desired = Grants(u)
            BY <2>2, <1>1, <1>2, <1>3 DEF OnlyOK
        <3> QED BY <3>2, <3>3, <3>4
    <2>3. Concerned(c) = Concerned(c)' \cup {u}
        <3>1. u # "none"
            BY TenantRolesAssumption
        <3> QED BY <1>1, <1>3, <1>6, <1>7, <1>8, <3>1 DEF Concerned, InGroup, organization
    <2>4. ASSUME roleCall[c].alone, NEW v \in Members \ (doubted' \cup Concerned(c)') PROVE Exact(v)'
        <3>1. CASE v = u
            BY <3>1, <1>7, <1>10, <2>1, <2>2, <2>4 DEF Exact, sessions
        <3>2. CASE v # u
            <4>1. Exact(v)
                BY <3>2, <2>3, <2>4, <1>2, <1>7 DEF OnlyOK
            <4> QED BY <3>2, <4>1, <1>7, <1>10, <2>1 DEF Exact, sessions
        <3> QED BY <3>1, <3>2
    <2>5. roleCall[c].alone => /\ roleCall'[c].known = groups'
                               /\ roleCall'[c].lookup = {p \in groups \X Roles : p[2] \in groupRoles[p[1]]}'
        BY <1>1, <1>2, <1>6, <1>7, <1>8 DEF OnlyOK, Rewriting, organization
    <2> QED BY <1>6, <1>8, <2>4, <2>5 DEF OnlyOK
<1> QED BY <1>1, <1>6, <1>7, <1>9, <1>10, <1>11, WentOn, SessionsStay DEF RolesTyped, organization

LEMMA RespondOK ==
    ASSUME TenantRolesIInv, NEW c \in RoleCalls, Respond(c)
    PROVE  TenantRolesIInv'
<1>1. /\ roleCall[c] \in RoleFrames /\ RolesTyped /\ StructOK(c) /\ Busy(c)
      /\ roleCall[c].pc = "syncing" /\ roleCall[c].queue = {} /\ roleCall[c].group = "none"
      /\ roleCall[c].member = "none"
    BY DEF TenantRolesIInv, RolesTyped, Respond, RoleAt, Busy, StructOK, RoleFrames
<1>2. roleCall[c].alone => OnlyOK(c)
    BY <1>1 DEF TenantRolesIInv, MirrorOK
<1>3. Frame(c, NoRoleCall) /\ UNCHANGED <<organization, localRoles, doubted, sessions>>
    BY DEF Respond
<1>4. roleCall'[c] = NoRoleCall /\ StructOK(c)'
    BY <1>1, <1>3, IdleStruct DEF Frame, RolesTyped
<1>5. roleCall[c].alone => \A v \in Members \ doubted' : Exact(v)'
    <2>1. Concerned(c) = {}
        BY <1>1, NobodyInNone DEF Concerned
    <2>2. \A v : Exact(v)' <=> Exact(v)
        BY <1>3 DEF Exact, sessions, Grants, organization
    <2> QED BY <1>2, <1>3, <2>1, <2>2 DEF OnlyOK
<1> QED BY <1>1, <1>3, <1>4, <1>5, NoRoleCallFrame, WentOn, SessionsStay DEF RolesTyped, organization

LEMMA RoleCallFailsOK ==
    ASSUME TenantRolesIInv, NEW c \in RoleCalls, RoleCallFails(c)
    PROVE  TenantRolesIInv'
<1>1. roleCall[c] \in RoleFrames /\ RolesTyped /\ Busy(c)
    BY DEF TenantRolesIInv, RolesTyped, RoleCallFails
<1>2. roleCall[c].alone => OnlyOK(c)
    BY <1>1 DEF TenantRolesIInv, MirrorOK
<1>3. /\ Frame(c, NoRoleCall) /\ doubted' = doubted \cup Concerned(c)
      /\ UNCHANGED <<organization, localRoles, sessions>>
    BY DEF RoleCallFails
<1>4. roleCall'[c] = NoRoleCall /\ StructOK(c)'
    BY <1>1, <1>3, IdleStruct DEF Frame, RolesTyped
<1>5. doubted' \subseteq Members
    BY <1>1, <1>3 DEF RolesTyped, RoleFrames, Concerned, InGroup
<1>6. roleCall[c].alone => \A v \in Members \ doubted' : Exact(v)'
    <2>1. \A v : Exact(v)' <=> Exact(v)
        BY <1>3 DEF Exact, sessions, Grants, organization
    <2> QED BY <1>2, <1>3, <2>1 DEF OnlyOK
<1> QED BY <1>1, <1>3, <1>4, <1>5, <1>6, NoRoleCallFrame, WentOn, SessionsStay DEF RolesTyped, organization

\* A token says nothing of the rows yet.
LEMMA IssueTokenOK ==
    ASSUME TenantRolesIInv, NEW u \in Members, IssueToken(u)
    PROVE  TenantRolesIInv'
<1>1. /\ UNCHANGED <<orgMembers, groups, inGroup, groupRoles, localRoles, roleCall, doubted, brought>>
      /\ tokenGroups' = [tokenGroups EXCEPT ![u] = {g \in groups : <<u, g>> \in inGroup}]
    BY DEF IssueToken, organization
<1>2. RolesTyped'
    BY <1>1 DEF TenantRolesIInv, RolesTyped, SessionsTyped
<1>3. \A c \in RoleCalls : StructOK(c)'
    BY <1>1 DEF TenantRolesIInv, StructOK
<1>4. (\A v : Exact(v)' <=> Exact(v)) /\ (\A c : Busy(c)' <=> Busy(c))
    BY <1>1 DEF Exact, Grants, Busy
<1>5. ASSUME NEW c \in RoleCalls, OnlyOK(c) PROVE OnlyOK(c)'
    <2>1. /\ Concerned(c)' = Concerned(c) /\ InGroup(roleCall[c].group)' = InGroup(roleCall[c].group)
          /\ Grants(roleCall[c].member)' = Grants(roleCall[c].member)
        BY <1>1 DEF Concerned, InGroup, Grants
    <2> QED BY <1>1, <1>4, <1>5, <2>1 DEF OnlyOK
<1>6. MirrorOK'
    BY <1>1, <1>4, <1>5 DEF TenantRolesIInv, MirrorOK
<1> QED BY <1>2, <1>3, <1>6 DEF TenantRolesIInv

\* What a token adds is granted, or it is written down as brought.
LEMMA SyncGroupsOK ==
    ASSUME TenantRolesIInv, NEW u \in Members, SyncGroups(u)
    PROVE  TenantRolesIInv'
<1>1. PICK named \in SUBSET Roles :
        /\ localRoles' = [localRoles EXCEPT ![u] = @ \cup named]
        /\ brought' = brought \cup ({u} \X (named \ (localRoles[u] \cup Grants(u))))
    <2>1. UNION {DefaultRoles(g) : g \in tokenGroups[u]} \in SUBSET Roles
        BY DEF DefaultRoles
    <2> QED BY <2>1 DEF SyncGroups
<1>2. UNCHANGED <<orgMembers, groups, inGroup, groupRoles, tokenGroups, roleCall, doubted>>
    BY DEF SyncGroups, organization
<1>3. RolesTyped /\ localRoles \in [Members -> SUBSET Roles]
    BY DEF TenantRolesIInv, RolesTyped
<1>4. RolesTyped'
    BY <1>1, <1>2, <1>3 DEF RolesTyped, SessionsTyped
<1>5. \A c \in RoleCalls : StructOK(c)'
    BY <1>2 DEF TenantRolesIInv, StructOK
<1>6. \A v : Grants(v)' = Grants(v)
    BY <1>2 DEF Grants
<1>7. ASSUME NEW v \in Members, NEW r \in Roles
      PROVE  /\ r \in localRoles[v] => r \in localRoles'[v]
             /\ <<v, r>> \in brought => <<v, r>> \in brought'
             /\ r \in localRoles'[v] => r \in localRoles[v] \/ r \in Grants(v) \/ <<v, r>> \in brought'
    <2>1. CASE v = u
        <3>1. localRoles'[u] = localRoles[u] \cup named
            BY <1>1, <1>3
        <3>2. \A s \in named \ (localRoles[u] \cup Grants(u)) : <<u, s>> \in brought'
            BY <1>1
        <3> QED BY <1>1, <2>1, <3>1, <3>2
    <2>2. CASE v # u
        <3>1. localRoles'[v] = localRoles[v]
            BY <1>1, <1>3, <2>2
        <3> QED BY <1>1, <3>1
    <2> QED BY <2>1, <2>2
<1>8. \A v \in Members : localRoles[v] \subseteq Roles /\ localRoles'[v] \subseteq Roles
    BY <1>3, <1>4 DEF RolesTyped
<1>9. ASSUME NEW v \in Members, Exact(v) PROVE Exact(v)'
    BY <1>6, <1>7, <1>8, <1>9 DEF Exact
<1>10. ASSUME NEW c \in RoleCalls, OnlyOK(c) PROVE OnlyOK(c)'
    <2>1. /\ Concerned(c)' = Concerned(c) /\ InGroup(roleCall[c].group)' = InGroup(roleCall[c].group)
          /\ Grants(roleCall[c].member)' = Grants(roleCall[c].member)
        BY <1>2 DEF Concerned, InGroup, Grants
    <2>2. ASSUME roleCall[c].pc = "mirroring", NEW r \in Roles, r < roleCall[c].next
          PROVE  LET m == roleCall[c].member
                     added == roleCall[c].added
                     desired == roleCall[c].desired IN
                 /\ r \in desired => r \in localRoles'[m] \cup added
                 /\ r \in localRoles'[m] \cup added => r \in desired \/ <<m, r>> \in brought'
        <3>1. PICK m \in Members : m = roleCall[c].member
            BY <2>2 DEF TenantRolesIInv, StructOK, RolesTyped, RoleFrames
        <3>2. /\ r \in roleCall[c].desired => r \in localRoles[m] \cup roleCall[c].added
              /\ r \in localRoles[m] \cup roleCall[c].added =>
                    r \in roleCall[c].desired \/ <<m, r>> \in brought
              /\ roleCall[c].desired = Grants(m)
            BY <1>10, <2>2, <3>1 DEF OnlyOK
        <3> QED BY <1>7, <3>1, <3>2
    <2>3. \A v \in Members \ (doubted \cup Concerned(c)) : Exact(v)'
        BY <1>9, <1>10 DEF OnlyOK
    <2> QED BY <1>2, <1>10, <2>1, <2>2, <2>3 DEF OnlyOK
<1>11. \A c : Busy(c)' <=> Busy(c)
    BY <1>2 DEF Busy
<1>12. MirrorOK'
    BY <1>2, <1>9, <1>10, <1>11 DEF TenantRolesIInv, MirrorOK
<1> QED BY <1>4, <1>5, <1>12 DEF TenantRolesIInv

LEMMA RolesStep == TenantRolesIInv /\ [TenantRolesNext]_rolesVars => TenantRolesIInv'
<1> SUFFICES ASSUME TenantRolesIInv, [TenantRolesNext]_rolesVars PROVE TenantRolesIInv'
    OBVIOUS
<1>1. ASSUME NEW c \in RoleCalls,
             \/ AddTenantMember(c) \/ RemoveTenantMember(c)
             \/ AddTenantGroupMember(c) \/ RemoveTenantGroupMember(c)
             \/ AssignTenantRole(c) \/ RemoveTenantRole(c)
      PROVE  TenantRolesIInv'
    <2>1. PICK op \in MemberOps, u \in Members, g \in Groups \cup {"none"}, r \in Roles \cup {0} :
            /\ op # "removeMember" => g \in Groups
            /\ op = "removeRole" => r \in Roles
            /\ StartMemberCall(c, op, u, g, r)
        <3>1. orgMembers \subseteq Members /\ groups \subseteq Groups
            BY DEF TenantRolesIInv, RolesTyped
        <3>2. \A r \in Roles : GroupOfRole[r] \in Groups
            BY TenantRolesAssumption
        <3> QED BY <1>1, <3>1, <3>2
                DEF AddTenantMember, RemoveTenantMember, AddTenantGroupMember, RemoveTenantGroupMember,
                    AssignTenantRole, RemoveTenantRole, MemberOps
    <2> QED BY <2>1, MemberCallOK
<1>2. ASSUME NEW c \in RoleCalls,
             AssignTenantGroupRole(c) \/ RemoveTenantGroupRole(c) \/ RenameTenantGroup(c)
      PROVE  TenantRolesIInv'
    <2>1. PICK op \in {"grantRole", "dropRole", "rename"}, g \in Groups, r \in Roles \cup {0} :
            (op = "grantRole" => r \in Roles) /\ StartGroupCall(c, op, g, r)
        <3>1. groups \subseteq Groups
            BY DEF TenantRolesIInv, RolesTyped
        <3> QED BY <1>2, <3>1 DEF AssignTenantGroupRole, RemoveTenantGroupRole, RenameTenantGroup
    <2> QED BY <2>1, GroupCallOK
<1>3. CASE UNCHANGED rolesVars
    <2>1. UNCHANGED <<orgMembers, groups, inGroup, groupRoles, localRoles, roleCall, doubted,
                      tokenGroups, brought>>
        BY <1>3 DEF rolesVars, organization, sessions
    <2>2. RolesTyped'
        BY <2>1 DEF SessionsTyped, TenantRolesIInv, RolesTyped
    <2>3. \A c \in RoleCalls : StructOK(c)'
        BY <2>1 DEF TenantRolesIInv, StructOK
    <2>4. (\A u : Exact(u)' <=> Exact(u)) /\ (\A c : Busy(c)' <=> Busy(c))
        BY <2>1 DEF Exact, sessions, Grants, Busy
    <2>5. ASSUME NEW c \in RoleCalls, OnlyOK(c) PROVE OnlyOK(c)'
        <3>1. Concerned(c)' = Concerned(c) /\ InGroup(roleCall[c].group)' = InGroup(roleCall[c].group)
              /\ Grants(roleCall[c].member)' = Grants(roleCall[c].member)
            BY <2>1 DEF Concerned, InGroup, Grants
        <3> QED BY <2>1, <2>4, <2>5, <3>1 DEF OnlyOK
    <2>6. MirrorOK'
        BY <2>1, <2>4, <2>5 DEF TenantRolesIInv, MirrorOK
    <2> QED BY <2>2, <2>3, <2>6 DEF TenantRolesIInv
<1> QED BY <1>1, <1>2, <1>3, JoinOrganizationOK, PutGroupMemberOK, DeleteGroupMemberOK,
           LeaveOrganizationOK, ClearAssignmentsOK, StartDeleteGroupOK, ListLosersOK,
           StartCreateGroupOK, CreateTenantGroupOK, PutGroupRolesOK, RenameGroupOK,
           DeleteTenantGroupOK, ReadLookupOK, ListGroupMembersOK, ReadMemberRolesOK, MirrorRoleOK,
           CommitMirrorOK, RespondOK, RoleCallFailsOK, IssueTokenOK, SyncGroupsOK
        DEF TenantRolesNext

\* With every request over, the rows of a member are what the member's groups grant: what
\* the members page says, and, of groups that fit a listing, what the groups page says.
LEMMA PagesTellTheRows == TenantRolesIInv => MirrorIsExact
<1> DEFINE Brought(u) == {r \in Roles : <<u, r>> \in brought}
<1> SUFFICES ASSUME TenantRolesIInv, \A c \in RoleCalls : ~Busy(c)
             PROVE  /\ \A p \in MembersPage : p.member \notin doubted =>
                        /\ p.granted \subseteq localRoles[p.member]
                        /\ localRoles[p.member] \subseteq p.granted \cup Brought(p.member)
                    /\ \A u \in AvailableUsers \ doubted : localRoles[u] \subseteq Brought(u)
                    /\ \A pages \in Listings :
                        /\ \A e \in GroupsPage(pages), u \in Members \ doubted :
                            u \in e.listed => e.grants \subseteq localRoles[u]
                        /\ (\A g \in groups : Cardinality(InGroup(g)) <= GroupPage) =>
                            \A u \in Members \ doubted : \A r \in localRoles[u] \ Brought(u) :
                                \E e \in GroupsPage(pages) : u \in e.listed /\ r \in e.grants
    BY DEF MirrorIsExact
<1>1. ASSUME NEW u \in Members \ doubted
      PROVE  Grants(u) \subseteq localRoles[u] /\ localRoles[u] \subseteq Grants(u) \cup Brought(u)
    <2>1. Exact(u) /\ localRoles[u] \subseteq Roles
        BY DEF TenantRolesIInv, MirrorOK, RolesTyped
    <2> QED BY <2>1 DEF Exact
<1>2. ASSUME NEW p \in MembersPage, p.member \notin doubted
      PROVE  /\ p.granted \subseteq localRoles[p.member]
             /\ localRoles[p.member] \subseteq p.granted \cup Brought(p.member)
    <2>1. PICK u \in orgMembers : p = [member |-> u, granted |-> Grants(u)]
        BY DEF MembersPage
    <2>2. p.member = u /\ p.granted = Grants(u) /\ u \in Members \ doubted
        BY <1>2, <2>1 DEF TenantRolesIInv, RolesTyped
    <2> QED BY <1>1, <2>2
<1>3. ASSUME NEW u \in AvailableUsers \ doubted PROVE localRoles[u] \subseteq Brought(u)
    <2>1. \A g \in groups : <<u, g>> \notin inGroup
        BY DEF AvailableUsers, TenantRolesIInv, RolesTyped
    <2>2. Grants(u) = {}
        BY <2>1 DEF Grants
    <2>3. u \in Members \ doubted
        BY DEF AvailableUsers
    <2> QED BY <1>1, <2>2, <2>3
<1>4. ASSUME NEW pages \in Listings, NEW g \in groups, NEW u \in Members \ doubted, u \in pages[g]
      PROVE  groupRoles[g] \subseteq localRoles[u]
    <2>1. <<u, g>> \in inGroup
        BY <1>4 DEF Listings, Listed, InGroup
    <2> QED BY <1>1, <2>1, Granted
<1>5. ASSUME NEW pages \in Listings, \A g \in groups : Cardinality(InGroup(g)) <= GroupPage,
             NEW u \in Members \ doubted, NEW r \in localRoles[u] \ Brought(u)
      PROVE  \E g \in groups : u \in pages[g] /\ r \in groupRoles[g]
    <2>1. r \in Grants(u)
        BY <1>1
    <2>2. PICK g \in groups : <<u, g>> \in inGroup /\ r \in groupRoles[g]
        BY <2>1, Granted
    <2>3. pages[g] = InGroup(g)
        BY <1>5 DEF Listings, Listed
    <2> QED BY <2>2, <2>3 DEF InGroup
<1>6. ASSUME NEW pages \in Listings
      PROVE  /\ \A e \in GroupsPage(pages), u \in Members \ doubted :
                    u \in e.listed => e.grants \subseteq localRoles[u]
             /\ (\A g \in groups : Cardinality(InGroup(g)) <= GroupPage) =>
                    \A u \in Members \ doubted : \A r \in localRoles[u] \ Brought(u) :
                        \E e \in GroupsPage(pages) : u \in e.listed /\ r \in e.grants
    <2>1. \A e \in GroupsPage(pages), u \in Members \ doubted :
              u \in e.listed => e.grants \subseteq localRoles[u]
        BY <1>4 DEF GroupsPage
    <2>2. ASSUME \A g \in groups : Cardinality(InGroup(g)) <= GroupPage,
                 NEW u \in Members \ doubted, NEW r \in localRoles[u] \ Brought(u)
          PROVE  \E e \in GroupsPage(pages) : u \in e.listed /\ r \in e.grants
        <3>1. PICK g \in groups : u \in pages[g] /\ r \in groupRoles[g]
            BY <1>5, <2>2
        <3>2. [group |-> g, grants |-> groupRoles[g], listed |-> pages[g]] \in GroupsPage(pages)
            BY DEF GroupsPage
        <3> QED BY <3>1, <3>2
    <2> QED BY <2>1, <2>2
<1> QED BY <1>2, <1>3, <1>6

\* Between requests the local rows of a tenant's members are the roles that their groups
\* in the directory grant, and so what the members page and the groups page show, for
\* every number of members, groups, roles and requests and every size of a listing
\* (_sync_local_member_from_keycloak_member): excused are the members that an overlap, a
\* failure or a cut listing left in doubt, each until a request alone rewrites the member,
\* and the rows that sync_groups took from a token and the directory did not grant then.
THEOREM RowsMirrorGroups == TenantRolesSpec => []MirrorIsExact
<1>1. TenantRolesInit => TenantRolesIInv
    BY RolesStart
<1>2. TenantRolesIInv /\ [TenantRolesNext]_rolesVars => TenantRolesIInv'
    BY RolesStep
<1>3. TenantRolesIInv => MirrorIsExact
    BY PagesTellTheRows
<1> QED BY <1>1, <1>2, <1>3, PTL DEF TenantRolesSpec
=============================================================================
