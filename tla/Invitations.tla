----------------------------- MODULE Invitations -----------------------------
(***************************************************************************)
(* The invitations of one email address to one tenant                      *)
(* (services/tenant_invitation_service.py): administrators create, resend, *)
(* list and revoke them, the invitee accepts a mailed link.  Every call    *)
(* reads a row, may call the SMTP relay or the directory, and then writes  *)
(* the columns it changed without looking at the row again; sessions keep  *)
(* what they loaded (expire_on_commit=False).                              *)
(***************************************************************************)
EXTENDS Naturals, FiniteSets

CONSTANTS
    Invites,      \* ids of the rows that can be created
    InviteCalls,  \* concurrent requests
    NoInvite,     \* the row of an idle request
    MaxTokens     \* bound: tokens generated per row

ASSUME InvitationsAssumption == NoInvite \notin Invites /\ MaxTokens \in Nat \ {0}

VARIABLES
    \* the rows
    invitation, lapsed, token,
    \* tokens generated for a row, and the pairs <<row, token>> in the invitee's mailbox
    issued, mailed,
    \* the directory: the account of the address, its membership in the tenant
    account, member,
    \* requests under way
    inviteCall,
    \* history: rows revoked while no other request held them; why rows may be doubled
    sealed, doubled

inviteRows == <<invitation, lapsed, token>>
inviteMail == <<issued, mailed>>
directory == <<account, member>>
inviteHistory == <<sealed, doubled>>
inviteVars == <<inviteRows, inviteMail, directory, inviteCall, inviteHistory>>

TenantInvitationStatus == {"PENDING", "ACCEPTED", "REVOKED", "EXPIRED"}

NoCall == [pc |-> "idle", op |-> "none", row |-> NoInvite, seen |-> "absent", token |-> 0]

\* seen: the status as the session loaded it.
InviteFrames ==
    [pc : {"idle", "expiring", "checked", "sending", "sent", "accepting", "provisioned",
           "joined", "revoking"},
     op : {"none", "create", "resend", "accept", "list", "revoke"},
     row : Invites \cup {NoInvite},
     seen : TenantInvitationStatus \cup {"absent"},
     token : 0..MaxTokens]

InvitationsTypeOK ==
    /\ invitation \in [Invites -> TenantInvitationStatus \cup {"absent"}]
    /\ lapsed \in [Invites -> BOOLEAN]
    /\ token \in [Invites -> 0..MaxTokens]
    /\ issued \in [Invites -> 0..MaxTokens]
    /\ mailed \subseteq Invites \X (1..MaxTokens)
    /\ account \in BOOLEAN
    /\ member \in BOOLEAN
    /\ inviteCall \in [InviteCalls -> InviteFrames]
    /\ sealed \subseteq Invites
    /\ doubled \in BOOLEAN

InvitationsInit ==
    /\ invitation = [i \in Invites |-> "absent"]
    /\ lapsed = [i \in Invites |-> FALSE]
    /\ token = [i \in Invites |-> 0]
    /\ issued = [i \in Invites |-> 0]
    /\ mailed = {}
    /\ account = FALSE
    /\ member = FALSE
    /\ inviteCall = [c \in InviteCalls |-> NoCall]
    /\ sealed = {}
    /\ doubled = FALSE

(***************************************************************************)
(* Rows and call frames                                                    *)
(***************************************************************************)

CallAt(c, pc) == inviteCall[c].pc = pc
OnRow(c) == inviteCall[c].row
Step(c, frame) == inviteCall' = [inviteCall EXCEPT ![c] = frame]
Proceed(c, pc) == Step(c, [inviteCall[c] EXCEPT !.pc = pc])
SetStatus(i, status) == invitation' = [invitation EXCEPT ![i] = status]

Pending(i) == invitation[i] = "PENDING"
\* _is_expired, as _maybe_expire asks it
MustExpire(i) == Pending(i) /\ lapsed[i]

\* (mutant of Resendable: a revoked invitation may be sent again)
ResendableAgain(status) == status \in {"PENDING", "EXPIRED", "REVOKED"}
\* resend_invitation refuses what was accepted or revoked.
Resendable(status) == status \in {"PENDING", "EXPIRED"}

\* _has_active_pending_invitation
ActivePending(i) == Pending(i) /\ ~lapsed[i]

(***************************************************************************)
(* create_invitation                                                       *)
(***************************************************************************)

\* The row that expires last is looked at: it is active, or it is flipped to EXPIRED.
CheckPending(c) ==
    /\ CallAt(c, "idle")
    /\ \A i \in Invites : ~ActivePending(i)
    /\ \/ /\ \A i \in Invites : ~MustExpire(i)
          /\ Step(c, [NoCall EXCEPT !.pc = "checked", !.op = "create"])
       \/ \E i \in Invites :
            /\ MustExpire(i)
            /\ Step(c, [NoCall EXCEPT !.pc = "expiring", !.op = "create", !.row = i])
    /\ UNCHANGED <<inviteRows, inviteMail, directory, inviteHistory>>

\* get_user(username=email) must find nobody; the new row has an id and a token, and
\* is not in the table yet.
CheckDirectory(c) ==
    /\ CallAt(c, "checked")
    /\ ~account
    /\ \E i \in Invites :
        /\ issued[i] = 0
        /\ issued' = [issued EXCEPT ![i] = 1]
        /\ Step(c, [inviteCall[c] EXCEPT !.pc = "sending", !.row = i, !.token = 1])
    /\ UNCHANGED <<inviteRows, mailed, directory, inviteHistory>>

\* db.session.add, commit.  The check was made some steps ago: another request may have
\* inserted a row meanwhile.
InsertInvitation(c) ==
    /\ CallAt(c, "sent") /\ inviteCall[c].op = "create"
    /\ SetStatus(OnRow(c), "PENDING")
    /\ token' = [token EXCEPT ![OnRow(c)] = inviteCall[c].token]
    /\ doubled' = (doubled \/ \E d \in InviteCalls \ {c} : inviteCall[d].op = "create")
    /\ Step(c, NoCall)
    /\ UNCHANGED <<lapsed, inviteMail, directory, sealed>>

(***************************************************************************)
(* _send_invitation_email: the relay takes the message, or it raises       *)
(***************************************************************************)

SendInvitation(c) ==
    /\ CallAt(c, "sending")
    /\ mailed' = mailed \cup {<<OnRow(c), inviteCall[c].token>>}
    /\ Proceed(c, "sent")
    /\ UNCHANGED <<inviteRows, issued, directory, inviteHistory>>

(***************************************************************************)
(* _maybe_expire: list_invitations and every read by id or by token        *)
(***************************************************************************)

ReadLapsed(c) ==
    /\ CallAt(c, "idle")
    /\ \E i \in Invites, op \in {"resend", "accept", "list"} :
        /\ MustExpire(i)
        /\ Step(c, [NoCall EXCEPT !.pc = "expiring", !.op = op, !.row = i])
    /\ UNCHANGED <<inviteRows, inviteMail, directory, inviteHistory>>

\* The commit; resend and create go on, accept answers invitation_expired.
WriteExpired(c) ==
    /\ CallAt(c, "expiring")
    /\ SetStatus(OnRow(c), "EXPIRED")
    /\ CASE inviteCall[c].op = "create" ->
              Step(c, [inviteCall[c] EXCEPT !.pc = "checked", !.row = NoInvite])
         [] inviteCall[c].op = "resend" ->
              IF issued[OnRow(c)] < MaxTokens
              THEN Step(c, [inviteCall[c] EXCEPT !.pc = "sending", !.seen = "EXPIRED",
                                                 !.token = issued[OnRow(c)] + 1])
              ELSE Step(c, NoCall)
         [] OTHER -> Step(c, NoCall)
    /\ issued' = [i \in Invites |->
                    IF i = OnRow(c) /\ inviteCall[c].op = "resend" /\ issued[i] < MaxTokens
                    THEN issued[i] + 1 ELSE issued[i]]
    /\ UNCHANGED <<lapsed, token, mailed, directory, inviteHistory>>

(***************************************************************************)
(* resend_invitation                                                       *)
(***************************************************************************)

ReadForResend(c) ==
    /\ CallAt(c, "idle")
    /\ \E i \in Invites :
        /\ Resendable(invitation[i]) /\ ~MustExpire(i)
        /\ issued[i] < MaxTokens
        /\ issued' = [issued EXCEPT ![i] = @ + 1]
        /\ Step(c, [NoCall EXCEPT !.pc = "sending", !.op = "resend", !.row = i,
                                  !.seen = invitation[i], !.token = issued[i] + 1])
    /\ UNCHANGED <<inviteRows, mailed, directory, inviteHistory>>

\* The unit of work writes the columns that differ from what was loaded: the status only
\* when an EXPIRED row was read.
RotateToken(c) ==
    /\ CallAt(c, "sent") /\ inviteCall[c].op = "resend"
    /\ token' = [token EXCEPT ![OnRow(c)] = inviteCall[c].token]
    /\ lapsed' = [lapsed EXCEPT ![OnRow(c)] = FALSE]
    /\ SetStatus(OnRow(c), IF inviteCall[c].seen # "PENDING" THEN "PENDING"
                           ELSE invitation[OnRow(c)])
    /\ doubled' = (doubled \/ lapsed[OnRow(c)])
    /\ Step(c, NoCall)
    /\ UNCHANGED <<inviteMail, directory, sealed>>

(***************************************************************************)
(* revoke_invitation                                                       *)
(***************************************************************************)

ReadForRevoke(c) ==
    /\ CallAt(c, "idle")
    /\ \E i \in Invites :
        /\ invitation[i] \notin {"absent", "ACCEPTED"}
        /\ Step(c, [NoCall EXCEPT !.pc = "revoking", !.op = "revoke", !.row = i,
                                  !.seen = invitation[i]])
    /\ UNCHANGED <<inviteRows, inviteMail, directory, inviteHistory>>

WriteRevoked(c) ==
    /\ CallAt(c, "revoking")
    /\ invitation' = IF inviteCall[c].seen = "REVOKED" THEN invitation
                     ELSE [invitation EXCEPT ![OnRow(c)] = "REVOKED"]
    /\ sealed' = IF /\ invitation'[OnRow(c)] = "REVOKED"
                    /\ \A d \in InviteCalls \ {c} : OnRow(d) # OnRow(c)
                 THEN sealed \cup {OnRow(c)} ELSE sealed
    /\ Step(c, NoCall)
    /\ UNCHANGED <<lapsed, token, inviteMail, directory, doubled>>

(***************************************************************************)
(* accept_invitation, with a link from the mailbox                         *)
(***************************************************************************)

\* _pending_invitation_by_token
ReadForAccept(c) ==
    /\ CallAt(c, "idle")
    /\ \E i \in Invites :
        /\ <<i, token[i]>> \in mailed
        /\ ActivePending(i)
        /\ Step(c, [NoCall EXCEPT !.pc = "accepting", !.op = "accept", !.row = i,
                                  !.seen = "PENDING"])
    /\ UNCHANGED <<inviteRows, inviteMail, directory, inviteHistory>>

\* get_user, else create_user with the password.
EnsureAccount(c) ==
    /\ CallAt(c, "accepting")
    /\ account' = TRUE
    /\ Proceed(c, "provisioned")
    /\ UNCHANGED <<inviteRows, inviteMail, member, inviteHistory>>

\* add_tenant_member
JoinTenant(c) ==
    /\ CallAt(c, "provisioned")
    /\ member' = TRUE
    /\ Proceed(c, "joined")
    /\ UNCHANGED <<inviteRows, inviteMail, account, inviteHistory>>

\* (mutant of WriteAccepted: the outcome in the directory is written, no status of the enum)
WriteAcceptedAsMember(c) ==
    /\ CallAt(c, "joined")
    /\ SetStatus(OnRow(c), "MEMBER")
    /\ Step(c, NoCall)
    /\ UNCHANGED <<lapsed, token, inviteMail, directory, inviteHistory>>

WriteAccepted(c) ==
    /\ CallAt(c, "joined")
    /\ SetStatus(OnRow(c), "ACCEPTED")
    /\ Step(c, NoCall)
    /\ UNCHANGED <<lapsed, token, inviteMail, directory, inviteHistory>>

(***************************************************************************)
(* Environment                                                             *)
(***************************************************************************)

\* expires_at_in_seconds passes.
Lapse(i) ==
    /\ invitation[i] # "absent" /\ ~lapsed[i]
    /\ lapsed' = [lapsed EXCEPT ![i] = TRUE]
    /\ UNCHANGED <<invitation, token, inviteMail, directory, inviteCall, inviteHistory>>

\* The request fails (SMTP, directory, database) or its process dies where it is.
CallFails(c) ==
    /\ ~CallAt(c, "idle")
    /\ Step(c, NoCall)
    /\ UNCHANGED <<inviteRows, inviteMail, directory, inviteHistory>>

InvitationsNext ==
    \/ \E c \in InviteCalls :
        \/ CheckPending(c) \/ CheckDirectory(c) \/ SendInvitation(c) \/ InsertInvitation(c)
        \/ ReadLapsed(c) \/ WriteExpired(c) \/ ReadForResend(c) \/ RotateToken(c)
        \/ ReadForRevoke(c) \/ WriteRevoked(c)
        \/ ReadForAccept(c) \/ EnsureAccount(c) \/ JoinTenant(c) \/ WriteAccepted(c)
        \/ CallFails(c)
    \/ \E i \in Invites : Lapse(i)

InvitationsSpec == InvitationsInit /\ [][InvitationsNext]_inviteVars

(***************************************************************************)
(* Properties                                                              *)
(***************************************************************************)

LinkWasMailed == \A i \in Invites : Pending(i) => <<i, token[i]>> \in mailed
AcceptedIsMember == \A i \in Invites : invitation[i] = "ACCEPTED" => account /\ member
RevokedStays ==
    \A i \in sealed :
        /\ invitation[i] = "REVOKED"
        /\ \A c \in InviteCalls : OnRow(c) = i => inviteCall[c].op = "revoke"
DoubledIsExcused == Cardinality({i \in Invites : ActivePending(i)}) > 1 => doubled

\* A link that can be used was delivered: the token of a pending row went through the
\* relay before the row was written, whatever fails in between.  Whoever reports the
\* invitation accepted has the account and the membership: a failed directory call leaves
\* it pending, and the same link can be used again.  An invitation revoked while no other
\* request held its row stays revoked, and nobody is joining through it: not by an old
\* link, a resend, or the lazy expiry.  And two usable invitations of one address come from
\* two requests that overlapped, or from reviving one that had lapsed.
LinkStandsOrFalls == LinkWasMailed /\ AcceptedIsMember /\ RevokedStays /\ DoubledIsExcused
=============================================================================
