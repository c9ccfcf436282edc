----------------------------- MODULE LocalUsers -----------------------------
(***************************************************************************)
(* The local rows that stand for the accounts of the identity provider: a  *)
(* sign-in finds or inserts the row of its account (identity.ensure_user), *)
(* the administration of members brings the row of a member up to date     *)
(* before roles are assigned to it (auth/identity_helpers.py).  A row is   *)
(* keyed by the issuer and the account; the issuer names a realm, reached  *)
(* through a public or an internal host.                                   *)
(***************************************************************************)
EXTENDS Naturals, FiniteSets

CONSTANTS
    SharedAccounts,   \* accounts of the shared realm,
    OtherAccounts,    \* and of another: user ids, which are never used again
    Usernames,
    NoUsername, NoUser,
    Hosts,            \* hosts in the issuer
    SharedHost,       \* the one of the provider's default issuer
    UserCalls,        \* concurrent requests
    MaxUsers          \* bound: rows

Accounts == SharedAccounts \cup OtherAccounts
UserIds == 1..MaxUsers

ASSUME LocalUsersAssumption ==
    /\ NoUser \notin Accounts /\ NoUsername \notin Usernames
    /\ SharedAccounts \cap OtherAccounts = {}
    /\ SharedHost \in Hosts
    /\ MaxUsers \in Nat

VARIABLES
    keycloak,     \* the username of an account, NoUsername unless it exists
    localUser,    \* the rows of table user
    userCall,     \* requests under way
    \* history: accounts that had a username; the rows a request ended with, by account;
    \* accounts met by two requests at a time that name the issuer by different hosts
    bearers, answered, crossed

userHistory == <<bearers, answered, crossed>>
userVars == <<keycloak, localUser, userCall, userHistory>>

NoRecord == [username |-> NoUsername, host |-> SharedHost, account |-> NoUser]
IdleCall == [pc |-> "idle", account |-> NoUser, host |-> SharedHost,
             username |-> NoUsername, id |-> 0, seen |-> NoRecord]

IsUser(i) == localUser[i] # NoRecord
\* realm_from_service
SameRealm(a, b) == a \in SharedAccounts <=> b \in SharedAccounts
RowsOfAccount(a) == {i \in UserIds : localUser[i].account = a}
\* The unique key (service, service_id)
Holders(a, host) == {i \in RowsOfAccount(a) : localUser[i].host = host}

\* (mutant of FindUser: the issuer as it is written)
FindExactly(a, host) == Holders(a, host)
\* find_user_by_service_identity: the exact issuer, or the realm by another host.  Of
\* several it is the one used last, which is any: who used them when is left out.
FindUser(a, host) == IF Holders(a, host) # {} THEN Holders(a, host) ELSE RowsOfAccount(a)

UserCallAt(r, pc) == userCall[r].pc = pc
Continue(r, frame) == userCall' = [userCall EXCEPT ![r] = frame]
AnswerWith(r, i) ==
    /\ answered' = [answered EXCEPT ![userCall[r].account] = @ \cup {i}]
    /\ Continue(r, IdleCall)

\* A request begins; others for the account may be under way.
BeginUserCall(r, a, host, pc) ==
    /\ UserCallAt(r, "idle") /\ keycloak[a] # NoUsername
    /\ Continue(r, [IdleCall EXCEPT !.pc = pc, !.account = a, !.host = host,
                                    !.username = keycloak[a]])
    /\ crossed' = IF \E s \in UserCalls : userCall[s].account = a /\ userCall[s].host # host
                  THEN crossed \cup {a} ELSE crossed
    /\ UNCHANGED <<keycloak, localUser, bearers, answered>>

(***************************************************************************)
(* A sign-in: install_auth_middleware, ensure_user                         *)
(***************************************************************************)

SignIn(r) == \E a \in Accounts, host \in Hosts : BeginUserCall(r, a, host, "looking")

\* An email that differs is written; the username is not.
LookForUser(r) ==
    LET found == FindUser(userCall[r].account, userCall[r].host) IN
    /\ UserCallAt(r, "looking")
    /\ IF found = {} THEN /\ Continue(r, [userCall[r] EXCEPT !.pc = "inserting"])
                          /\ UNCHANGED answered
       ELSE \E i \in found : AnswerWith(r, i)
    /\ UNCHANGED <<keycloak, localUser, bearers, crossed>>

\* The flush and the commit.  The key may be taken by now: the row that has it answers a
\* sign-in; for the upsert the session is spoilt, and the query of its fallback fails.
InsertUser(r) ==
    LET f == userCall[r]
        holders == Holders(f.account, f.host) IN
    /\ f.pc \in {"inserting", "adding"}
    /\ \/ /\ holders = {}
          /\ \E i \in {j \in UserIds : ~IsUser(j)} :
                /\ \A j \in 1..(i - 1) : IsUser(j)
                /\ localUser' = [localUser EXCEPT ![i] =
                        [username |-> f.username, host |-> f.host, account |-> f.account]]
                /\ AnswerWith(r, i)
       \/ /\ f.pc = "inserting"
          /\ \E i \in holders : AnswerWith(r, i)
          /\ UNCHANGED localUser
       \/ /\ f.pc = "adding" /\ holders # {}
          /\ Continue(r, IdleCall)
          /\ UNCHANGED <<localUser, answered>>
    /\ UNCHANGED <<keycloak, bearers, crossed>>

(***************************************************************************)
(* _upsert_local_shared_realm_member, of a member as the directory gave it *)
(***************************************************************************)

ReadMember(r) == \E a \in SharedAccounts : BeginUserCall(r, a, SharedHost, "matching")

\* The same username of any realm; one of the shared realm is taken first.
SameUsername(name) ==
    LET matches == {i \in UserIds : localUser[i].username = name}
        shared == {i \in matches : localUser[i].account \in SharedAccounts}
    IN  IF shared # {} THEN shared ELSE matches

MatchMember(r) ==
    LET f == userCall[r]
        exact == FindUser(f.account, SharedHost)
        matches == IF exact # {} THEN exact ELSE SameUsername(f.username) IN
    /\ UserCallAt(r, "matching")
    /\ IF matches = {} THEN Continue(r, [f EXCEPT !.pc = "ensuring"])
       ELSE \E i \in matches :
                Continue(r, [f EXCEPT !.pc = "refreshing", !.id = i, !.seen = localUser[i]])
    /\ UNCHANGED <<keycloak, localUser, userHistory>>

\* The columns that differ from what was read are written: the username in a commit of its
\* own, issuer and account in the next one, which fails if another row has the key.
RefreshMember(r) ==
    LET f == userCall[r]
        named == [localUser EXCEPT ![f.id].username =
                    IF f.seen.username = f.username THEN @ ELSE f.username]
        keyed == [named[f.id] EXCEPT
                    !.host = IF f.seen.host = SharedHost THEN @ ELSE SharedHost,
                    !.account = IF f.seen.account = f.account THEN @ ELSE f.account]
        taken == Holders(keyed.account, keyed.host) \ {f.id} # {} IN
    /\ UserCallAt(r, "refreshing")
    /\ localUser' = IF taken THEN named ELSE [named EXCEPT ![f.id] = keyed]
    /\ IF taken THEN Continue(r, IdleCall) /\ UNCHANGED answered ELSE AnswerWith(r, f.id)
    /\ UNCHANGED <<keycloak, bearers, crossed>>

\* ensure_user looks again.
EnsureMember(r) ==
    LET f == userCall[r]
        found == FindUser(f.account, SharedHost) IN
    /\ UserCallAt(r, "ensuring")
    /\ \/ /\ found = {}
          /\ Continue(r, [f EXCEPT !.pc = "adding"])
          /\ UNCHANGED answered
       \/ \E i \in found : AnswerWith(r, i)
    /\ UNCHANGED <<keycloak, localUser, bearers, crossed>>

\* The request fails before it writes.
UserCallFails(r) ==
    /\ ~UserCallAt(r, "idle")
    /\ Continue(r, IdleCall)
    /\ UNCHANGED <<keycloak, localUser, userHistory>>

(***************************************************************************)
(* The administration of the identity provider                             *)
(***************************************************************************)

\* A username is free in a realm when no account of it has the name; accounts are created
\* once, renamed, and deleted for good.
NameAccount(a) ==
    \E name \in Usernames :
        /\ \A b \in Accounts : SameRealm(a, b) => keycloak[b] # name
        /\ keycloak[a] # NoUsername \/ \A n \in Usernames : a \notin bearers[n]
        /\ keycloak' = [keycloak EXCEPT ![a] = name]
        /\ bearers' = [bearers EXCEPT ![name] = @ \cup {a}]
        /\ UNCHANGED <<localUser, userCall, answered, crossed>>

DeleteAccount(a) ==
    /\ keycloak[a] # NoUsername
    /\ keycloak' = [keycloak EXCEPT ![a] = NoUsername]
    /\ UNCHANGED <<localUser, userCall, userHistory>>

LocalUsersInit ==
    /\ keycloak = [a \in Accounts |-> NoUsername]
    /\ localUser = [i \in UserIds |-> NoRecord]
    /\ userCall = [r \in UserCalls |-> IdleCall]
    /\ bearers = [n \in Usernames |-> {}]
    /\ answered = [a \in Accounts |-> {}]
    /\ crossed = {}

LocalUsersNext ==
    \/ \E r \in UserCalls :
        \/ SignIn(r) \/ LookForUser(r) \/ InsertUser(r)
        \/ ReadMember(r) \/ MatchMember(r) \/ RefreshMember(r) \/ EnsureMember(r)
        \/ UserCallFails(r)
    \/ \E a \in Accounts : NameAccount(a) \/ DeleteAccount(a)

LocalUsersSpec == LocalUsersInit /\ [][LocalUsersNext]_userVars

UserRecords ==
    [username : Usernames \cup {NoUsername}, host : Hosts, account : Accounts \cup {NoUser}]
UserFrames ==
    [pc : {"idle", "looking", "inserting", "matching", "refreshing", "ensuring", "adding"},
     account : Accounts \cup {NoUser}, host : Hosts, username : Usernames \cup {NoUsername},
     id : 0..MaxUsers, seen : UserRecords]
LocalUsersTypeOK ==
    /\ keycloak \in [Accounts -> Usernames \cup {NoUsername}]
    /\ localUser \in [UserIds -> UserRecords]
    /\ userCall \in [UserCalls -> UserFrames]
    /\ bearers \in [Usernames -> SUBSET Accounts]
    /\ answered \in [Accounts -> SUBSET UserIds]
    /\ crossed \subseteq Accounts

(***************************************************************************)
(* Properties                                                              *)
(***************************************************************************)

\* No other account, of any realm, ever had a name of this one.
NameIsOwn(a) == \A n \in Usernames : a \in bearers[n] => bearers[n] = {a}

\* "A local user is one realm plus one Keycloak user id, whichever host issued the token":
\* an account has one row, under a name it has had, and every request for it, a sign-in or
\* the administration of its roles, has ended with that row, so the roles are found by
\* whoever they were given to; however often the account is renamed, and whatever fails or
\* is deleted on the way.  Unless an account of this or another realm has had one of its
\* names, or two requests for it that name the issuer by different hosts overlapped.
UserRowIsKept ==
    \A a \in Accounts : NameIsOwn(a) /\ a \notin crossed =>
        /\ Cardinality(RowsOfAccount(a)) <= 1
        /\ answered[a] \subseteq RowsOfAccount(a)
        /\ \A i \in RowsOfAccount(a) : a \in bearers[localUser[i].username]
=============================================================================
