---------------------------- MODULE AccountProofs ---------------------------
(***************************************************************************)
(* What is proved of what the backend keeps of an account of Keycloak: its *)
(* local row and its cached memberships.                                   *)
(***************************************************************************)
EXTENDS LocalUsers, MembershipCache, FiniteSetTheorems, TLAPS

-----------------------------------------------------------------------------
(***************************************************************************)
(* LocalUsers, for any number of accounts, hosts, names and concurrent     *)
(* requests: the row of an account is found again, and is nobody else's.   *)
(* The strengthening says whose a row is by its name.                      *)
(***************************************************************************)

\* The usernames an account has had.
Names(a) == {n \in Usernames : a \in bearers[n]}

\* An account has its name.
AccountsNamed == \A a \in Accounts : keycloak[a] # NoUsername => keycloak[a] \in Names(a)

\* A request under way is about an account, under a name it has had; the administration
\* uses the default issuer, and refreshes a row that exists.
UserCallsOK ==
    \A r \in UserCalls :
        /\ UserCallAt(r, "idle") => userCall[r].account = NoUser
        /\ ~UserCallAt(r, "idle") =>
               userCall[r].account \in Accounts /\ userCall[r].username \in Names(userCall[r].account)
        /\ userCall[r].pc \in {"matching", "refreshing", "ensuring", "adding"} =>
               userCall[r].host = SharedHost
        /\ UserCallAt(r, "refreshing") =>
               userCall[r].id \in UserIds /\ localUser[userCall[r].id].username # NoUsername

\* A row is under a name that somebody has had.
RowsNamed ==
    \A i \in UserIds :
        /\ localUser[i].username # NoUsername => bearers[localUser[i].username] # {}
        /\ localUser[i].account \in Accounts => localUser[i].username # NoUsername

\* The rows of an account are the rows under its names, and only its own requests write
\* them or end with them.
RowsOwned ==
    \A a \in Accounts : NameIsOwn(a) =>
        /\ \A i \in UserIds : localUser[i].account = a <=> localUser[i].username \in Names(a)
        /\ \A r \in UserCalls : UserCallAt(r, "refreshing") =>
               (userCall[r].account = a <=> localUser[userCall[r].id].account = a)
        /\ answered[a] \subseteq RowsOfAccount(a)

\* The requests for an account name one host, also while they insert, so they meet the row.
RowsSingle ==
    \A a \in Accounts : NameIsOwn(a) /\ a \notin crossed =>
        /\ \A i, j \in RowsOfAccount(a) : i = j
        /\ \A r, s \in UserCalls : userCall[r].account = a /\ userCall[s].account = a =>
               userCall[r].host = userCall[s].host
        /\ \A r \in UserCalls :
               userCall[r].account = a /\ userCall[r].pc \in {"inserting", "adding"} =>
                   \A i \in RowsOfAccount(a) : localUser[i].host = userCall[r].host
\* No row and no request are of their types.
LEMMA NoRecordTyped == NoRecord \in UserRecords /\ IdleCall \in UserFrames
BY LocalUsersAssumption DEF NoRecord, IdleCall, UserRecords, UserFrames

\* A request's next frame replaces its own and leaves those of the other requests alone.
LEMMA FrameReplaced ==
    ASSUME LocalUsersTypeOK, NEW r \in UserCalls, NEW f, Continue(r, f)
    PROVE  /\ userCall'[r] = f
           /\ \A s \in UserCalls : s # r => userCall'[s] = userCall[s]
           /\ f \in UserFrames => userCall' \in [UserCalls -> UserFrames]
BY DEF Continue, LocalUsersTypeOK

\* What the two commits of _upsert_local_shared_realm_member write: one row, some of the
\* columns, and they end the request.
LEMMA RefreshWrites ==
    ASSUME LocalUsersTypeOK, NEW r \in UserCalls, RefreshMember(r), userCall[r].id \in UserIds
    PROVE  LET f == userCall[r] IN
           /\ localUser' \in [UserIds -> UserRecords]
           /\ \A j \in UserIds : j # f.id => localUser'[j] = localUser[j]
           /\ localUser'[f.id].username \in {localUser[f.id].username, f.username}
           /\ localUser'[f.id].account \in {localUser[f.id].account, f.account}
           /\ localUser'[f.id].host \in {localUser[f.id].host, SharedHost}
           /\ userCall' = [userCall EXCEPT ![r] = IdleCall]
           /\ \/ answered' = answered
              \/ answered' = [answered EXCEPT ![f.account] = @ \cup {f.id}]
           /\ f.username = NoUsername \/ f.username \in Usernames
<1> DEFINE f == userCall[r]
           i == f.id
           name == IF f.seen.username = f.username THEN localUser[i].username ELSE f.username
           host == IF f.seen.host = SharedHost THEN localUser[i].host ELSE SharedHost
           account == IF f.seen.account = f.account THEN localUser[i].account ELSE f.account
           named == [localUser EXCEPT ![i].username = name]
           keyed == [named[i] EXCEPT !.host = host, !.account = account]
<1>1. f \in UserFrames /\ localUser[i] \in UserRecords
  BY DEF LocalUsersTypeOK
<1>2. named[i] = [localUser[i] EXCEPT !.username = name] /\ named \in [UserIds -> UserRecords]
  BY <1>1 DEF LocalUsersTypeOK, UserRecords, UserFrames
<1>3. keyed \in UserRecords /\ keyed.username = name /\ keyed.host = host /\ keyed.account = account
  BY <1>1, <1>2, LocalUsersAssumption DEF UserRecords, UserFrames
<1>4. named[i].username = name /\ named[i].host = localUser[i].host
      /\ named[i].account = localUser[i].account
  BY <1>1, <1>2 DEF UserRecords
<1>5. localUser' = named \/ localUser' = [named EXCEPT ![i] = keyed]
  BY <1>1 DEF RefreshMember, UserFrames, UserRecords
<1>6. \A j \in UserIds : j # i => named[j] = localUser[j]
  BY DEF LocalUsersTypeOK
<1>7. localUser' \in [UserIds -> UserRecords] /\ (localUser'[i] = named[i] \/ localUser'[i] = keyed)
  BY <1>2, <1>3, <1>5
<1>8. \A j \in UserIds : j # i => localUser'[j] = localUser[j]
  BY <1>2, <1>5, <1>6
<1>9. /\ name \in {localUser[i].username, f.username}
      /\ host \in {localUser[i].host, SharedHost}
      /\ account \in {localUser[i].account, f.account}
  OBVIOUS
<1>10. /\ userCall' = [userCall EXCEPT ![r] = IdleCall]
       /\ \/ answered' = answered
          \/ answered' = [answered EXCEPT ![f.account] = @ \cup {f.id}]
  BY DEF RefreshMember, AnswerWith, Continue
<1>11. f.username = NoUsername \/ f.username \in Usernames
  BY <1>1 DEF UserFrames
<1> HIDE DEF name, host, account, named, keyed
<1>12. QED
  BY <1>3, <1>4, <1>7, <1>8, <1>9, <1>10, <1>11

\* What the insertion of a row writes: a free row with the unique key of the request, or
\* nothing.
LEMMA InsertWrites ==
    ASSUME LocalUsersTypeOK, NEW r \in UserCalls, InsertUser(r)
    PROVE  LET f == userCall[r]
               record == [username |-> f.username, host |-> f.host, account |-> f.account] IN
           /\ userCall' = [userCall EXCEPT ![r] = IdleCall]
           /\ f.pc \in {"inserting", "adding"}
           /\ \/ \E i \in UserIds : /\ ~IsUser(i) /\ Holders(f.account, f.host) = {}
                                    /\ localUser' = [localUser EXCEPT ![i] = record]
                                    /\ answered' = [answered EXCEPT ![f.account] = @ \cup {i}]
              \/ \E i \in Holders(f.account, f.host) :
                    /\ localUser' = localUser
                    /\ answered' = [answered EXCEPT ![f.account] = @ \cup {i}]
              \/ localUser' = localUser /\ answered' = answered
BY DEF InsertUser, AnswerWith, Continue

\* The rows a lookup finds are the account's.
LEMMA FoundAreOwn ==
    \A a, host : FindUser(a, host) \subseteq RowsOfAccount(a) /\ Holders(a, host) \subseteq RowsOfAccount(a)
BY DEF FindUser, Holders, RowsOfAccount

\* A lookup comes back empty only for an account without a row.
LEMMA NotFoundHasNone ==
    \A a, host : FindUser(a, host) = {} => RowsOfAccount(a) = {}
BY DEF FindUser

\* What _upsert_local_shared_realm_member goes on with: no row, or one of the account or
\* of its username.
LEMMA MatchChoices ==
    ASSUME NEW r \in UserCalls, MatchMember(r)
    PROVE  LET f == userCall[r] IN
           \/ Continue(r, [f EXCEPT !.pc = "ensuring"])
           \/ \E i \in UserIds :
                /\ localUser[i].account = f.account \/ localUser[i].username = f.username
                /\ Continue(r, [f EXCEPT !.pc = "refreshing", !.id = i, !.seen = localUser[i]])
<1> DEFINE f == userCall[r]
           matches == IF FindUser(f.account, SharedHost) # {} THEN FindUser(f.account, SharedHost)
                      ELSE SameUsername(f.username)
<1>1. \A i \in FindUser(f.account, SharedHost) : i \in UserIds /\ localUser[i].account = f.account
  BY FoundAreOwn DEF RowsOfAccount
<1>2. \A i \in SameUsername(f.username) : i \in UserIds /\ localUser[i].username = f.username
  BY DEF SameUsername
<1>3. \/ Continue(r, [f EXCEPT !.pc = "ensuring"])
      \/ \E i \in matches : Continue(r, [f EXCEPT !.pc = "refreshing", !.id = i, !.seen = localUser[i]])
  BY DEF MatchMember
<1>4. QED
  BY <1>1, <1>2, <1>3

\* Every variable keeps its type.
LEMMA LocalUsersTypeStep ==
    ASSUME LocalUsersTypeOK, UserCallsOK, [LocalUsersNext]_userVars
    PROVE  LocalUsersTypeOK'
<1> USE LocalUsersAssumption
<1>1. ASSUME NEW r \in UserCalls, NEW a \in Accounts, NEW host \in Hosts,
             NEW pc \in {"looking", "matching"}, BeginUserCall(r, a, host, pc)
      PROVE  LocalUsersTypeOK'
  <2>1. [IdleCall EXCEPT !.pc = pc, !.account = a, !.host = host, !.username = keycloak[a]] \in UserFrames
    BY NoRecordTyped DEF LocalUsersTypeOK, UserFrames, IdleCall
  <2>2. userCall' \in [UserCalls -> UserFrames]
    BY <1>1, <2>1, FrameReplaced DEF BeginUserCall
  <2>3. crossed' \subseteq Accounts
    BY <1>1 DEF BeginUserCall, LocalUsersTypeOK
  <2>4. QED
    BY <1>1, <2>2, <2>3 DEF BeginUserCall, LocalUsersTypeOK
<1>2. ASSUME NEW r \in UserCalls, NEW i \in UserIds, AnswerWith(r, i), ~UserCallAt(r, "idle")
      PROVE  userCall' \in [UserCalls -> UserFrames] /\ answered' \in [Accounts -> SUBSET UserIds]
  <2>1. userCall' \in [UserCalls -> UserFrames]
    BY <1>2, FrameReplaced, NoRecordTyped DEF AnswerWith
  <2>2. QED
    BY <1>2, <2>1 DEF AnswerWith, LocalUsersTypeOK, UserCallsOK
<1>3. \A a, host : FindUser(a, host) \subseteq UserIds /\ Holders(a, host) \subseteq UserIds
  BY FoundAreOwn DEF RowsOfAccount
<1>4. ASSUME NEW r \in UserCalls, NEW pc \in {"inserting", "ensuring", "adding"},
             Continue(r, [userCall[r] EXCEPT !.pc = pc])
      PROVE  userCall' \in [UserCalls -> UserFrames]
  <2>1. userCall[r] \in UserFrames
    BY DEF LocalUsersTypeOK
  <2>2. [userCall[r] EXCEPT !.pc = pc] \in UserFrames
    BY <2>1 DEF UserFrames
  <2>3. QED
    BY <1>4, <2>2, FrameReplaced
<1>5. ASSUME NEW r \in UserCalls, LookForUser(r) PROVE LocalUsersTypeOK'
  BY <1>2, <1>3, <1>4, <1>5 DEF LookForUser, UserCallAt, LocalUsersTypeOK
<1>6. ASSUME NEW r \in UserCalls, InsertUser(r) PROVE LocalUsersTypeOK'
  <2> DEFINE f == userCall[r]
             record == [username |-> f.username, host |-> f.host, account |-> f.account]
  <2>1. f \in UserFrames /\ f.account \in Accounts
    BY <1>6 DEF InsertUser, LocalUsersTypeOK, UserCallsOK, UserCallAt
  <2>2. record \in UserRecords
    BY <2>1 DEF UserFrames, UserRecords
  <2>3. userCall' \in [UserCalls -> UserFrames]
    BY <1>6, InsertWrites, NoRecordTyped DEF LocalUsersTypeOK
  <2>4. localUser' \in [UserIds -> UserRecords] /\ answered' \in [Accounts -> SUBSET UserIds]
    BY <1>3, <1>6, <2>1, <2>2, InsertWrites DEF LocalUsersTypeOK
  <2>5. QED
    BY <1>6, <2>3, <2>4 DEF InsertUser, LocalUsersTypeOK
<1>7. ASSUME NEW r \in UserCalls, MatchMember(r) PROVE LocalUsersTypeOK'
  <2> DEFINE f == userCall[r]
  <2>1. f \in UserFrames
    BY DEF LocalUsersTypeOK
  <2>2. ASSUME NEW i \in UserIds, Continue(r, [f EXCEPT !.pc = "refreshing", !.id = i, !.seen = localUser[i]])
        PROVE  userCall' \in [UserCalls -> UserFrames]
    <3>1. localUser[i] \in UserRecords /\ i \in 0..MaxUsers
      BY DEF LocalUsersTypeOK, UserIds
    <3>2. [f EXCEPT !.pc = "refreshing", !.id = i, !.seen = localUser[i]] \in UserFrames
      BY <2>1, <3>1 DEF UserFrames
    <3>3. QED
      BY <2>2, <3>2, FrameReplaced
  <2>3. \A name : SameUsername(name) \subseteq UserIds
    BY DEF SameUsername
  <2>4. userCall' \in [UserCalls -> UserFrames]
    BY <1>3, <1>4, <1>7, <2>2, <2>3 DEF MatchMember
  <2>5. QED
    BY <1>7, <2>4 DEF MatchMember, userHistory, LocalUsersTypeOK
<1>8. ASSUME NEW r \in UserCalls, RefreshMember(r) PROVE LocalUsersTypeOK'
  <2>1. userCall[r].id \in UserIds /\ userCall[r].account \in Accounts
    BY <1>8 DEF RefreshMember, UserCallsOK, UserCallAt
  <2>2. localUser' \in [UserIds -> UserRecords]
    BY <1>8, <2>1, RefreshWrites
  <2>3. userCall' \in [UserCalls -> UserFrames] /\ answered' \in [Accounts -> SUBSET UserIds]
    BY <1>8, <2>1, RefreshWrites, NoRecordTyped DEF LocalUsersTypeOK
  <2>4. QED
    BY <1>8, <2>2, <2>3 DEF RefreshMember, LocalUsersTypeOK
<1>9. ASSUME NEW r \in UserCalls, EnsureMember(r) PROVE LocalUsersTypeOK'
  BY <1>2, <1>3, <1>4, <1>9 DEF EnsureMember, UserCallAt, LocalUsersTypeOK
<1>10. ASSUME NEW r \in UserCalls, UserCallFails(r) PROVE LocalUsersTypeOK'
  BY <1>10, FrameReplaced, NoRecordTyped DEF UserCallFails, userHistory, LocalUsersTypeOK
<1>11. ASSUME NEW a \in Accounts, NameAccount(a) \/ DeleteAccount(a) PROVE LocalUsersTypeOK'
  BY <1>11 DEF NameAccount, DeleteAccount, userHistory, LocalUsersTypeOK
<1>12. CASE UNCHANGED userVars
  BY <1>12 DEF userVars, userHistory, LocalUsersTypeOK
<1>13. ASSUME NEW r \in UserCalls, SignIn(r) \/ ReadMember(r) PROVE LocalUsersTypeOK'
  BY <1>1, <1>13 DEF SignIn, ReadMember, Accounts
<1>14. QED
  BY <1>5, <1>6, <1>7, <1>8, <1>9, <1>10, <1>11, <1>12, <1>13 DEF LocalUsersNext

\* No name is forgotten, and a row under a name keeps one.
LEMMA NamesStay ==
    ASSUME LocalUsersTypeOK, UserCallsOK, [LocalUsersNext]_userVars
    PROVE  /\ \A n \in Usernames : bearers[n] \subseteq bearers'[n]
           /\ \A a \in Accounts : Names(a) \subseteq Names(a)'
           /\ \A i \in UserIds : localUser[i].username # NoUsername
                                    => localUser'[i].username # NoUsername
<1> USE LocalUsersAssumption
<1>1. \A n \in Usernames : bearers[n] \subseteq bearers'[n]
  <2>1. ASSUME NEW a \in Accounts, NameAccount(a) PROVE \A n \in Usernames : bearers[n] \subseteq bearers'[n]
    BY <2>1 DEF NameAccount, LocalUsersTypeOK
  <2>2. (\E a \in Accounts : NameAccount(a)) \/ bearers' = bearers
    BY DEF LocalUsersNext, userVars, userHistory, SignIn, ReadMember, BeginUserCall, LookForUser,
       InsertUser, MatchMember, RefreshMember, EnsureMember, UserCallFails, DeleteAccount
  <2>3. QED
    BY <2>1, <2>2
<1>2. \A a \in Accounts : Names(a) \subseteq Names(a)'
  BY <1>1 DEF Names
<1>3. ASSUME NEW i \in UserIds, localUser[i].username # NoUsername
      PROVE  localUser'[i].username # NoUsername
  <2>1. CASE \E r \in UserCalls : InsertUser(r)
    <3>1. PICK r \in UserCalls : InsertUser(r)
      BY <2>1
    <3>2. localUser'[i] = localUser[i] \/ ~IsUser(i)
      BY <3>1, InsertWrites DEF LocalUsersTypeOK
    <3>3. QED
      BY <1>3, <3>2 DEF IsUser, NoRecord
  <2>2. CASE \E r \in UserCalls : RefreshMember(r)
    <3>1. PICK r \in UserCalls : RefreshMember(r)
      BY <2>2
    <3>2. userCall[r].id \in UserIds /\ userCall[r].username \in Usernames
      BY <3>1 DEF RefreshMember, UserCallsOK, UserCallAt, Names
    <3>3. QED
      BY <1>3, <3>1, <3>2, RefreshWrites
  <2>3. CASE localUser' = localUser
    BY <1>3, <2>3
  <2>4. QED
    BY <2>1, <2>2, <2>3 DEF LocalUsersNext, userVars, SignIn, ReadMember, BeginUserCall,
       LookForUser, MatchMember, EnsureMember, UserCallFails, NameAccount, DeleteAccount
<1>4. QED
  BY <1>1, <1>2, <1>3

\* A request leaves the frames of the others alone.
LEMMA OthersWait ==
    ASSUME LocalUsersTypeOK, NEW r \in UserCalls,
           \/ SignIn(r) \/ LookForUser(r) \/ InsertUser(r) \/ ReadMember(r) \/ MatchMember(r)
           \/ RefreshMember(r) \/ EnsureMember(r) \/ UserCallFails(r)
    PROVE  \A s \in UserCalls : s # r => userCall'[s] = userCall[s]
BY FrameReplaced DEF SignIn, LookForUser, InsertUser, ReadMember, MatchMember, RefreshMember,
   EnsureMember, UserCallFails, BeginUserCall, AnswerWith

\* What a request is about stays true of it.
LEMMA UserCallsStep ==
    ASSUME LocalUsersTypeOK, UserCallsOK, AccountsNamed, RowsNamed, [LocalUsersNext]_userVars
    PROVE  UserCallsOK'
<1> USE LocalUsersAssumption
<1> DEFINE Fine(f) == /\ f.pc = "idle" => f.account = NoUser
                      /\ f.pc # "idle" => /\ f.account \in Accounts /\ f.username \in Usernames
                                          /\ f.account \in bearers'[f.username]
                      /\ f.pc \in {"matching", "refreshing", "ensuring", "adding"} => f.host = SharedHost
                      /\ f.pc = "refreshing" => f.id \in UserIds /\ localUser'[f.id].username # NoUsername
<1> SUFFICES ASSUME NEW s \in UserCalls PROVE Fine(userCall'[s])
  BY DEF UserCallsOK, UserCallAt, Names
<1>0. Fine(userCall[s]) /\ Fine(IdleCall)
  BY NamesStay DEF UserCallsOK, UserCallAt, IdleCall, Names
<1>1. CASE userCall'[s] = userCall[s] \/ userCall'[s] = IdleCall
  BY <1>0, <1>1
<1>2. ASSUME NEW a \in Accounts, NEW host \in Hosts, NEW pc, pc = "looking" \/ (pc = "matching" /\ host = SharedHost),
             BeginUserCall(s, a, host, pc)
      PROVE  Fine(userCall'[s])
  <2>1. userCall'[s] = [IdleCall EXCEPT !.pc = pc, !.account = a, !.host = host, !.username = keycloak[a]]
    BY <1>2, FrameReplaced DEF BeginUserCall
  <2>2. userCall'[s].pc = pc /\ userCall'[s].account = a /\ userCall'[s].host = host
        /\ userCall'[s].username = keycloak[a]
    BY <2>1 DEF IdleCall
  <2>3. keycloak[a] \in Usernames /\ a \in bearers'[keycloak[a]]
    BY <1>2, NamesStay DEF BeginUserCall, AccountsNamed, Names
  <2>4. QED
    BY <1>2, <2>2, <2>3
<1>3. ASSUME NEW pc, pc = "inserting" \/ (pc \in {"ensuring", "adding"} /\ userCall[s].host = SharedHost),
             userCall[s].pc # "idle", Continue(s, [userCall[s] EXCEPT !.pc = pc])
      PROVE  Fine(userCall'[s])
  <2>1. userCall'[s] = [userCall[s] EXCEPT !.pc = pc]
    BY <1>3, FrameReplaced
  <2>2. userCall'[s].pc = pc /\ userCall'[s].account = userCall[s].account
        /\ userCall'[s].host = userCall[s].host /\ userCall'[s].username = userCall[s].username
    BY <2>1 DEF LocalUsersTypeOK, UserFrames
  <2>3. QED
    BY <1>0, <1>3, <2>2
<1>4. CASE SignIn(s)
  BY <1>2, <1>4 DEF SignIn
<1>5. CASE ReadMember(s)
  BY <1>2, <1>5 DEF ReadMember, Accounts
<1>6. CASE LookForUser(s)
  BY <1>1, <1>3, <1>6, FrameReplaced DEF LookForUser, AnswerWith, UserCallAt
<1>7. CASE InsertUser(s)
  BY <1>1, <1>7, InsertWrites DEF LocalUsersTypeOK
<1>8. CASE MatchMember(s)
  <2> DEFINE f == userCall[s]
  <2>1. f.pc = "matching" /\ f.host = SharedHost /\ f.account \in Accounts /\ f.username \in Usernames
    BY <1>8 DEF MatchMember, UserCallAt, UserCallsOK, Names
  <2>2. ASSUME NEW i \in UserIds, localUser[i].account = f.account \/ localUser[i].username = f.username,
               Continue(s, [f EXCEPT !.pc = "refreshing", !.id = i, !.seen = localUser[i]])
        PROVE  Fine(userCall'[s])
    <3>1. userCall'[s] = [f EXCEPT !.pc = "refreshing", !.id = i, !.seen = localUser[i]]
      BY <2>2, FrameReplaced
    <3>2. userCall'[s].pc = "refreshing" /\ userCall'[s].account = f.account /\ userCall'[s].id = i
          /\ userCall'[s].host = f.host /\ userCall'[s].username = f.username
      BY <3>1 DEF LocalUsersTypeOK, UserFrames
    <3>3. localUser[i].username # NoUsername
      BY <2>1, <2>2, LocalUsersAssumption DEF RowsNamed
    <3>4. QED
      BY <1>0, <2>1, <3>2, <3>3, NamesStay
  <2>3. \/ Continue(s, [f EXCEPT !.pc = "ensuring"])
        \/ \E i \in UserIds : /\ localUser[i].account = f.account \/ localUser[i].username = f.username
                              /\ Continue(s, [f EXCEPT !.pc = "refreshing", !.id = i, !.seen = localUser[i]])
    BY <1>8, MatchChoices
  <2>4. QED
    BY <1>3, <2>1, <2>2, <2>3
<1>9. CASE RefreshMember(s)
  <2>1. userCall[s].id \in UserIds
    BY <1>9 DEF RefreshMember, UserCallsOK, UserCallAt
  <2>2. userCall' = [userCall EXCEPT ![s] = IdleCall]
    BY <1>9, <2>1, RefreshWrites
  <2>3. QED
    BY <1>1, <2>2 DEF LocalUsersTypeOK
<1>10. CASE EnsureMember(s)
  BY <1>1, <1>3, <1>10, FrameReplaced DEF EnsureMember, AnswerWith, UserCallAt, UserCallsOK
<1>11. CASE UserCallFails(s)
  BY <1>1, <1>11, FrameReplaced DEF UserCallFails
<1>12. ASSUME NEW r \in UserCalls, r # s,
              \/ SignIn(r) \/ LookForUser(r) \/ InsertUser(r) \/ ReadMember(r) \/ MatchMember(r)
              \/ RefreshMember(r) \/ EnsureMember(r) \/ UserCallFails(r)
       PROVE  userCall'[s] = userCall[s]
  BY <1>12, OthersWait
<1>13. CASE UNCHANGED userVars \/ \E a \in Accounts : NameAccount(a) \/ DeleteAccount(a)
  BY <1>1, <1>13 DEF userVars, NameAccount, DeleteAccount
<1>14. QED
  BY <1>1, <1>4, <1>5, <1>6, <1>7, <1>8, <1>9, <1>10, <1>11, <1>12, <1>13 DEF LocalUsersNext

\* The names of accounts and rows are remembered.
LEMMA RowsNamedStep ==
    ASSUME LocalUsersTypeOK, UserCallsOK, AccountsNamed, RowsNamed, [LocalUsersNext]_userVars
    PROVE  AccountsNamed' /\ RowsNamed'
<1> USE LocalUsersAssumption
<1>1. AccountsNamed'
  <2>1. ASSUME NEW a \in Accounts, NameAccount(a) PROVE AccountsNamed'
    BY <2>1 DEF NameAccount, AccountsNamed, Names, LocalUsersTypeOK
  <2>2. ASSUME NEW a \in Accounts, DeleteAccount(a) PROVE AccountsNamed'
    BY <2>2 DEF DeleteAccount, AccountsNamed, Names, userHistory, LocalUsersTypeOK
  <2>3. CASE UNCHANGED <<keycloak, bearers>>
    BY <2>3 DEF AccountsNamed, Names
  <2>4. QED
    BY <2>1, <2>2, <2>3 DEF LocalUsersNext, userVars, userHistory, SignIn, ReadMember, BeginUserCall,
       LookForUser, InsertUser, MatchMember, RefreshMember, EnsureMember, UserCallFails
<1>2. RowsNamed'
  <2> SUFFICES ASSUME NEW i \in UserIds
               PROVE  /\ localUser'[i].username # NoUsername => bearers'[localUser'[i].username] # {}
                      /\ localUser'[i].account \in Accounts => localUser'[i].username # NoUsername
    BY DEF RowsNamed
  <2>0. /\ localUser[i].username # NoUsername => bearers[localUser[i].username] # {}
        /\ localUser[i].account \in Accounts => localUser[i].username # NoUsername
        /\ localUser[i].username \in Usernames \cup {NoUsername}
    BY DEF RowsNamed, LocalUsersTypeOK, UserRecords
  <2>1. CASE localUser'[i] = localUser[i]
    BY <2>0, <2>1, NamesStay
  <2>2. ASSUME NEW r \in UserCalls, ~UserCallAt(r, "idle"),
               localUser'[i].username = userCall[r].username
        PROVE  bearers'[localUser'[i].username] # {} /\ localUser'[i].username # NoUsername
    BY <2>2, NamesStay DEF UserCallsOK, Names
  <2>3. ASSUME NEW r \in UserCalls, InsertUser(r), localUser'[i] # localUser[i]
        PROVE  localUser'[i].username = userCall[r].username /\ ~UserCallAt(r, "idle")
    BY <2>3, InsertWrites DEF LocalUsersTypeOK, UserCallAt
  <2>4. ASSUME NEW r \in UserCalls, RefreshMember(r), localUser'[i] # localUser[i]
        PROVE  /\ localUser'[i].username \in {userCall[r].username, localUser[i].username}
               /\ ~UserCallAt(r, "idle") /\ localUser[i].username # NoUsername
    <3>1. userCall[r].id \in UserIds /\ ~UserCallAt(r, "idle")
          /\ localUser[userCall[r].id].username # NoUsername
      BY <2>4 DEF RefreshMember, UserCallsOK, UserCallAt
    <3>2. i = userCall[r].id
      BY <2>4, <3>1, RefreshWrites
    <3>3. QED
      BY <2>4, <3>1, <3>2, RefreshWrites
  <2>5. QED
    BY <2>0, <2>1, <2>2, <2>3, <2>4, NamesStay DEF LocalUsersNext, userVars, SignIn, ReadMember,
       BeginUserCall, LookForUser, MatchMember, EnsureMember, UserCallFails, NameAccount, DeleteAccount
<1>3. QED
  BY <1>1, <1>2

\* An account that has its names to itself had them so before, and gets only a name that no
\* account had.
LEMMA OwnStays ==
    ASSUME LocalUsersTypeOK, UserCallsOK, [LocalUsersNext]_userVars, NEW a \in Accounts, NameIsOwn(a)'
    PROVE  /\ NameIsOwn(a)
           /\ \A n \in Names(a)' : n \in Names(a) \/ bearers[n] = {}
<1>1. \A n \in Usernames : bearers[n] \subseteq bearers'[n]
  BY NamesStay
<1>2. QED
  BY <1>1 DEF NameIsOwn, Names

\* No other account has a name of it.
LEMMA NamesApart ==
    ASSUME NEW a \in Accounts, NameIsOwn(a), NEW b \in Accounts, b # a
    PROVE  Names(a) \cap Names(b) = {}
BY DEF NameIsOwn, Names

\* The rows of an account stay its rows, and no other row becomes one by a rename.
LEMMA RowsOwnedStep ==
    ASSUME LocalUsersTypeOK, UserCallsOK, RowsNamed, RowsOwned, [LocalUsersNext]_userVars,
           NEW a \in Accounts, NameIsOwn(a)'
    PROVE  /\ \A i \in UserIds : localUser'[i].account = a <=> localUser'[i].username \in Names(a)'
           /\ \A i \in UserIds : localUser[i].username # NoUsername =>
                    (localUser'[i].account = a <=> localUser[i].account = a)
           /\ \A i \in UserIds : localUser[i].account = a => localUser'[i].account = a
<1> USE LocalUsersAssumption
<1>0. /\ NameIsOwn(a)
      /\ \A n \in Names(a)' : n \in Names(a) \/ bearers[n] = {}
      /\ \A i \in UserIds : localUser[i].account = a <=> localUser[i].username \in Names(a)
  BY OwnStays DEF RowsOwned
<1>1. ASSUME NEW i \in UserIds, localUser'[i] = localUser[i]
      PROVE  /\ localUser'[i].account = a <=> localUser'[i].username \in Names(a)'
             /\ localUser'[i].account = a <=> localUser[i].account = a
  <2>1. localUser[i].username \in Names(a)' => localUser[i].username \in Names(a)
    <3>1. \A n \in Names(a)' : n \in Usernames /\ n # NoUsername
      BY DEF Names
    <3>2. QED
      BY <1>0, <3>1 DEF RowsNamed
  <2>2. QED
    BY <1>0, <1>1, <2>1, NamesStay
<1>2. ASSUME NEW i \in UserIds, localUser'[i] # localUser[i]
      PROVE  /\ Names(a)' = Names(a)
             /\ (\E r \in UserCalls : InsertUser(r)) \/ (\E r \in UserCalls : RefreshMember(r))
  BY <1>2 DEF LocalUsersNext, userVars, SignIn, ReadMember, BeginUserCall, LookForUser, InsertUser,
     MatchMember, RefreshMember, EnsureMember, UserCallFails, NameAccount, DeleteAccount, Names
<1>3. ASSUME NEW r \in UserCalls, ~UserCallAt(r, "idle")
      PROVE  userCall[r].username \in Names(a) <=> userCall[r].account = a
  BY <1>0, <1>3, NamesApart DEF UserCallsOK
<1>4. ASSUME NEW i \in UserIds, localUser'[i] # localUser[i], NEW r \in UserCalls, InsertUser(r)
      PROVE  /\ localUser'[i].account = a <=> localUser'[i].username \in Names(a)'
             /\ localUser[i].username = NoUsername /\ localUser[i].account # a
  <2>1. /\ localUser'[i].account = userCall[r].account
        /\ localUser'[i].username = userCall[r].username
        /\ localUser[i] = NoRecord /\ ~UserCallAt(r, "idle")
    BY <1>4, InsertWrites DEF LocalUsersTypeOK, UserCallAt, IsUser
  <2>2. QED
    BY <1>2, <1>3, <1>4, <2>1 DEF NoRecord, Accounts
<1>5. ASSUME NEW i \in UserIds, localUser'[i] # localUser[i], NEW r \in UserCalls, RefreshMember(r)
      PROVE  /\ localUser'[i].account = a <=> localUser'[i].username \in Names(a)'
             /\ localUser'[i].account = a <=> localUser[i].account = a
  <2>1. UserCallAt(r, "refreshing") /\ ~UserCallAt(r, "idle") /\ userCall[r].id \in UserIds
    BY <1>5 DEF RefreshMember, UserCallsOK, UserCallAt
  <2>2. i = userCall[r].id
    BY <1>5, <2>1, RefreshWrites
  <2>3. /\ localUser'[i].username \in {localUser[i].username, userCall[r].username}
        /\ localUser'[i].account \in {localUser[i].account, userCall[r].account}
    BY <1>5, <2>1, <2>2, RefreshWrites
  <2>4. userCall[r].account = a <=> localUser[i].account = a
    BY <1>0, <2>1, <2>2 DEF RowsOwned
  <2>5. QED
    BY <1>0, <1>2, <1>3, <1>5, <2>1, <2>3, <2>4
<1>6. QED
  BY <1>1, <1>2, <1>4, <1>5

\* Only its own requests refresh the rows of an account.
LEMMA RefreshOwnedStep ==
    ASSUME LocalUsersTypeOK, UserCallsOK, AccountsNamed, RowsNamed, RowsOwned,
           [LocalUsersNext]_userVars, NEW a \in Accounts, NameIsOwn(a)',
           NEW s \in UserCalls, userCall'[s].pc = "refreshing"
    PROVE  userCall'[s].account = a <=> localUser'[userCall'[s].id].account = a
<1> USE LocalUsersAssumption
<1>0. /\ NameIsOwn(a)
      /\ \A i \in UserIds : localUser[i].account = a <=> localUser[i].username \in Names(a)
  BY OwnStays DEF RowsOwned
<1>1. CASE userCall'[s] = userCall[s]
  <2>1. /\ userCall[s].account = a <=> localUser[userCall[s].id].account = a
        /\ userCall[s].id \in UserIds /\ localUser[userCall[s].id].username # NoUsername
    BY <1>0, <1>1 DEF RowsOwned, UserCallsOK, UserCallAt
  <2>2. QED
    BY <1>1, <2>1, RowsOwnedStep
<1>2. CASE MatchMember(s)
  <2> DEFINE f == userCall[s]
  <2>1. f.pc = "matching" /\ f.account \in Accounts /\ f.username \in Names(f.account) /\ localUser' = localUser
    BY <1>2 DEF MatchMember, UserCallAt, UserCallsOK
  <2>2. \/ Continue(s, [f EXCEPT !.pc = "ensuring"])
        \/ \E i \in UserIds : /\ localUser[i].account = f.account \/ localUser[i].username = f.username
                              /\ Continue(s, [f EXCEPT !.pc = "refreshing", !.id = i, !.seen = localUser[i]])
    BY <1>2, MatchChoices
  <2>3. ~Continue(s, [f EXCEPT !.pc = "ensuring"])
    <3>1. SUFFICES ASSUME Continue(s, [f EXCEPT !.pc = "ensuring"]) PROVE FALSE
      OBVIOUS
    <3>2. userCall'[s] = [f EXCEPT !.pc = "ensuring"]
      BY <3>1, FrameReplaced
    <3>3. QED
      BY <3>2 DEF LocalUsersTypeOK, UserFrames
  <2>4. PICK i \in UserIds :
            /\ localUser[i].account = f.account \/ localUser[i].username = f.username
            /\ userCall'[s] = [f EXCEPT !.pc = "refreshing", !.id = i, !.seen = localUser[i]]
    BY <2>2, <2>3, FrameReplaced
  <2>5. userCall'[s].account = f.account /\ userCall'[s].id = i
    BY <2>4 DEF LocalUsersTypeOK, UserFrames
  <2>6. f.username \in Names(a) <=> f.account = a
    BY <1>0, <2>1, NamesApart
  <2>7. localUser[i].account = a <=> f.account = a
    BY <1>0, <2>4, <2>6
  <2>8. QED
    BY <2>1, <2>5, <2>7
<1>3. CASE SignIn(s) \/ ReadMember(s)
  <2>1. PICK b \in Accounts, host \in Hosts, pc \in {"looking", "matching"} : BeginUserCall(s, b, host, pc)
    BY <1>3 DEF SignIn, ReadMember, Accounts
  <2>2. userCall'[s] = [IdleCall EXCEPT !.pc = pc, !.account = b, !.host = host, !.username = keycloak[b]]
    BY <2>1, FrameReplaced DEF BeginUserCall
  <2>3. QED
    BY <2>2 DEF IdleCall
<1>4. CASE LookForUser(s) \/ EnsureMember(s)
  <2>1. \/ userCall'[s] = IdleCall
        \/ \E pc \in {"inserting", "adding"} : userCall'[s] = [userCall[s] EXCEPT !.pc = pc]
    BY <1>4, FrameReplaced DEF LookForUser, EnsureMember, AnswerWith
  <2>2. QED
    BY <2>1 DEF IdleCall, LocalUsersTypeOK, UserFrames
<1>5. CASE InsertUser(s) \/ RefreshMember(s) \/ UserCallFails(s)
  <2>1. userCall'[s] = IdleCall
    BY <1>5, FrameReplaced DEF InsertUser, RefreshMember, UserCallFails, AnswerWith
  <2>2. QED
    BY <2>1 DEF IdleCall
<1>6. ASSUME NEW r \in UserCalls, r # s,
             \/ SignIn(r) \/ LookForUser(r) \/ InsertUser(r) \/ ReadMember(r) \/ MatchMember(r)
             \/ RefreshMember(r) \/ EnsureMember(r) \/ UserCallFails(r)
      PROVE  userCall'[s] = userCall[s]
  BY <1>6, OthersWait
<1>7. QED
  BY <1>1, <1>2, <1>3, <1>4, <1>5, <1>6 DEF LocalUsersNext, userVars, NameAccount, DeleteAccount

\* A request ends with a row of its account.
LEMMA AnswerOwnedStep ==
    ASSUME LocalUsersTypeOK, UserCallsOK, RowsNamed, RowsOwned, [LocalUsersNext]_userVars,
           NEW a \in Accounts, NameIsOwn(a)'
    PROVE  answered'[a] \subseteq RowsOfAccount(a)'
<1> USE LocalUsersAssumption
<1>0. NameIsOwn(a) /\ answered[a] \subseteq RowsOfAccount(a)
  BY OwnStays DEF RowsOwned
<1>1. RowsOfAccount(a) \subseteq RowsOfAccount(a)'
  BY RowsOwnedStep DEF RowsOfAccount
<1>2. ASSUME answered' = answered PROVE answered'[a] \subseteq RowsOfAccount(a)'
  BY <1>0, <1>1, <1>2
<1>3. ASSUME NEW b \in Accounts, NEW i, answered' = [answered EXCEPT ![b] = @ \cup {i}],
             b = a => i \in RowsOfAccount(a)'
      PROVE  answered'[a] \subseteq RowsOfAccount(a)'
  BY <1>0, <1>1, <1>3 DEF LocalUsersTypeOK
<1>4. ASSUME NEW r \in UserCalls, ~UserCallAt(r, "idle") PROVE userCall[r].account \in Accounts
  BY <1>4 DEF UserCallsOK
<1>5. ASSUME NEW r \in UserCalls, LookForUser(r) PROVE answered'[a] \subseteq RowsOfAccount(a)'
  BY <1>1, <1>2, <1>3, <1>4, <1>5, FoundAreOwn DEF LookForUser, AnswerWith, UserCallAt
<1>6. ASSUME NEW r \in UserCalls, EnsureMember(r) PROVE answered'[a] \subseteq RowsOfAccount(a)'
  BY <1>1, <1>2, <1>3, <1>4, <1>6, FoundAreOwn DEF EnsureMember, AnswerWith, UserCallAt
<1>7. ASSUME NEW r \in UserCalls, InsertUser(r) PROVE answered'[a] \subseteq RowsOfAccount(a)'
  <2> DEFINE f == userCall[r]
             record == [username |-> f.username, host |-> f.host, account |-> f.account]
  <2>1. f.account \in Accounts
    BY <1>4, <1>7 DEF InsertUser, UserCallAt
  <2>2. ASSUME NEW i \in UserIds, localUser' = [localUser EXCEPT ![i] = record]
        PROVE  f.account = a => i \in RowsOfAccount(a)'
    BY <2>2 DEF RowsOfAccount, LocalUsersTypeOK
  <2>3. QED
    BY <1>1, <1>2, <1>3, <1>7, <2>1, <2>2, InsertWrites, FoundAreOwn
<1>8. ASSUME NEW r \in UserCalls, RefreshMember(r) PROVE answered'[a] \subseteq RowsOfAccount(a)'
  <2> DEFINE f == userCall[r]
  <2>1. f.account \in Accounts /\ f.id \in UserIds
    BY <1>8 DEF RefreshMember, UserCallAt, UserCallsOK
  <2>2. f.account = a => f.id \in RowsOfAccount(a)
    BY <1>0, <1>8, <2>1 DEF RefreshMember, RowsOwned, RowsOfAccount
  <2>3. QED
    BY <1>1, <1>2, <1>3, <1>8, <2>1, <2>2, RefreshWrites
<1>9. QED
  BY <1>2, <1>5, <1>6, <1>7, <1>8 DEF LocalUsersNext, userVars, userHistory, SignIn, ReadMember,
     BeginUserCall, MatchMember, UserCallFails, NameAccount, DeleteAccount

\* A request goes on for its account and host, inserts only after it found no row, ends, or
\* has just begun.
LEMMA FrameKept ==
    ASSUME LocalUsersTypeOK, UserCallsOK, [LocalUsersNext]_userVars, NEW s \in UserCalls
    PROVE  \/ userCall'[s] = userCall[s]
           \/ userCall'[s] = IdleCall
           \/ /\ userCall'[s].account = userCall[s].account /\ userCall'[s].host = userCall[s].host
              /\ userCall'[s].pc \notin {"inserting", "adding"}
           \/ /\ userCall'[s].account = userCall[s].account /\ userCall'[s].host = userCall[s].host
              /\ RowsOfAccount(userCall[s].account) = {} /\ localUser' = localUser
           \/ \E b \in Accounts, host \in Hosts, pc \in {"looking", "matching"} : BeginUserCall(s, b, host, pc)
<1> DEFINE f == userCall[s]
<1>0. f \in UserFrames
  BY DEF LocalUsersTypeOK
<1>1. ASSUME NEW pc, Continue(s, [f EXCEPT !.pc = pc])
      PROVE  userCall'[s].account = f.account /\ userCall'[s].host = f.host /\ userCall'[s].pc = pc
  <2>1. userCall'[s] = [f EXCEPT !.pc = pc]
    BY <1>1, FrameReplaced
  <2>2. QED
    BY <1>0, <2>1 DEF UserFrames
<1>2. CASE LookForUser(s)
  <2>1. CASE FindUser(f.account, f.host) = {}
    <3>1. Continue(s, [f EXCEPT !.pc = "inserting"]) /\ localUser' = localUser
      BY <1>2, <2>1 DEF LookForUser
    <3>2. QED
      BY <1>1, <2>1, <3>1, NotFoundHasNone
  <2>2. CASE FindUser(f.account, f.host) # {}
    BY <1>2, <2>2, FrameReplaced DEF LookForUser, AnswerWith
  <2>3. QED
    BY <2>1, <2>2
<1>3. CASE EnsureMember(s)
  <2>1. CASE FindUser(f.account, SharedHost) = {}
    <3>1. Continue(s, [f EXCEPT !.pc = "adding"]) /\ localUser' = localUser
      BY <1>3, <2>1 DEF EnsureMember
    <3>2. QED
      BY <1>1, <2>1, <3>1, NotFoundHasNone
  <2>2. CASE FindUser(f.account, SharedHost) # {}
    BY <1>3, <2>2, FrameReplaced DEF EnsureMember, AnswerWith
  <2>3. QED
    BY <2>1, <2>2
<1>4. CASE MatchMember(s)
  <2>1. CASE Continue(s, [f EXCEPT !.pc = "ensuring"])
    BY <1>1, <2>1
  <2>2. ASSUME NEW i, Continue(s, [f EXCEPT !.pc = "refreshing", !.id = i, !.seen = localUser[i]])
        PROVE  /\ userCall'[s].account = f.account /\ userCall'[s].host = f.host
               /\ userCall'[s].pc = "refreshing"
    <3>1. userCall'[s] = [f EXCEPT !.pc = "refreshing", !.id = i, !.seen = localUser[i]]
      BY <2>2, FrameReplaced
    <3>2. QED
      BY <1>0, <3>1 DEF UserFrames
  <2>3. QED
    BY <1>4, <2>1, <2>2, MatchChoices
<1>5. CASE InsertUser(s) \/ RefreshMember(s) \/ UserCallFails(s)
  BY <1>5, FrameReplaced DEF InsertUser, RefreshMember, UserCallFails, AnswerWith
<1>6. CASE SignIn(s) \/ ReadMember(s)
  BY <1>6, LocalUsersAssumption DEF SignIn, ReadMember, Accounts
<1>7. ASSUME NEW r \in UserCalls, r # s,
             \/ SignIn(r) \/ LookForUser(r) \/ InsertUser(r) \/ ReadMember(r) \/ MatchMember(r)
             \/ RefreshMember(r) \/ EnsureMember(r) \/ UserCallFails(r)
      PROVE  userCall'[s] = userCall[s]
  BY <1>7, OthersWait
<1>8. QED
  BY <1>2, <1>3, <1>4, <1>5, <1>6, <1>7 DEF LocalUsersNext, userVars, NameAccount, DeleteAccount

\* What becomes of the row i of an account: it is untouched, refreshed by a request for the
\* account, or inserted by one that met no row under its host.
LEMMA RowChange ==
    ASSUME LocalUsersTypeOK, UserCallsOK, RowsNamed, RowsOwned, [LocalUsersNext]_userVars,
           NEW a \in Accounts, NameIsOwn(a)', NEW i \in UserIds, localUser'[i].account = a
    PROVE  \/ localUser'[i] = localUser[i]
           \/ \E r \in UserCalls : /\ userCall[r].account = a /\ userCall[r].host = SharedHost
                                   /\ localUser[i].account = a
                                   /\ localUser'[i].host \in {localUser[i].host, SharedHost}
           \/ \E r \in UserCalls : /\ userCall[r].account = a /\ userCall[r].pc \in {"inserting", "adding"}
                                   /\ Holders(a, userCall[r].host) = {}
                                   /\ localUser'[i].host = userCall[r].host
                                   /\ \A j \in UserIds : j # i => localUser'[j] = localUser[j]
<1>0. NameIsOwn(a)
  BY OwnStays
<1>1. ASSUME NEW r \in UserCalls, InsertUser(r), localUser'[i] # localUser[i]
      PROVE  /\ userCall[r].account = a /\ userCall[r].pc \in {"inserting", "adding"}
             /\ Holders(a, userCall[r].host) = {}
             /\ localUser'[i].host = userCall[r].host
             /\ \A j \in UserIds : j # i => localUser'[j] = localUser[j]
  BY <1>1, InsertWrites DEF LocalUsersTypeOK
<1>2. ASSUME NEW r \in UserCalls, RefreshMember(r), localUser'[i] # localUser[i]
      PROVE  /\ userCall[r].account = a /\ userCall[r].host = SharedHost /\ localUser[i].account = a
             /\ localUser'[i].host \in {localUser[i].host, SharedHost}
  <2>1. UserCallAt(r, "refreshing") /\ userCall[r].id \in UserIds /\ userCall[r].host = SharedHost
        /\ localUser[userCall[r].id].username # NoUsername
    BY <1>2 DEF RefreshMember, UserCallsOK, UserCallAt
  <2>2. i = userCall[r].id
    BY <1>2, <2>1, RefreshWrites
  <2>3. localUser[i].account = a
    BY <2>1, <2>2, RowsOwnedStep
  <2>4. userCall[r].account = a
    BY <1>0, <2>1, <2>2, <2>3 DEF RowsOwned
  <2>5. QED
    BY <1>2, <2>1, <2>2, <2>3, <2>4, RefreshWrites
<1>3. QED
  BY <1>1, <1>2 DEF LocalUsersNext, userVars, SignIn, ReadMember, BeginUserCall, LookForUser,
     MatchMember, EnsureMember, UserCallFails, NameAccount, DeleteAccount

\* As long as its requests name one host, an account has one row.
LEMMA RowsSingleStep ==
    ASSUME LocalUsersTypeOK, UserCallsOK, RowsNamed, RowsOwned, RowsSingle, [LocalUsersNext]_userVars
    PROVE  RowsSingle'
<1> USE LocalUsersAssumption
<1> SUFFICES ASSUME NEW a \in Accounts, NameIsOwn(a)', a \notin crossed'
             PROVE  /\ \A i, j \in RowsOfAccount(a)' : i = j
                    /\ \A r, s \in UserCalls : userCall'[r].account = a /\ userCall'[s].account = a =>
                           userCall'[r].host = userCall'[s].host
                    /\ \A r \in UserCalls :
                           userCall'[r].account = a /\ userCall'[r].pc \in {"inserting", "adding"} =>
                               \A i \in RowsOfAccount(a)' : localUser'[i].host = userCall'[r].host
  BY DEF RowsSingle
<1>1. crossed \subseteq crossed'
  BY DEF LocalUsersNext, userVars, userHistory, SignIn, ReadMember, BeginUserCall, LookForUser,
     InsertUser, MatchMember, RefreshMember, EnsureMember, UserCallFails, NameAccount, DeleteAccount
<1>2. /\ NameIsOwn(a) /\ a \notin crossed
      /\ \A i, j \in RowsOfAccount(a) : i = j
      /\ \A r, s \in UserCalls : userCall[r].account = a /\ userCall[s].account = a =>
             userCall[r].host = userCall[s].host
      /\ \A r \in UserCalls :
             userCall[r].account = a /\ userCall[r].pc \in {"inserting", "adding"} =>
                 \A i \in RowsOfAccount(a) : localUser[i].host = userCall[r].host
  BY <1>1, OwnStays DEF RowsSingle
<1>3. ASSUME NEW r \in UserCalls, userCall'[r].account = a
      PROVE  \/ userCall[r].account = a /\ userCall[r].host = userCall'[r].host
             \/ /\ userCall'[r].pc \notin {"inserting", "adding"}
                /\ \A s \in UserCalls : /\ s # r => userCall'[s] = userCall[s]
                                        /\ userCall[s].account = a => userCall[s].host = userCall'[r].host
  <2>1. ASSUME NEW b \in Accounts, NEW host \in Hosts, NEW pc \in {"looking", "matching"},
               BeginUserCall(r, b, host, pc)
        PROVE  /\ userCall'[r].pc \notin {"inserting", "adding"}
               /\ \A s \in UserCalls : /\ s # r => userCall'[s] = userCall[s]
                                       /\ userCall[s].account = a => userCall[s].host = userCall'[r].host
    <3>1. /\ userCall'[r] = [IdleCall EXCEPT !.pc = pc, !.account = b, !.host = host, !.username = keycloak[b]]
          /\ \A s \in UserCalls : s # r => userCall'[s] = userCall[s]
      BY <2>1, FrameReplaced DEF BeginUserCall
    <3>2. userCall'[r].pc = pc /\ userCall'[r].account = b /\ userCall'[r].host = host
      BY <3>1 DEF IdleCall
    <3>3. \A s \in UserCalls : userCall[s].account = a => userCall[s].host = host
      BY <1>3, <2>1, <3>2 DEF BeginUserCall
    <3>4. QED
      BY <3>1, <3>2, <3>3
  <2>2. QED
    BY <1>3, <2>1, FrameKept DEF IdleCall, Accounts
<1>4. \A r, s \in UserCalls : userCall'[r].account = a /\ userCall'[s].account = a =>
          userCall'[r].host = userCall'[s].host
  BY <1>2, <1>3
<1>5. \A i, j \in RowsOfAccount(a)' : i = j
  <2>1. CASE RowsOfAccount(a)' \subseteq RowsOfAccount(a)
    BY <1>2, <2>1
  <2>2. CASE ~(RowsOfAccount(a)' \subseteq RowsOfAccount(a))
    <3>1. PICK i \in UserIds : localUser'[i].account = a /\ localUser[i].account # a
      BY <2>2 DEF RowsOfAccount
    <3>2. PICK r \in UserCalls : /\ userCall[r].account = a /\ userCall[r].pc \in {"inserting", "adding"}
                                 /\ Holders(a, userCall[r].host) = {}
                                 /\ \A j \in UserIds : j # i => localUser'[j] = localUser[j]
      BY <3>1, RowChange
    <3>3. RowsOfAccount(a) = {}
      BY <1>2, <3>2 DEF Holders
    <3>4. RowsOfAccount(a)' = {i}
      BY <3>1, <3>2, <3>3 DEF RowsOfAccount
    <3>5. QED
      BY <3>4
  <2>3. QED
    BY <2>1, <2>2
<1>6. ASSUME NEW r \in UserCalls, userCall'[r].account = a, userCall'[r].pc \in {"inserting", "adding"},
             NEW i \in RowsOfAccount(a)'
      PROVE  localUser'[i].host = userCall'[r].host
  <2>1. i \in UserIds /\ localUser'[i].account = a
    BY DEF RowsOfAccount
  <2>2. userCall[r].account = a /\ userCall[r].host = userCall'[r].host
    BY <1>3, <1>6
  <2>3. CASE RowsOfAccount(a) = {} /\ localUser' = localUser
    BY <2>1, <2>3 DEF RowsOfAccount
  <2>4. CASE userCall'[r] = userCall[r]
    <3>1. localUser[i].account = a => localUser[i].host = userCall[r].host
      BY <1>2, <1>6, <2>1, <2>2, <2>4 DEF RowsOfAccount
    <3>2. QED
      BY <1>2, <2>1, <2>2, <3>1, RowChange
  <2>5. QED
    <3>1. userCall'[r] # IdleCall
      BY <1>6 DEF IdleCall
    <3>2. ASSUME NEW b \in Accounts, NEW host \in Hosts, NEW pc \in {"looking", "matching"},
                 BeginUserCall(r, b, host, pc)
          PROVE  FALSE
      <4>1. userCall[r].pc = "idle"
        BY <3>2 DEF BeginUserCall, UserCallAt
      <4>2. QED
        BY <2>2, <4>1 DEF UserCallsOK, UserCallAt, Accounts
    <3>3. QED
      BY <1>6, <2>2, <2>3, <2>4, <3>1, <3>2, FrameKept
<1>7. QED
  BY <1>4, <1>5, <1>6

\* The inductive invariant.
LocalUsersIInv ==
    /\ LocalUsersTypeOK /\ UserCallsOK /\ AccountsNamed /\ RowsNamed /\ RowsOwned /\ RowsSingle

\* There are no rows and no requests at first.
LEMMA LocalUsersInitial == LocalUsersInit => LocalUsersIInv
<1> USE LocalUsersAssumption
<1> SUFFICES ASSUME LocalUsersInit PROVE LocalUsersIInv
  OBVIOUS
<1>1. LocalUsersTypeOK
  BY NoRecordTyped DEF LocalUsersInit, LocalUsersTypeOK
<1>2. UserCallsOK /\ AccountsNamed
  BY DEF LocalUsersInit, UserCallsOK, UserCallAt, IdleCall, AccountsNamed
<1>3. \A i \in UserIds : localUser[i].username = NoUsername /\ localUser[i].account \notin Accounts
  BY DEF LocalUsersInit, NoRecord, Accounts
<1>4. RowsNamed
  BY <1>3 DEF RowsNamed
<1>5. RowsOwned
  <2>1. \A a \in Accounts : Names(a) = {} /\ answered[a] = {}
    BY DEF LocalUsersInit, Names
  <2>2. QED
    BY <1>3, <2>1 DEF RowsOwned, LocalUsersInit, UserCallAt, IdleCall
<1>6. RowsSingle
  BY <1>3 DEF RowsSingle, RowsOfAccount, LocalUsersInit, IdleCall, Accounts
<1>7. QED
  BY <1>1, <1>2, <1>4, <1>5, <1>6 DEF LocalUsersIInv

\* Every step of a request or of the directory keeps the strengthening.
LEMMA LocalUsersStep == LocalUsersIInv /\ [LocalUsersNext]_userVars => LocalUsersIInv'
<1> SUFFICES ASSUME LocalUsersIInv, [LocalUsersNext]_userVars PROVE LocalUsersIInv'
  OBVIOUS
<1> USE DEF LocalUsersIInv
<1>1. LocalUsersTypeOK' /\ UserCallsOK' /\ AccountsNamed' /\ RowsNamed' /\ RowsSingle'
  BY LocalUsersTypeStep, UserCallsStep, RowsNamedStep, RowsSingleStep
<1>2. RowsOwned'
  <2>1. \A r \in UserCalls : UserCallAt(r, "refreshing")' <=> userCall'[r].pc = "refreshing"
    BY DEF UserCallAt
  <2>2. QED
    BY <2>1, RowsOwnedStep, RefreshOwnedStep, AnswerOwnedStep DEF RowsOwned
<1>3. QED
  BY <1>1, <1>2

\* For any number of hosts, accounts, renames and concurrent requests: ensure_user and
\* _upsert_local_shared_realm_member find the one row of an account again, and no request for
\* another account takes it over.
THEOREM UserRowFound == LocalUsersSpec => []UserRowIsKept
<1>1. LocalUsersIInv => UserRowIsKept
  <2> SUFFICES ASSUME LocalUsersIInv, NEW a \in Accounts, NameIsOwn(a), a \notin crossed
               PROVE  /\ Cardinality(RowsOfAccount(a)) <= 1
                      /\ answered[a] \subseteq RowsOfAccount(a)
                      /\ \A i \in RowsOfAccount(a) : a \in bearers[localUser[i].username]
    BY DEF UserRowIsKept
  <2>1. Cardinality(RowsOfAccount(a)) <= 1
    <3>1. CASE RowsOfAccount(a) = {}
      BY <3>1, FS_EmptySet
    <3>2. ASSUME NEW i \in RowsOfAccount(a) PROVE Cardinality(RowsOfAccount(a)) <= 1
      <4>1. RowsOfAccount(a) = {i}
        BY DEF LocalUsersIInv, RowsSingle
      <4>2. Cardinality({i}) = 1
        BY FS_Singleton
      <4>3. QED
        BY <4>1, <4>2
    <3>3. QED
      BY <3>1, <3>2
  <2>2. QED
    BY <2>1 DEF LocalUsersIInv, RowsOwned, RowsOfAccount, Names
<1>2. QED
  BY <1>1, LocalUsersInitial, LocalUsersStep, PTL DEF LocalUsersSpec

-----------------------------------------------------------------------------
(***************************************************************************)
(* MembershipCache: what the cache may answer, for any number of users,    *)
(* lookups, writers, changes and any time to live.                         *)
(***************************************************************************)
USE MembershipCacheAssumption

\* How old an answer is: a load began no later than now and read what was not yet
\* superseded, and an entry expires within the time to live.
AgeOK ==
    /\ \A u \in CachedUsers : entries[u].expires <= now + Ttl
    /\ \A u \in CachedUsers : Cached(u) => entries[u].answer <= changes[u]
    /\ \A l \in Lookups : lookup[l].pc # "idle" =>
            lookup[l].user \in CachedUsers /\ lookup[l].start <= now
    /\ \A l \in Lookups : lookup[l].pc = "loaded" =>
            /\ lookup[l].answer <= changes[lookup[l].user]
            /\ lookup[l].answer < changes[lookup[l].user]
                => superseded[lookup[l].user][lookup[l].answer] >= lookup[l].start

WritersOK == \A a \in Admins : admin[a].pc = "changed" => admin[a].user \in CachedUsers

CacheIInv ==
    /\ MembershipCacheTypeOK /\ WritersOK /\ CacheOrder /\ LookupSees /\ AgeOK
    /\ OwnWritesAreSeen /\ StaleWithinTtl

LEMMA CacheStart == MembershipCacheInit => CacheIInv
    BY DEF MembershipCacheInit, CacheIInv, MembershipCacheTypeOK, WritersOK, CacheOrder, LookupSees,
           AgeOK, OwnWritesAreSeen, StaleWithinTtl, Cached, NoEntry, NoLookup, NoAdmin, Answers

(***************************************************************************)
(* Types, and the users that threads in progress work on.                  *)
(***************************************************************************)
LEMMA LookupTypeStep ==
    ASSUME CacheIInv, NEW l \in Lookups, Miss(l) \/ Load(l) \/ LoadRaises(l)
    PROVE  MembershipCacheTypeOK' /\ WritersOK'
<1> USE DEF MembershipCacheTypeOK, NoLookup
<1>t. MembershipCacheTypeOK /\ WritersOK /\ AgeOK
    BY DEF CacheIInv
<1>1. UNCHANGED <<changes, entries, generation, admin, now, superseded, written>>
    BY DEF Miss, Load, LoadRaises
<1>2. lookup' \in [Lookups -> [pc : {"idle", "loading", "loaded"},
                               user : CachedUsers \cup {Nobody}, start : 0..MaxClock,
                               generation : Nat, answer : Answers]]
    <2>1. CASE Miss(l)
        BY <1>t, <2>1 DEF Miss, Answers
    <2>2. CASE Load(l)
        <3>1. lookup[l].user \in CachedUsers
            BY <1>t, <2>2 DEF Load, AgeOK
        <3> QED BY <1>t, <2>2, <3>1 DEF Load
    <2>3. CASE LoadRaises(l)
        BY <1>t, <2>3 DEF LoadRaises, Answers
    <2> QED BY <2>1, <2>2, <2>3
<1> QED BY <1>t, <1>1, <1>2 DEF WritersOK

LEMMA StoreTypeStep ==
    ASSUME CacheIInv, NEW l \in Lookups, Store(l)
    PROVE  MembershipCacheTypeOK' /\ WritersOK'
<1> USE DEF MembershipCacheTypeOK
<1>t. MembershipCacheTypeOK /\ WritersOK
    BY DEF CacheIInv
<1>1. UNCHANGED <<changes, generation, admin, now, superseded, written>>
    BY DEF Store
<1>2. lookup' \in [Lookups -> [pc : {"idle", "loading", "loaded"},
                               user : CachedUsers \cup {Nobody}, start : 0..MaxClock,
                               generation : Nat, answer : Answers]]
    BY <1>t DEF Store, NoLookup, Answers
<1>3. [answer |-> lookup[l].answer, expires |-> ExpiryOf(l)]
            \in [answer : Answers, expires : 0..(MaxClock + Ttl)]
    BY <1>t DEF ExpiryOf
<1>4. NoEntry \in [answer : Answers, expires : 0..(MaxClock + Ttl)]
    BY DEF NoEntry, Answers
<1>5. entries' \in [CachedUsers -> [answer : Answers, expires : 0..(MaxClock + Ttl)]]
    BY <1>t, <1>3, <1>4 DEF Store
<1> QED BY <1>t, <1>1, <1>2, <1>5 DEF WritersOK

LEMMA ChangeTypeStep ==
    ASSUME CacheIInv, NEW u \in CachedUsers, Change(u)
    PROVE  /\ changes' \in [CachedUsers -> Answers]
           /\ superseded' \in [CachedUsers -> [Answers -> 0..MaxClock]]
<1>t. /\ changes \in [CachedUsers -> Answers] /\ now \in 0..MaxClock
      /\ superseded \in [CachedUsers -> [Answers -> 0..MaxClock]]
    BY DEF CacheIInv, MembershipCacheTypeOK
<1>1. changes[u] + 1 \in Answers
    BY <1>t DEF Change, Answers
<1>2. [superseded[u] EXCEPT ![changes[u]] = now] \in [Answers -> 0..MaxClock]
    BY <1>t
<1> QED BY <1>t, <1>1, <1>2 DEF Change

LEMMA WriterTypeStep ==
    ASSUME CacheIInv, NEW a \in Admins, Write(a) \/ Invalidate(a)
    PROVE  MembershipCacheTypeOK' /\ WritersOK'
<1> USE DEF MembershipCacheTypeOK
<1>t. MembershipCacheTypeOK /\ WritersOK
    BY DEF CacheIInv
<1>1. CASE Write(a)
    <2>1. PICK u \in CachedUsers :
              Change(u) /\ admin' = [admin EXCEPT ![a] = [pc |-> "changed", user |-> u,
                                                          answer |-> changes[u] + 1]]
        BY <1>1 DEF Write
    <2>2. changes[u] + 1 \in Answers
        BY <1>t, <2>1 DEF Change, Answers
    <2>3. admin' \in [Admins -> [pc : {"idle", "changed"},
                                 user : CachedUsers \cup {Nobody}, answer : Answers]]
        BY <1>t, <2>1, <2>2
    <2>4. WritersOK'
        BY <1>t, <2>1 DEF WritersOK
    <2> QED BY <1>1, <1>t, <2>1, <2>3, <2>4, ChangeTypeStep DEF Write
<1>2. CASE Invalidate(a)
    <2>1. UNCHANGED <<changes, lookup, now, superseded>> /\ generation' \in Nat
        BY <1>t, <1>2 DEF Invalidate
    <2>2. admin' \in [Admins -> [pc : {"idle", "changed"},
                                 user : CachedUsers \cup {Nobody}, answer : Answers]]
          /\ WritersOK'
        BY <1>t, <1>2 DEF Invalidate, NoAdmin, WritersOK, Answers
    <2>3. NoEntry \in [answer : Answers, expires : 0..(MaxClock + Ttl)]
        BY DEF NoEntry, Answers
    <2>4. entries' \in [CachedUsers -> [answer : Answers, expires : 0..(MaxClock + Ttl)]]
        BY <1>t, <1>2, <2>3 DEF Invalidate
    <2>5. written' \in [CachedUsers -> Answers]
        BY <1>t, <1>2 DEF Invalidate
    <2> QED BY <1>t, <2>1, <2>2, <2>4, <2>5
<1> QED BY <1>1, <1>2

LEMMA CacheTypeStep ==
    ASSUME CacheIInv, [MembershipCacheNext]_cacheVars
    PROVE  MembershipCacheTypeOK' /\ WritersOK'
<1>t. MembershipCacheTypeOK /\ WritersOK
    BY DEF CacheIInv
<1>0. CASE UNCHANGED cacheVars
    BY <1>0, <1>t DEF cacheVars, MembershipCacheTypeOK, WritersOK
<1>1. CASE Tick
    BY <1>1, <1>t DEF Tick, MembershipCacheTypeOK, WritersOK
<1>2. ASSUME NEW u \in CachedUsers, ChangeElsewhere(u) PROVE MembershipCacheTypeOK' /\ WritersOK'
    BY <1>2, <1>t, ChangeTypeStep DEF ChangeElsewhere, MembershipCacheTypeOK, WritersOK
<1> QED BY <1>0, <1>1, <1>2, LookupTypeStep, StoreTypeStep, WriterTypeStep DEF MembershipCacheNext

(***************************************************************************)
(* What each step does to the thread or the entry it works on, and that it *)
(* leaves the others alone.                                                *)
(***************************************************************************)
LEMMA MissEffect ==
    ASSUME CacheIInv, NEW l \in Lookups, Miss(l)
    PROVE  /\ lookup'[l].pc = "loading" /\ lookup'[l].start = now
           /\ lookup'[l].user \in CachedUsers /\ lookup'[l].generation = generation
           /\ \A m \in Lookups : m # l => lookup'[m] = lookup[m]
    BY DEF Miss, NoLookup, CacheIInv, MembershipCacheTypeOK

LEMMA LoadEffect ==
    ASSUME CacheIInv, NEW l \in Lookups, Load(l)
    PROVE  /\ lookup[l].pc = "loading" /\ lookup'[l].pc = "loaded"
           /\ lookup'[l].user = lookup[l].user /\ lookup'[l].start = lookup[l].start
           /\ lookup'[l].generation = lookup[l].generation
           /\ lookup'[l].answer = changes[lookup[l].user]
           /\ \A m \in Lookups : m # l => lookup'[m] = lookup[m]
    BY DEF Load, CacheIInv, MembershipCacheTypeOK

LEMMA ForgetEffect ==
    ASSUME CacheIInv, NEW l \in Lookups, Store(l) \/ LoadRaises(l)
    PROVE  /\ lookup'[l].pc = "idle" /\ lookup'[l].generation = 0
           /\ \A m \in Lookups : m # l => lookup'[m] = lookup[m]
    BY DEF Store, LoadRaises, NoLookup, CacheIInv, MembershipCacheTypeOK

LEMMA StoreEffect ==
    ASSUME CacheIInv, NEW l \in Lookups, Store(l), NEW u \in CachedUsers
    PROVE  \/ /\ u = lookup[l].user /\ lookup[l].pc = "loaded"
              /\ lookup[l].generation = generation
              /\ entries'[u].answer = lookup[l].answer
              /\ entries'[u].expires = lookup[l].start + Ttl
           \/ entries'[u] = entries[u]
           \/ entries'[u].answer = 0 /\ entries'[u].expires = 0
    BY DEF Store, Storable, ExpiryOf, NoEntry, CacheIInv, MembershipCacheTypeOK

LEMMA ChangeEffect ==
    ASSUME CacheIInv, NEW u \in CachedUsers, Change(u)
    PROVE  /\ changes'[u] = changes[u] + 1 /\ changes[u] \in Answers
           /\ superseded'[u][changes[u]] = now
           /\ \A n \in Answers : n # changes[u] => superseded'[u][n] = superseded[u][n]
           /\ \A v \in CachedUsers : v # u =>
                changes'[v] = changes[v] /\ superseded'[v] = superseded[v]
    BY DEF Change, CacheIInv, MembershipCacheTypeOK

LEMMA WriteEffect ==
    ASSUME CacheIInv, NEW a \in Admins, Write(a)
    PROVE  \E u \in CachedUsers :
              /\ Change(u)
              /\ admin'[a].user = u /\ admin'[a].answer = changes[u] + 1
              /\ \A b \in Admins : b # a => admin'[b] = admin[b]
    BY DEF Write, CacheIInv, MembershipCacheTypeOK

LEMMA InvalidateEffect ==
    ASSUME CacheIInv, NEW a \in Admins, Invalidate(a)
    PROVE  /\ admin[a].pc = "changed" /\ admin'[a].pc = "idle" /\ generation' = generation + 1
           /\ \A b \in Admins : b # a => admin'[b] = admin[b]
           /\ entries'[admin[a].user].expires = 0
           /\ \A u \in CachedUsers :
                entries'[u] = entries[u] \/ (entries'[u].answer = 0 /\ entries'[u].expires = 0)
           /\ written'[admin[a].user] \in {written[admin[a].user], admin[a].answer}
           /\ \A u \in CachedUsers : u # admin[a].user => written'[u] = written[u]
<1> USE DEF Invalidate, NoAdmin, NoEntry, CacheIInv, MembershipCacheTypeOK, WritersOK
<1>1. /\ admin[a].pc = "changed" /\ admin'[a].pc = "idle" /\ generation' = generation + 1
      /\ \A b \in Admins : b # a => admin'[b] = admin[b]
    OBVIOUS
<1>2. /\ entries'[admin[a].user].expires = 0
      /\ \A u \in CachedUsers :
            entries'[u] = entries[u] \/ (entries'[u].answer = 0 /\ entries'[u].expires = 0)
    OBVIOUS
<1>3. /\ written'[admin[a].user] \in {written[admin[a].user], admin[a].answer}
      /\ \A u \in CachedUsers : u # admin[a].user => written'[u] = written[u]
    OBVIOUS
<1> QED BY <1>1, <1>2, <1>3

(***************************************************************************)
(* Generations only grow, and no write is ahead of the directory.          *)
(***************************************************************************)
LEMMA CacheOrderStep ==
    ASSUME CacheIInv, [MembershipCacheNext]_cacheVars
    PROVE  CacheOrder'
<1> USE DEF CacheOrder
<1>t. CacheOrder /\ WritersOK /\ MembershipCacheTypeOK
    BY DEF CacheIInv
<1>0. CASE UNCHANGED cacheVars
    BY <1>0, <1>t DEF cacheVars
<1>1. CASE Tick
    BY <1>1, <1>t DEF Tick
<1>2. ASSUME NEW l \in Lookups, Miss(l) PROVE CacheOrder'
    <2>1. generation \in Nat /\ UNCHANGED <<changes, admin, generation, written>>
        BY <1>2, <1>t DEF Miss, MembershipCacheTypeOK
    <2> QED BY <1>2, <1>t, <2>1, MissEffect
<1>3. ASSUME NEW l \in Lookups, Load(l) PROVE CacheOrder'
    BY <1>3, <1>t, LoadEffect DEF Load
<1>4. ASSUME NEW l \in Lookups, Store(l) \/ LoadRaises(l) PROVE CacheOrder'
    <2>1. generation' = generation /\ generation \in Nat
          /\ UNCHANGED <<changes, admin, written>>
        BY <1>4, <1>t DEF Store, LoadRaises, MembershipCacheTypeOK
    <2> QED BY <1>4, <1>t, <2>1, ForgetEffect
<1>5. ASSUME NEW u \in CachedUsers, ChangeElsewhere(u) PROVE CacheOrder'
    <2>1. \A v \in CachedUsers : changes'[v] >= changes[v] /\ changes[v] \in Nat
                                 /\ changes'[v] \in Nat /\ written[v] \in Nat
        <3>1. \A v \in CachedUsers : changes[v] \in Nat /\ written[v] \in Nat
            BY <1>t DEF MembershipCacheTypeOK, Answers
        <3> QED BY <1>5, <3>1, ChangeEffect DEF ChangeElsewhere
    <2>2. \A a \in Admins : admin[a].answer \in Nat
        BY <1>t DEF MembershipCacheTypeOK, Answers
    <2> QED BY <1>5, <1>t, <2>1, <2>2 DEF ChangeElsewhere, WritersOK
<1>6. ASSUME NEW a \in Admins, Write(a) PROVE CacheOrder'
    <2>1. PICK u \in CachedUsers :
              /\ Change(u)
              /\ admin'[a].user = u /\ admin'[a].answer = changes[u] + 1
              /\ \A b \in Admins : b # a => admin'[b] = admin[b]
        BY <1>6, WriteEffect
    <2>2. \A v \in CachedUsers : changes'[v] >= changes[v] /\ changes[v] \in Nat
                                 /\ changes'[v] \in Nat /\ written[v] \in Nat
        <3>1. \A v \in CachedUsers : changes[v] \in Nat /\ written[v] \in Nat
            BY <1>t DEF MembershipCacheTypeOK, Answers
        <3> QED BY <2>1, <3>1, ChangeEffect
    <2>3. \A b \in Admins : admin[b].answer \in Nat
        BY <1>t DEF MembershipCacheTypeOK, Answers
    <2>4. admin'[a].answer <= changes'[admin'[a].user]
        BY <2>1, <2>2, ChangeEffect
    <2>5. \A b \in Admins : admin'[b].pc = "changed" => admin'[b].answer <= changes'[admin'[b].user]
        BY <1>t, <2>1, <2>2, <2>3, <2>4 DEF WritersOK
    <2> QED BY <1>6, <1>t, <2>2, <2>5 DEF Write
<1>7. ASSUME NEW a \in Admins, Invalidate(a) PROVE CacheOrder'
    <2>1. \A u \in CachedUsers : written'[u] <= changes[u]
        BY <1>7, <1>t, InvalidateEffect
    <2>2. \A b \in Admins : admin'[b].pc = "changed" => admin[b].pc = "changed" /\ admin'[b] = admin[b]
        BY <1>7, InvalidateEffect
    <2>3. \A m \in Lookups : lookup[m].generation \in Nat /\ lookup[m].generation <= generation'
        BY <1>7, <1>t, InvalidateEffect DEF MembershipCacheTypeOK
    <2> QED BY <1>7, <1>t, <2>1, <2>2, <2>3 DEF Invalidate
<1> QED BY <1>0, <1>1, <1>2, <1>3, <1>4, <1>5, <1>6, <1>7 DEF MembershipCacheNext

(***************************************************************************)
(* What a lookup under way and an entry have seen: an invalidation raises  *)
(* the generation, so a load that began before it is not stored.           *)
(***************************************************************************)
LEMMA CacheSeesStep ==
    ASSUME CacheIInv, [MembershipCacheNext]_cacheVars
    PROVE  LookupSees' /\ OwnWritesAreSeen'
<1> USE DEF LookupSees, OwnWritesAreSeen, Cached
<1>t. /\ CacheOrder /\ WritersOK /\ MembershipCacheTypeOK /\ AgeOK
      /\ LookupSees /\ OwnWritesAreSeen
    BY DEF CacheIInv
<1>e. \A u \in CachedUsers : entries[u].expires \in Nat /\ entries[u].answer \in Nat
    BY <1>t DEF MembershipCacheTypeOK, Answers
<1>n. now \in Nat /\ generation \in Nat
    BY <1>t DEF MembershipCacheTypeOK
<1>0. CASE UNCHANGED cacheVars
    BY <1>0, <1>t DEF cacheVars
<1>1. CASE Tick
    BY <1>1, <1>t, <1>e, <1>n DEF Tick
<1>2. ASSUME NEW l \in Lookups, Miss(l) PROVE LookupSees' /\ OwnWritesAreSeen'
    <2>1. LookupSees'
        BY <1>2, <1>t, MissEffect DEF Miss
    <2> QED BY <1>2, <1>t, <2>1 DEF Miss
<1>3. ASSUME NEW l \in Lookups, Load(l) PROVE LookupSees' /\ OwnWritesAreSeen'
    <2>1. lookup[l].user \in CachedUsers /\ changes[lookup[l].user] >= written[lookup[l].user]
        BY <1>3, <1>t, LoadEffect DEF AgeOK, CacheOrder, MembershipCacheTypeOK, Answers
    <2>2. LookupSees'
        BY <1>3, <1>t, <2>1, LoadEffect DEF Load
    <2> QED BY <1>3, <1>t, <2>2 DEF Load
<1>4. ASSUME NEW l \in Lookups, LoadRaises(l) PROVE LookupSees' /\ OwnWritesAreSeen'
    <2>1. LookupSees'
        BY <1>4, <1>t, ForgetEffect DEF LoadRaises
    <2> QED BY <1>4, <1>t, <2>1 DEF LoadRaises
<1>5. ASSUME NEW l \in Lookups, Store(l) PROVE LookupSees' /\ OwnWritesAreSeen'
    <2>0. UNCHANGED <<changes, generation, now, written>>
        BY <1>5 DEF Store
    <2>1. LookupSees'
        BY <1>5, <1>t, <2>0, ForgetEffect
    <2>2. ASSUME NEW u \in CachedUsers, entries'[u].expires > now
          PROVE  entries'[u].answer >= written[u]
        BY <1>5, <1>t, <1>n, <2>2, StoreEffect
    <2> QED BY <2>0, <2>1, <2>2
<1>6. ASSUME NEW u \in CachedUsers, ChangeElsewhere(u) PROVE LookupSees' /\ OwnWritesAreSeen'
    BY <1>6, <1>t DEF ChangeElsewhere
<1>7. ASSUME NEW a \in Admins, Write(a) PROVE LookupSees' /\ OwnWritesAreSeen'
    BY <1>7, <1>t DEF Write
<1>8. ASSUME NEW a \in Admins, Invalidate(a) PROVE LookupSees' /\ OwnWritesAreSeen'
    <2>0. UNCHANGED <<lookup, now>>
        BY <1>8 DEF Invalidate
    <2>1. \A m \in Lookups : lookup[m].generation \in Nat /\ lookup[m].generation <= generation
        BY <1>t DEF CacheOrder, MembershipCacheTypeOK
    <2>2. \A m \in Lookups : lookup'[m].generation # generation'
        BY <1>8, <1>n, <2>0, <2>1, InvalidateEffect
    <2>3. ASSUME NEW u \in CachedUsers, entries'[u].expires > now
          PROVE  entries'[u].answer >= written'[u]
        BY <1>8, <1>t, <1>n, <2>3, InvalidateEffect
    <2> QED BY <2>0, <2>2, <2>3
<1> QED BY <1>0, <1>1, <1>2, <1>3, <1>4, <1>5, <1>6, <1>7, <1>8 DEF MembershipCacheNext

(***************************************************************************)
(* How old an answer can get: the expiry is counted from the start of the  *)
(* load, and what the load read was superseded later than that.            *)
(***************************************************************************)
LEMMA ChangeAges ==
    ASSUME CacheIInv, NEW u \in CachedUsers, Change(u), UNCHANGED <<entries, lookup, now>>
    PROVE  AgeOK' /\ StaleWithinTtl'
<1>t. MembershipCacheTypeOK /\ AgeOK /\ StaleWithinTtl
    BY DEF CacheIInv
<1>c. /\ \A v \in CachedUsers : changes[v] \in Nat
      /\ \A v \in CachedUsers : entries[v].answer \in Answers /\ entries[v].answer \in Nat
      /\ \A v \in CachedUsers : entries[v].expires \in Nat
    BY <1>t DEF MembershipCacheTypeOK, Answers
<1>s. \A v \in CachedUsers, n \in Answers : superseded[v][n] \in Nat
    BY <1>t DEF MembershipCacheTypeOK
<1>n. now \in Nat /\ Answers \subseteq Nat
    BY <1>t DEF MembershipCacheTypeOK, Answers
<1>l. \A m \in Lookups :
        lookup[m].answer \in Answers /\ lookup[m].answer \in Nat /\ lookup[m].start \in Nat
    BY <1>t DEF MembershipCacheTypeOK, Answers
<1>1. \A v \in CachedUsers : changes'[v] >= changes[v] /\ changes'[v] \in Nat
    BY <1>c, ChangeEffect
<1>2. ASSUME NEW v \in CachedUsers, Cached(v)
      PROVE  /\ entries[v].answer <= changes'[v]
             /\ entries[v].answer < changes'[v]
                    => entries[v].expires <= superseded'[v][entries[v].answer] + Ttl
    <2>1. entries[v].answer <= changes[v] /\ entries[v].expires <= now + Ttl
        BY <1>2, <1>t DEF AgeOK
    <2>2. CASE v # u
        BY <1>2, <1>t, <2>1, <2>2, ChangeEffect DEF StaleWithinTtl
    <2>3. CASE v = u /\ entries[v].answer = changes[v]
        BY <1>c, <2>1, <2>3, ChangeEffect
    <2>4. CASE v = u /\ entries[v].answer # changes[v]
        <3>1. entries[v].answer < changes[v]
            BY <1>c, <1>n, <2>1, <2>4
        <3>2. superseded'[v][entries[v].answer] = superseded[v][entries[v].answer]
            BY <1>c, <2>4, ChangeEffect
        <3>3. entries[v].answer <= changes'[v]
            BY <1>c, <1>1, <2>1
        <3> QED BY <1>2, <1>t, <3>1, <3>2, <3>3 DEF StaleWithinTtl
    <2> QED BY <2>2, <2>3, <2>4
<1>3. ASSUME NEW m \in Lookups, lookup[m].pc = "loaded"
      PROVE  /\ lookup[m].answer <= changes'[lookup[m].user]
             /\ lookup[m].answer < changes'[lookup[m].user]
                    => superseded'[lookup[m].user][lookup[m].answer] >= lookup[m].start
    <2> DEFINE v == lookup[m].user
    <2>1. v \in CachedUsers /\ lookup[m].start <= now /\ lookup[m].answer <= changes[v]
        BY <1>3, <1>t DEF AgeOK
    <2>2. CASE v # u
        BY <1>3, <1>t, <2>1, <2>2, ChangeEffect DEF AgeOK
    <2>3. CASE v = u /\ lookup[m].answer = changes[v]
        BY <1>c, <2>1, <2>3, ChangeEffect
    <2>4. CASE v = u /\ lookup[m].answer # changes[v]
        <3>1. lookup[m].answer < changes[v]
            BY <1>c, <1>l, <1>n, <2>1, <2>4
        <3>2. superseded'[v][lookup[m].answer] = superseded[v][lookup[m].answer]
            BY <1>l, <2>4, ChangeEffect
        <3> QED BY <1>3, <1>t, <1>c, <1>l, <1>1, <2>1, <3>1, <3>2 DEF AgeOK
    <2> QED BY <2>2, <2>3, <2>4
<1>4. \A v \in CachedUsers : Cached(v)' <=> Cached(v)
    BY DEF Cached
<1>5. AgeOK'
    BY <1>t, <1>2, <1>3, <1>4 DEF AgeOK
<1>6. StaleWithinTtl'
    BY <1>2, <1>4 DEF StaleWithinTtl
<1> QED BY <1>5, <1>6

LEMMA CacheAgeStep ==
    ASSUME CacheIInv, [MembershipCacheNext]_cacheVars
    PROVE  AgeOK' /\ StaleWithinTtl'
<1> USE DEF AgeOK, StaleWithinTtl, Cached
<1>t. MembershipCacheTypeOK /\ WritersOK /\ AgeOK /\ StaleWithinTtl
    BY DEF CacheIInv
<1>e. \A u \in CachedUsers : entries[u].expires \in Nat
    BY <1>t DEF MembershipCacheTypeOK
<1>n. now \in Nat
    BY <1>t DEF MembershipCacheTypeOK
<1>l. \A m \in Lookups : lookup[m].start \in Nat
    BY <1>t DEF MembershipCacheTypeOK
<1>0. CASE UNCHANGED cacheVars
    BY <1>0, <1>t DEF cacheVars
<1>1. CASE Tick
    <2>1. now' = now + 1 /\ UNCHANGED <<changes, entries, lookup, superseded>>
        BY <1>1 DEF Tick
    <2> QED BY <1>t, <1>e, <1>n, <1>l, <2>1
<1>2. ASSUME NEW l \in Lookups, Miss(l) PROVE AgeOK' /\ StaleWithinTtl'
    <2>1. UNCHANGED <<changes, entries, now, superseded>>
        BY <1>2 DEF Miss
    <2> QED BY <1>2, <1>t, <1>n, <2>1, MissEffect
<1>3. ASSUME NEW l \in Lookups, Load(l) PROVE AgeOK' /\ StaleWithinTtl'
    <2>1. UNCHANGED <<changes, entries, now, superseded>>
        BY <1>3 DEF Load
    <2>2. lookup[l].user \in CachedUsers /\ changes[lookup[l].user] \in Nat
        BY <1>3, <1>t, LoadEffect DEF MembershipCacheTypeOK, Answers
    <2> QED BY <1>3, <1>t, <2>1, <2>2, LoadEffect
<1>4. ASSUME NEW l \in Lookups, LoadRaises(l) PROVE AgeOK' /\ StaleWithinTtl'
    <2>1. UNCHANGED <<changes, entries, now, superseded>>
        BY <1>4 DEF LoadRaises
    <2> QED BY <1>4, <1>t, <2>1, ForgetEffect
<1>5. ASSUME NEW l \in Lookups, Store(l) PROVE AgeOK' /\ StaleWithinTtl'
    <2>1. UNCHANGED <<changes, now, superseded>>
        BY <1>5 DEF Store
    <2>2. \A m \in Lookups : lookup'[m].pc # "idle" => lookup'[m] = lookup[m]
        BY <1>5, ForgetEffect
    <2>3. ASSUME NEW u \in CachedUsers
          PROVE  /\ entries'[u].expires <= now + Ttl
                 /\ entries'[u].expires > now =>
                        /\ entries'[u].answer <= changes[u]
                        /\ entries'[u].answer < changes[u]
                            => entries'[u].expires <= superseded[u][entries'[u].answer] + Ttl
        <3>1. CASE /\ u = lookup[l].user /\ lookup[l].pc = "loaded"
                   /\ entries'[u].answer = lookup[l].answer
                   /\ entries'[u].expires = lookup[l].start + Ttl
            <4>1. /\ lookup[l].start <= now /\ lookup[l].answer <= changes[u]
                  /\ lookup[l].answer < changes[u]
                        => superseded[u][lookup[l].answer] >= lookup[l].start
                BY <1>t, <3>1
            <4>2. lookup[l].answer \in Answers /\ superseded[u][lookup[l].answer] \in Nat
                BY <1>t DEF MembershipCacheTypeOK
            <4> QED BY <1>n, <1>l, <3>1, <4>1, <4>2
        <3>2. CASE entries'[u] = entries[u]
            BY <1>t, <3>2
        <3>3. CASE entries'[u].answer = 0 /\ entries'[u].expires = 0
            BY <1>n, <3>3
        <3> QED BY <1>5, <3>1, <3>2, <3>3, StoreEffect
    <2>4. AgeOK'
        BY <1>t, <2>1, <2>2, <2>3
    <2>5. StaleWithinTtl'
        BY <2>1, <2>3
    <2> QED BY <2>4, <2>5
<1>6. ASSUME NEW u \in CachedUsers, ChangeElsewhere(u) PROVE AgeOK' /\ StaleWithinTtl'
    BY <1>6, ChangeAges DEF ChangeElsewhere
<1>7. ASSUME NEW a \in Admins, Write(a) PROVE AgeOK' /\ StaleWithinTtl'
    <2>1. PICK u \in CachedUsers : Change(u)
        BY <1>7 DEF Write
    <2>2. UNCHANGED <<entries, lookup, now>>
        BY <1>7 DEF Write
    <2> QED BY <2>1, <2>2, ChangeAges
<1>8. ASSUME NEW a \in Admins, Invalidate(a) PROVE AgeOK' /\ StaleWithinTtl'
    <2>1. UNCHANGED <<changes, lookup, now, superseded>>
        BY <1>8 DEF Invalidate
    <2>2. \A u \in CachedUsers :
            entries'[u] = entries[u] \/ (entries'[u].answer = 0 /\ entries'[u].expires = 0)
        BY <1>8, InvalidateEffect
    <2> QED BY <1>t, <1>n, <2>1, <2>2
<1> QED BY <1>0, <1>1, <1>2, <1>3, <1>4, <1>5, <1>6, <1>7, <1>8 DEF MembershipCacheNext

(***************************************************************************)
(* The inductive account of entries, lookups and writers holds in every    *)
(* reachable state.                                                        *)
(***************************************************************************)
THEOREM CacheCorrect == MembershipCacheSpec => []CacheIInv
<1>1. CacheIInv /\ [MembershipCacheNext]_cacheVars => CacheIInv'
    BY CacheTypeStep, CacheOrderStep, CacheSeesStep, CacheAgeStep DEF CacheIInv
<1> QED BY CacheStart, <1>1, PTL DEF MembershipCacheSpec

(***************************************************************************)
(* No lookup is answered from before a write this process has finished.    *)
(***************************************************************************)
THEOREM OwnWritesSeen == MembershipCacheSpec => []OwnWritesAreSeen
    BY CacheCorrect, PTL DEF CacheIInv

(***************************************************************************)
(* A change made elsewhere is hidden for at most the time to live, however *)
(* long a load takes.                                                      *)
(***************************************************************************)
THEOREM StaleIsBounded == MembershipCacheSpec => []StaleWithinTtl
    BY CacheCorrect, PTL DEF CacheIInv
=============================================================================
