------------------------------ MODULE MCAccess ------------------------------
(***************************************************************************)
(* Small instances, for TLC, of the components that decide who belongs to  *)
(* a tenant, which tenant a user works in and what is offered there:       *)
(* invitations, members and roles, the membership cache, the session, the  *)
(* tenant of the MCP server, the rights of roles, the lists of tasks and   *)
(* process instances, and the local rows of users.  They run behind        *)
(* separate locks, rows and cookies; the user_group_assignment rows, which *)
(* tenant roles, sessions and the worklist all touch, each of them models  *)
(* with the writers it depends on.  So the modules share no variable and   *)
(* one run explores the behaviours of each of them and not their product:  *)
(* part names the component that moves.                                    *)
(***************************************************************************)
EXTENDS Invitations, TenantRoles, MembershipCache, Sessions, McpSession,
        PermissionSeed, Worklist, LocalUsers, TLC

CONSTANTS c1, c2, t1, t2, r2

VARIABLE part

accessVars ==
    <<part, inviteVars, rolesVars, cacheVars, sessionVars, mcpVars, rightsVars,
      worklistVars, userVars>>

\* Every role is granted by one group.
OneGroup == [r \in 1..MaxRole |-> "g1"]
\* A second one may have the role's own name.
OtherGroup == [r \in 1..MaxRole |-> "g2"]
\* The operator takes Start from the submitters.
OneEdit == {Grant("submitter", "start", "models", "process.start")}

\* Bounds of the part that moves.  A second token for one invitation, and once its row
\* carries it two requests at a time only while there is one invitation; a token that names
\* one group, where one member comes and goes and no other is doubted, and two role requests
\* at a time where there are one such member, one group and no token; the role given in one
\* organization, so that what shows up in another is wrong, and after an overlap of commands
\* two requests at a time where nothing is held; two listings of organizations among the
\* tokens of a user of the MCP server; two imports at a time by two releases; one person
\* elsewhere while there is one instance, or with a reconciliation that failed; two requests
\* of users at a time for one account, and not after a crossed one was answered.
AtMostOne(S) == Cardinality(S) <= 1
InvitationsBound ==
    /\ AtMostOne({i \in Invites : issued[i] > 1})
    /\ \/ \A i \in Invites : token[i] <= 1
       \/ AtMostOne({i \in Invites : issued[i] > 0})
       \/ AtMostOne({c \in InviteCalls : ~CallAt(c, "idle")})
\* members that anything is known of
Touched ==
    {u \in Members : \/ u \in orgMembers \/ localRoles[u] # {} \/ tokenGroups[u] # {}
                     \/ \E c \in RoleCalls : u \in roleCall[c].queue}
RolesBound ==
    /\ \A u \in Members : AtMostOne(tokenGroups[u])
    /\ LET signedIn == brought # {} \/ \E u \in Members : tokenGroups[u] # {} IN
       \/ AtMostOne({c \in RoleCalls : Busy(c)}) /\ (signedIn => AtMostOne(Touched \cup doubted))
       \/ Cardinality(groups) = 1 /\ ~signedIn /\ AtMostOne(Touched)
SessionBound ==
    /\ AtMostOne(everGranted)
    /\ AtMostOne({r \in Requests : ~RequestAt(r, "idle")}) \/ ~excused \/ heldRoles = {}
McpBound == Cardinality(listings) <= 2
RightsBound ==
    \A v \in Releases : AtMostOne({c \in RightsCalls : rightsCall[c].release = v})
WorklistBound ==
    /\ Cardinality(People \ here) + Cardinality(unreconciled) <= 1
    /\ People = here \/ AtMostOne({r \in Runs : run[r].status # "none"})
UsersBound ==
    LET busy == {c \in UserCalls : ~UserCallAt(c, "idle")} IN
    \/ AtMostOne(busy)
    \/ /\ AtMostOne({userCall[c].account : c \in busy})
       /\ crossed = {} \/ \A a \in Accounts : answered[a] = {}

AccessInit ==
    /\ part \in {"invitations", "roles", "cache", "session", "mcp", "rights", "worklist",
                "users"}
    /\ InvitationsInit /\ TenantRolesInit /\ MembershipCacheInit /\ SessionsInit
    /\ McpSessionInit /\ RightsInit /\ WorklistInit /\ LocalUsersInit
    /\ part # "mcp" => remote /\ memberOf = {}
    \* of the session: a member of every tenant, to whom the role is given later
    /\ IF part = "session" THEN \A t \in Tenants : dirLevel[t] = "thin"
       ELSE dirLevel = [t \in Tenants |-> "out"]
    \* of the rights: a user anywhere, one tenant still with grants of the first seed
    /\ part = "rights" => assignments[r2] = Permits(Yaml[0])
    /\ part # "rights" => super /\ assignments = [t \in RightsTenants |-> {}]
    \* of the worklist: a submitter and somebody of any role
    /\ IF part = "worklist" THEN \E u \in People : roleHere[u] = "submitter"
       ELSE \A u \in People : roleHere[u] = "editor"

AccessNext ==
    \/ part = "invitations" /\ InvitationsNext /\ InvitationsBound'
       /\ UNCHANGED <<part, rolesVars, cacheVars, sessionVars, mcpVars, rightsVars,
                      worklistVars, userVars>>
    \/ part = "roles" /\ TenantRolesNext /\ RolesBound'
       /\ UNCHANGED <<part, inviteVars, cacheVars, sessionVars, mcpVars, rightsVars,
                      worklistVars, userVars>>
    \/ part = "cache" /\ MembershipCacheNext
       /\ UNCHANGED <<part, inviteVars, rolesVars, sessionVars, mcpVars, rightsVars,
                      worklistVars, userVars>>
    \/ part = "session" /\ SessionsNext /\ SessionBound'
       /\ UNCHANGED <<part, inviteVars, rolesVars, cacheVars, mcpVars, rightsVars,
                      worklistVars, userVars>>
    \/ part = "mcp" /\ McpSessionNext /\ McpBound'
       /\ UNCHANGED <<part, inviteVars, rolesVars, cacheVars, sessionVars, rightsVars,
                      worklistVars, userVars>>
    \/ part = "rights" /\ RightsNext /\ RightsBound'
       /\ UNCHANGED <<part, inviteVars, rolesVars, cacheVars, sessionVars, mcpVars,
                      worklistVars, userVars>>
    \/ part = "worklist" /\ WorklistNext /\ WorklistBound'
       /\ UNCHANGED <<part, inviteVars, rolesVars, cacheVars, sessionVars, mcpVars,
                      rightsVars, userVars>>
    \/ part = "users" /\ LocalUsersNext /\ UsersBound'
       /\ UNCHANGED <<part, inviteVars, rolesVars, cacheVars, sessionVars, mcpVars,
                      rightsVars, worklistVars>>

AccessSpec == AccessInit /\ [][AccessNext]_accessVars

\* Every variable of the component that moves keeps its type.
AccessTypeOK ==
    /\ part = "invitations" => InvitationsTypeOK
    /\ part = "roles" => TenantRolesTypeOK
    /\ part = "cache" => MembershipCacheTypeOK
    /\ part = "session" => SessionsTypeOK
    /\ part = "mcp" => McpSessionTypeOK
    /\ part = "rights" => RightsTypeOK
    /\ part = "worklist" => WorklistTypeOK
    /\ part = "users" => LocalUsersTypeOK

\* A component that does not move stays as it began: states are told apart by the one that
\* moves.
AccessView ==
    <<part,
      CASE part = "invitations" -> inviteVars
        [] part = "roles" -> rolesVars
        [] part = "cache" -> cacheVars
        [] part = "session" -> sessionVars
        [] part = "mcp" -> mcpVars
        [] part = "rights" -> rightsVars
        [] part = "worklist" -> worklistVars
        [] part = "users" -> userVars>>

\* Requests are interchangeable, and so are tenants, and usernames.
AccessSymmetry == Permutations({c1, c2}) \cup Permutations({t1, t2})
=============================================================================
