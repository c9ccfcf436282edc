----------------------------- MODULE TenantRoles -----------------------------
(***************************************************************************)
(* Members, groups and roles of one tenant: the organization in the        *)
(* directory (integrations/auth/keycloak/groups.py) and its mirror, the    *)
(* local role assignments (services/tenant_role_service.py).  A call       *)
(* changes the directory, then reads back what each affected member is     *)
(* granted and rewrites the member's local rows, role by role.  The same   *)
(* rows are written by every authenticated request of a member, from the   *)
(* groups in the member's token (identity/__init__.py, sync_groups).       *)
(***************************************************************************)
EXTENDS Naturals, FiniteSets

CONSTANTS
    Members,       \* usernames
    Groups,        \* group names
    MaxRole,       \* roles are 1..MaxRole, in the order VALID_TENANT_ROLE_NAMES sorts them
    GroupOfRole,   \* role -> its primary group
    NamedAfter,    \* role -> the group that has the role's own name
    RoleCalls,     \* concurrent requests
    GroupPage      \* members of a group that one listing returns

Roles == 1..MaxRole

ASSUME TenantRolesAssumption ==
    /\ MaxRole \in Nat
    /\ GroupOfRole \in [Roles -> Groups]
    /\ NamedAfter \in [Roles -> Groups]
    /\ GroupPage \in Nat
    /\ IsFiniteSet(Members)
    /\ "none" \notin Groups \cup Members

VARIABLES
    \* the directory: organization members, groups, memberships, roles of a group
    orgMembers, groups, inGroup, groupRoles,
    \* the local mirror: user_group_assignment rows
    localRoles,
    \* the groups in a member's token
    tokenGroups,
    \* requests under way
    roleCall,
    \* history: members whose rows may differ from the directory; rows that a token
    \* brought and the directory did not grant, until a rewrite comes to them
    doubted, brought

organization == <<orgMembers, groups, inGroup, groupRoles>>
sessions == <<tokenGroups, brought>>
rolesVars == <<organization, localRoles, roleCall, doubted, sessions>>

\* alone: no other request has been under way during this one.
NoRoleCall ==
    [pc |-> "idle", op |-> "none", group |-> "none", role |-> 0, grants |-> {},
     queue |-> {}, member |-> "none", desired |-> {}, next |-> 1, added |-> {},
     known |-> {}, lookup |-> {}, alone |-> TRUE]

MemberOps == {"addMember", "addToGroup", "assignRole", "removeFromGroup", "removeRole",
              "removeMember"}
GroupOps == {"create", "grantRole", "dropRole", "rename", "delete"}

TenantRolesTypeOK ==
    /\ orgMembers \subseteq Members
    /\ groups \subseteq Groups
    /\ inGroup \subseteq orgMembers \X groups
    /\ groupRoles \in [Groups -> SUBSET Roles]
    /\ localRoles \in [Members -> SUBSET Roles]
    /\ \A c \in RoleCalls :
        /\ roleCall[c].op \in MemberOps \cup GroupOps \cup {"none", "sync"}
        /\ roleCall[c].queue \subseteq Members
        /\ roleCall[c].added \subseteq roleCall[c].desired
        /\ roleCall[c].next \in 1..(MaxRole + 1)
    /\ tokenGroups \in [Members -> SUBSET Groups]
    /\ doubted \subseteq Members
    /\ brought \subseteq Members \X Roles

\* organization_group_name_candidates_for_tenant_role
CandidateGroups(r) == {GroupOfRole[r], NamedAfter[r]}

\* tenant_roles_for_organization_group: what a group grants until it is configured
DefaultRoles(g) == {r \in Roles : g \in CandidateGroups(r)}

\* ensure_default_groups, with the roles their names stand for
TenantRolesInit ==
    /\ orgMembers = {}
    /\ groups = {GroupOfRole[r] : r \in Roles}
    /\ inGroup = {}
    /\ groupRoles = [g \in Groups |-> DefaultRoles(g)]
    /\ localRoles = [u \in Members |-> {}]
    /\ roleCall = [c \in RoleCalls |-> NoRoleCall]
    /\ tokenGroups = [u \in Members |-> {}]
    /\ doubted = {}
    /\ brought = {}

(***************************************************************************)
(* Frames                                                                  *)
(***************************************************************************)

RoleAt(c, pc) == roleCall[c].pc = pc
Frame(c, frame) == roleCall' = [roleCall EXCEPT ![c] = frame]
Busy(c) == roleCall[c].pc # "idle"

\* A request enters: nobody who is under way is alone any more, and whose rows such
\* requests rewrite is anybody's.
Admit(c, frame) ==
    LET lonely == \A d \in RoleCalls : ~Busy(d)
    IN  /\ ~Busy(c)
        /\ roleCall' = [d \in RoleCalls |->
                IF d = c THEN [frame EXCEPT !.alone = lonely]
                ELSE [roleCall[d] EXCEPT !.alone = @ /\ d # c /\ ~Busy(d)]]
        /\ doubted' = IF lonely THEN doubted ELSE Members

Grants(u) == UNION {groupRoles[g] : g \in {h \in groups : <<u, h>> \in inGroup}}

(***************************************************************************)
(* Requests about one member                                               *)
(***************************************************************************)

\* The member and the group as the request found them; then the directory is written.
StartMemberCall(c, op, u, g, r) ==
    /\ Admit(c, [NoRoleCall EXCEPT !.pc = IF op = "addMember" THEN "joining" ELSE "checked",
                                   !.op = op, !.queue = {u}, !.group = g, !.role = r])
    /\ UNCHANGED <<organization, localRoles, sessions>>

\* _validated_group_names: the groups must be there.
AddTenantMember(c) ==
    \E u \in Members, g \in groups : StartMemberCall(c, "addMember", u, g, 0)

RemoveTenantMember(c) ==
    \E u \in orgMembers : StartMemberCall(c, "removeMember", u, "none", 0)

\* _organization_group_or_error
AddTenantGroupMember(c) ==
    \E u \in orgMembers, g \in groups : StartMemberCall(c, "addToGroup", u, g, 0)

RemoveTenantGroupMember(c) ==
    \E u \in orgMembers, g \in groups : StartMemberCall(c, "removeFromGroup", u, g, 0)

\* A role is assigned through its primary group, wherever else it is granted, and removed
\* with every group it may be named by.
AssignTenantRole(c) ==
    \E u \in orgMembers, r \in Roles : StartMemberCall(c, "assignRole", u, GroupOfRole[r], 0)

RemoveTenantRole(c) ==
    \E u \in orgMembers, r \in Roles : StartMemberCall(c, "removeRole", u, GroupOfRole[r], r)

\* add_member, which an existing member skips
JoinOrganization(c) ==
    /\ RoleAt(c, "joining")
    /\ orgMembers' = orgMembers \cup roleCall[c].queue
    /\ Frame(c, [roleCall[c] EXCEPT !.pc = "checked"])
    /\ UNCHANGED <<groups, inGroup, groupRoles, localRoles, doubted, sessions>>

\* add_group_member_by_id creates a group that is not there.
PutGroupMember(c) ==
    LET g == roleCall[c].group IN
    /\ RoleAt(c, "checked")
    /\ roleCall[c].op \in {"addMember", "addToGroup", "assignRole"}
    /\ roleCall[c].queue \subseteq orgMembers
    /\ groups' = groups \cup {g}
    /\ groupRoles' = IF g \in groups THEN groupRoles
                     ELSE [groupRoles EXCEPT ![g] = DefaultRoles(g)]
    /\ inGroup' = inGroup \cup (roleCall[c].queue \X {g})
    /\ Frame(c, [roleCall[c] EXCEPT !.pc = "written"])
    /\ UNCHANGED <<orgMembers, localRoles, doubted, sessions>>

\* remove_group_member_by_id, which a group that is gone or left satisfies; for a role once
\* for each of its candidates.
DeleteGroupMember(c) ==
    /\ RoleAt(c, "checked")
    /\ inGroup' = inGroup \ (roleCall[c].queue \X {roleCall[c].group})
    /\ \/ /\ roleCall[c].op = "removeFromGroup"
          /\ Frame(c, [roleCall[c] EXCEPT !.pc = "written"])
       \/ /\ roleCall[c].op = "removeRole"
          /\ Frame(c, [roleCall[c] EXCEPT !.op = "removeFromGroup",
                                          !.group = NamedAfter[roleCall[c].role], !.role = 0])
    /\ UNCHANGED <<orgMembers, groups, groupRoles, localRoles, doubted, sessions>>

\* remove_member: the organization drops the member and its group memberships.
LeaveOrganization(c) ==
    /\ RoleAt(c, "checked") /\ roleCall[c].op = "removeMember"
    /\ orgMembers' = orgMembers \ roleCall[c].queue
    /\ inGroup' = {m \in inGroup : m[1] \notin roleCall[c].queue}
    /\ Frame(c, [roleCall[c] EXCEPT !.pc = "clearing"])
    /\ UNCHANGED <<groups, groupRoles, localRoles, doubted, sessions>>

\* A request that was alone up to here leaves no doubt about the member it rewrote.
Settle(c, u) == doubted' = IF roleCall[c].alone THEN doubted \ {u} ELSE doubted

\* _clear_local_tenant_assignments
ClearAssignments(c) ==
    /\ RoleAt(c, "clearing")
    /\ \E u \in roleCall[c].queue :
        /\ localRoles' = [localRoles EXCEPT ![u] = {}]
        /\ brought' = {b \in brought : b[1] # u}
        /\ Settle(c, u)
    /\ Frame(c, NoRoleCall)
    /\ UNCHANGED <<organization, tokenGroups>>

(***************************************************************************)
(* Requests about one group                                                *)
(***************************************************************************)

\* _organization_group_or_error, with the roles the group has now
StartGroupCall(c, op, g, r) ==
    /\ Admit(c, [NoRoleCall EXCEPT !.pc = "checked", !.op = op, !.group = g, !.role = r,
                                   !.grants = groupRoles[g]])
    /\ UNCHANGED <<organization, localRoles, sessions>>

AssignTenantGroupRole(c) ==
    \E g \in groups, r \in Roles : StartGroupCall(c, "grantRole", g, r)

RemoveTenantGroupRole(c) ==
    \E g \in groups, r \in Roles : StartGroupCall(c, "dropRole", g, r)

RenameTenantGroup(c) == \E g \in groups : StartGroupCall(c, "rename", g, 0)

\* Who is in a group
InGroup(g) == {u \in Members : <<u, g>> \in inGroup}
\* list_group_members: one page, "max": 100
Listed(g, listed) ==
    /\ listed \subseteq InGroup(g)
    /\ IF Cardinality(InGroup(g)) <= GroupPage THEN listed = InGroup(g)
       ELSE Cardinality(listed) = GroupPage

\* The members to synchronize are listed before the group is gone.
StartDeleteGroup(c) ==
    /\ \E g \in groups :
        Admit(c, [NoRoleCall EXCEPT !.pc = "losing", !.op = "delete", !.group = g])
    /\ UNCHANGED <<organization, localRoles, sessions>>

\* Those that the listing leaves out keep the rows they have.
ListGroup(c, pc, next) ==
    LET g == roleCall[c].group IN
    /\ RoleAt(c, pc)
    /\ \E listed \in SUBSET Members :
        /\ Listed(g, listed)
        /\ doubted' = doubted \cup (InGroup(g) \ listed)
        /\ Frame(c, [roleCall[c] EXCEPT !.queue = listed, !.pc = next,
                                        !.group = IF next = "syncing" THEN "none" ELSE g])
    /\ UNCHANGED <<organization, localRoles, sessions>>
ListLosers(c) == ListGroup(c, "losing", "checked")

\* create_tenant_group refuses a name that exists.
StartCreateGroup(c) ==
    /\ \E g \in Groups \ groups, r \in Roles :
        Admit(c, [NoRoleCall EXCEPT !.pc = "creating", !.op = "create", !.group = g, !.role = r])
    /\ UNCHANGED <<organization, localRoles, sessions>>

CreateTenantGroup(c) ==
    LET g == roleCall[c].group IN
    /\ RoleAt(c, "creating")
    /\ g \notin groups
    /\ groups' = groups \cup {g}
    /\ groupRoles' = [groupRoles EXCEPT ![g] = DefaultRoles(g)]
    /\ Frame(c, [roleCall[c] EXCEPT !.pc = "checked"])
    /\ UNCHANGED <<orgMembers, inGroup, localRoles, doubted, sessions>>

\* set_group_roles: the whole list is written, from the one read before.
PutGroupRoles(c) ==
    LET g == roleCall[c].group
        r == roleCall[c].role IN
    /\ RoleAt(c, "checked")
    /\ roleCall[c].op \in {"create", "grantRole", "dropRole"}
    /\ g \in groups
    /\ groupRoles' = [groupRoles EXCEPT ![g] = IF roleCall[c].op = "dropRole"
                                               THEN roleCall[c].grants \ {r}
                                               ELSE roleCall[c].grants \cup {r}]
    /\ Frame(c, IF roleCall[c].op = "create" THEN NoRoleCall
                ELSE [roleCall[c] EXCEPT !.pc = "written"])
    /\ UNCHANGED <<orgMembers, groups, inGroup, localRoles, doubted, sessions>>

\* rename_group: the new name with the roles read before.
RenameGroup(c) ==
    LET g == roleCall[c].group IN
    /\ RoleAt(c, "checked") /\ roleCall[c].op = "rename"
    /\ g \in groups
    /\ \E h \in Groups \ groups :
        /\ groups' = (groups \ {g}) \cup {h}
        /\ inGroup' = {m \in inGroup : m[2] # g}
                      \cup {<<m[1], h>> : m \in {n \in inGroup : n[2] = g}}
        /\ groupRoles' = [groupRoles EXCEPT ![h] = roleCall[c].grants]
        /\ Frame(c, [roleCall[c] EXCEPT !.pc = "written", !.group = h])
    /\ UNCHANGED <<orgMembers, localRoles, doubted, sessions>>

\* delete_group; a group that is gone already is fine.
DeleteTenantGroup(c) ==
    LET g == roleCall[c].group IN
    /\ RoleAt(c, "checked") /\ roleCall[c].op = "delete"
    /\ groups' = groups \ {g}
    /\ inGroup' = {m \in inGroup : m[2] # g}
    /\ Frame(c, [roleCall[c] EXCEPT !.pc = "written"])
    /\ UNCHANGED <<orgMembers, groupRoles, localRoles, doubted, sessions>>

(***************************************************************************)
(* The mirror: _sync_local_member_from_keycloak_member                     *)
(***************************************************************************)

\* _organization_group_role_lookup
ReadLookup(c) ==
    /\ RoleAt(c, "written")
    /\ Frame(c, [roleCall[c] EXCEPT
            !.role = 0, !.grants = {}, !.known = groups,
            !.lookup = {p \in groups \X Roles : p[2] \in groupRoles[p[1]]},
            !.op = "sync",
            !.group = IF roleCall[c].op \in {"grantRole", "dropRole", "rename"} THEN @ ELSE "none",
            !.pc = IF roleCall[c].op \in {"grantRole", "dropRole", "rename"}
                   THEN "listing" ELSE "syncing"])
    /\ UNCHANGED <<organization, localRoles, doubted, sessions>>

\* _sync_local_members_for_group
ListGroupMembers(c) == ListGroup(c, "listing", "syncing")

\* _normalized_member_roles: the member's groups, with the roles of the lookup.
ReadMemberRoles(c) ==
    /\ RoleAt(c, "syncing")
    /\ \E u \in roleCall[c].queue :
        LET mine == {g \in groups : <<u, g>> \in inGroup} IN
        /\ u \in orgMembers
        /\ Frame(c, [roleCall[c] EXCEPT
            !.pc = "mirroring", !.member = u, !.next = 1, !.added = {},
            !.queue = @ \ {u},
            !.desired = {p[2] : p \in {q \in roleCall[c].lookup : q[1] \in mine}}
                        \cup UNION {groupRoles[g] : g \in mine \ roleCall[c].known}])
    /\ UNCHANGED <<organization, localRoles, doubted, sessions>>

\* (mutant of MirrorRole: like sync_groups, roles are only added)
MirrorRoleAdding(c) ==
    /\ RoleAt(c, "mirroring") /\ roleCall[c].next <= MaxRole
    /\ Frame(c, [roleCall[c] EXCEPT !.next = @ + 1,
                     !.added = @ \cup ({roleCall[c].next} \cap roleCall[c].desired)])
    /\ UNCHANGED <<organization, localRoles, doubted, sessions>>

\* _sync_local_role_assignments: an addition is flushed, a deletion commits at once, and
\* with it the additions before it.
MirrorRole(c) ==
    LET r == roleCall[c].next
        u == roleCall[c].member IN
    /\ RoleAt(c, "mirroring") /\ r <= MaxRole
    /\ \/ /\ r \in roleCall[c].desired
          /\ Frame(c, [roleCall[c] EXCEPT !.next = @ + 1,
                        !.added = @ \cup ({r} \ localRoles[u])])
          /\ UNCHANGED localRoles
       \/ /\ r \notin roleCall[c].desired
          /\ r \in localRoles[u]
          /\ localRoles' = [localRoles EXCEPT ![u] = (@ \cup roleCall[c].added) \ {r}]
          /\ Frame(c, [roleCall[c] EXCEPT !.next = @ + 1, !.added = {}])
       \/ /\ r \notin roleCall[c].desired \cup localRoles[u]
          /\ Frame(c, [roleCall[c] EXCEPT !.next = @ + 1])
          /\ UNCHANGED localRoles
    /\ brought' = brought \ {<<u, r>>}
    /\ UNCHANGED <<organization, doubted, tokenGroups>>

\* The final commit, after import_yaml.
CommitMirror(c) ==
    LET u == roleCall[c].member IN
    /\ RoleAt(c, "mirroring") /\ roleCall[c].next > MaxRole
    /\ localRoles' = [localRoles EXCEPT ![u] = @ \cup roleCall[c].added]
    /\ Frame(c, [roleCall[c] EXCEPT !.pc = "syncing", !.member = "none", !.next = 1,
                                    !.desired = {}, !.added = {}])
    /\ Settle(c, u)
    /\ UNCHANGED <<organization, sessions>>

\* The response; nobody is left to synchronize.
Respond(c) ==
    /\ RoleAt(c, "syncing") /\ roleCall[c].queue = {}
    /\ Frame(c, NoRoleCall)
    /\ UNCHANGED <<organization, localRoles, doubted, sessions>>

\* Whose rows a request has still to rewrite, once it has written the directory
Concerned(c) ==
    roleCall[c].queue \cup ({roleCall[c].member} \ {"none"})
    \cup (IF roleCall[c].op \in MemberOps THEN {} ELSE InGroup(roleCall[c].group))

\* The directory refuses or is unreachable, a commit fails, or the process dies.
RoleCallFails(c) ==
    /\ Busy(c)
    /\ Frame(c, NoRoleCall)
    /\ doubted' = doubted \cup Concerned(c)
    /\ UNCHANGED <<organization, localRoles, sessions>>

(***************************************************************************)
(* The second writer: members who sign in and work                         *)
(***************************************************************************)

\* A token of the member, with the names of the member's groups as they are now; it lives on
\* when they change.  (A thin token is completed from the directory: issued, then used.)
IssueToken(u) ==
    /\ tokenGroups' = [tokenGroups EXCEPT ![u] = {g \in groups : <<u, g>> \in inGroup}]
    /\ UNCHANGED <<organization, localRoles, roleCall, doubted, brought>>

\* sync_groups, on every authenticated request: the roles the names stand for, whatever is
\* configured, are added and none is removed.
SyncGroups(u) ==
    LET named == UNION {DefaultRoles(g) : g \in tokenGroups[u]} IN
    /\ localRoles' = [localRoles EXCEPT ![u] = @ \cup named]
    /\ brought' = brought \cup ({u} \X (named \ (localRoles[u] \cup Grants(u))))
    /\ UNCHANGED <<organization, tokenGroups, roleCall, doubted>>

TenantRolesNext ==
    \/ \E u \in Members : IssueToken(u) \/ SyncGroups(u)
    \/ \E c \in RoleCalls :
        \/ AddTenantMember(c) \/ RemoveTenantMember(c)
        \/ AddTenantGroupMember(c) \/ RemoveTenantGroupMember(c)
        \/ AssignTenantRole(c) \/ RemoveTenantRole(c)
        \/ JoinOrganization(c) \/ PutGroupMember(c)
        \/ DeleteGroupMember(c) \/ LeaveOrganization(c) \/ ClearAssignments(c)
        \/ AssignTenantGroupRole(c) \/ RemoveTenantGroupRole(c) \/ RenameTenantGroup(c)
        \/ StartDeleteGroup(c) \/ ListLosers(c)
        \/ StartCreateGroup(c) \/ CreateTenantGroup(c) \/ PutGroupRoles(c)
        \/ RenameGroup(c) \/ DeleteTenantGroup(c)
        \/ ReadLookup(c) \/ ListGroupMembers(c) \/ ReadMemberRoles(c) \/ MirrorRole(c)
        \/ CommitMirror(c) \/ Respond(c) \/ RoleCallFails(c)

TenantRolesSpec == TenantRolesInit /\ [][TenantRolesNext]_rolesVars

(***************************************************************************)
(* The pages of the tenant's administration                                *)
(***************************************************************************)

\* list_tenant_members_with_roles: what each member is granted by the member's groups
MembersPage == {[member |-> u, granted |-> Grants(u)] : u \in orgMembers}

\* list_available_tenant_users: who may still be added
AvailableUsers == Members \ orgMembers

\* _organization_group_members_lookup: of each group one listing
Listings == {pages \in [groups -> SUBSET Members] : \A g \in groups : Listed(g, pages[g])}

\* list_tenant_groups_with_members
GroupsPage(pages) ==
    {[group |-> g, grants |-> groupRoles[g], listed |-> pages[g]] : g \in groups}

(***************************************************************************)
(* Properties                                                              *)
(***************************************************************************)

\* Between requests the local rows are what the pages show, whatever groups were joined,
\* left, renamed, re-mapped or deleted: a member's rows are the roles of the members page,
\* whoever is offered as a new member has none, and each role is granted by a group whose
\* page lists the member, unless a group has more members than one listing returns.
\* Excused: everybody when requests overlapped, the members a failed request had still to
\* rewrite, and those a listing left out, each until a request alone rewrites the member;
\* and, row by row, what sync_groups took from a token and the directory did not grant then.
MirrorIsExact ==
    LET Brought(u) == {r \in Roles : <<u, r>> \in brought} IN
    (\A c \in RoleCalls : ~Busy(c)) =>
        /\ \A p \in MembersPage : p.member \notin doubted =>
            /\ p.granted \subseteq localRoles[p.member]
            /\ localRoles[p.member] \subseteq p.granted \cup Brought(p.member)
        /\ \A u \in AvailableUsers \ doubted : localRoles[u] \subseteq Brought(u)
        /\ \A pages \in Listings :
            /\ \A e \in GroupsPage(pages), u \in Members \ doubted :
                u \in e.listed => e.grants \subseteq localRoles[u]
            /\ (\A g \in groups : Cardinality(InGroup(g)) <= GroupPage) =>
                \A u \in Members \ doubted : \A r \in localRoles[u] \ Brought(u) :
                    \E e \in GroupsPage(pages) : u \in e.listed /\ r \in e.grants
=============================================================================
