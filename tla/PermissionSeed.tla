---------------------------- MODULE PermissionSeed ----------------------------
(***************************************************************************)
(* The permission assignments of tenants over the life of a database.      *)
(* Migrations revoke and add some; each request of a member imports the    *)
(* file of the release that serves it unless the tenant's marker is at its *)
(* version (identity/__init__.py, auth/__init__.py); the import only adds; *)
(* the operator changes rows by hand.  Releases serve side by side while   *)
(* they are rolled out.                                                    *)
(***************************************************************************)
EXTENDS Authorization

CONSTANTS
    RightsCalls,   \* concurrent requests that import
    SeededTenants, \* tenants that requests import into
    Releases,      \* seed versions of the releases that serve
    EditedGrants,  \* grants the operator may touch
    UserRoles      \* roles the user may have

ASSUME SeedAssumption ==
    SeededTenants \subseteq RightsTenants /\ Releases \subseteq 1..7 /\ UserRoles \subseteq SignedInRoles

VARIABLES
    assignments,   \* permission_assignment of a tenant's role groups
    marker,        \* m8flow_tenant_permission_seed, 0 without a row
    schema,        \* migrations applied, of those that touch the assignments
    serving,       \* releases with a process up
    held, super,   \* the user: one role in each tenant, or super-admin
    rightsCall,    \* requests that import
    \* history: the operator's change; tenants in which a release imported reads that a
    \* migration had revoked
    edit, overSeeded

user == <<held, super>>
rightsVars == <<assignments, marker, schema, serving, user, rightsCall, edit, overSeeded>>

Row(g, permit) == [grant |-> g, permit |-> permit]
Permits(grants) == {Row(g, TRUE) : g \in grants}
AllGrants == UNION {Yaml[v] : v \in 0..7}
NoEdit == [tenant |-> NoRights, grant |-> {}, at |-> 0, excused |-> TRUE]
NoRightsCall == [pc |-> "idle", release |-> 0, tenant |-> NoRights, seen |-> {}]

RightsTypeOK ==
    /\ \A t \in RightsTenants : \A row \in assignments[t] :
            row.grant \in AllGrants /\ row.permit \in BOOLEAN
    /\ marker \in [RightsTenants -> 0..7] /\ schema \in 0..6 /\ serving \subseteq Releases
    /\ held \in [RightsTenants -> RoleGroups \cup {"none"}] /\ super \in BOOLEAN
    /\ \A c \in RightsCalls :
            /\ rightsCall[c].pc \in {"idle", "importing"}
            /\ rightsCall[c].release \in Releases \cup {0}
            /\ rightsCall[c].tenant \in SeededTenants \cup {NoRights}
    /\ edit.tenant \in RightsTenants \cup {NoRights} /\ overSeeded \subseteq RightsTenants

\* A tenant is new, or was seeded before there were markers.
RightsInit ==
    /\ assignments \in [RightsTenants -> {{}, Permits(Yaml[0])}]
    /\ marker = [t \in RightsTenants |-> 0] /\ schema = 0 /\ serving = {}
    /\ \/ super = FALSE /\ held \in [RightsTenants -> UserRoles \cup {"none"}]
       \/ super = TRUE /\ held = [t \in RightsTenants |-> "none"]
    /\ rightsCall = [c \in RightsCalls |-> NoRightsCall]
    /\ edit = NoEdit /\ overSeeded = {}

RightsAt(c, pc) == rightsCall[c].pc = pc
RightsGoes(c, frame) == rightsCall' = [rightsCall EXCEPT ![c] = frame]

(***************************************************************************)
(* Migrations                                                              *)
(***************************************************************************)

GrantsOf(rows) == {row.grant : row \in rows}

\* e7f8a9b0c1d2: what was granted as create is granted as execute too.
BackfillLifecycle(rows) ==
    LET executes(g) == [g EXCEPT !.permission = "execute"]
    IN  rows \cup {Row(executes(row.grant), row.permit) : row \in
            {r \in rows : /\ r.grant.permission = "create"
                          /\ r.grant.command = "process.suspend"
                          /\ executes(r.grant) \notin GrantsOf(rows)}}

\* Permits are deleted, denials stay.
Revoked(rows, roles, targets, permissions) ==
    {row \in rows : ~(row.permit /\ row.grant.role \in roles /\ row.grant.target \in targets
                      /\ row.grant.permission \in permissions)}

\* f6a7b8c9d0e1
RevokeHomeCount(rows) == Revoked(rows, {"editor"}, {"homeCount"}, {"read"})

\* b8c9d0e1f2a3: "Preserve any explicit operator deny or customized grant type."
BackfillReview(rows, version) ==
    LET added == {g \in Yaml[3] : /\ g.role \in Workers
                                  /\ g.target \in {"inbox", "review", "submit", "homeCount"}}
    IN  IF version >= 3 THEN rows ELSE rows \cup Permits(added \ GrantsOf(rows))

Wide == {"instances", "instance"}
\* b9d2e3f4a5c6
RevokeSubmitterReads(rows) == Revoked(rows, {"submitter"}, Wide, {"read", "all"})
\* (mutant of RevokeEditorViewerReads: the editors')
RevokeEditorReads(rows) == Revoked(rows, {"editor"}, Wide, {"read", "all"})
\* c1e4f5a6b7d8
RevokeEditorViewerReads(rows) == Revoked(rows, {"editor", "viewer"}, Wide, {"read", "all"})

\* Between the second and the fourth the table of markers is created.
Migrated(n, rows, version) ==
    CASE n = 1 -> BackfillLifecycle(rows)
      [] n = 2 -> RevokeHomeCount(rows)
      [] n = 3 -> rows
      [] n = 4 -> BackfillReview(rows, version)
      [] n = 5 -> RevokeSubmitterReads(rows)
      [] n = 6 -> RevokeEditorViewerReads(rows)

Migrate ==
    /\ schema < 6 /\ schema' = schema + 1
    /\ assignments' = [t \in RightsTenants |-> Migrated(schema', assignments[t], marker[t])]
    /\ marker' = [t \in RightsTenants |->
            IF schema' = 4 /\ marker[t] \in 1..2 THEN 3 ELSE marker[t]]
    /\ UNCHANGED <<serving, user, rightsCall, edit, overSeeded>>

\* The reads go back to the role groups that exist, unless a denial holds the place.
Restored(rows, roles) ==
    LET reads == {g \in Yaml[1] : g.role \in roles /\ g.target \in Wide}
        groups == {row.grant.role : row \in rows}
    IN  rows \cup Permits({g \in reads : g.role \in groups} \ GrantsOf(rows))

\* Of b9d2e3f4a5c6 or c1e4f5a6b7d8, with the release that needs it down
Downgrade ==
    /\ schema \in {5, 6} /\ \A v \in serving : v < schema - 1
    /\ LET roles == IF schema = 6 THEN {"editor", "viewer"} ELSE {"submitter"}
       IN  assignments' = [t \in RightsTenants |-> Restored(assignments[t], roles)]
    /\ schema' = schema - 1
    /\ edit' = [edit EXCEPT !.excused = TRUE]
    /\ UNCHANGED <<marker, serving, user, rightsCall, overSeeded>>

(***************************************************************************)
(* Releases and the operator                                               *)
(***************************************************************************)

\* The migrations a release comes with; its processes start after them.
Needs(v) == CASE v < 4 -> 3 [] v = 4 -> 5 [] OTHER -> 6

StartsServing(v) ==
    /\ v \notin serving /\ schema >= Needs(v) /\ serving' = serving \cup {v}
    /\ UNCHANGED <<assignments, marker, schema, user, rightsCall, edit, overSeeded>>

StopsServing(v) ==
    /\ v \in serving /\ serving' = serving \ {v}
    /\ rightsCall' = [c \in RightsCalls |->
            IF rightsCall[c].release = v THEN NoRightsCall ELSE rightsCall[c]]
    /\ UNCHANGED <<assignments, marker, schema, user, edit, overSeeded>>

\* "If a permission needs to be removed, it should be done in the database directly."
OperatorEdits(t, g) ==
    /\ edit.tenant = NoRights /\ marker[t] > 0 /\ Row(g, TRUE) \in assignments[t]
    /\ \E left \in {{}, {Row(g, FALSE)}} :
        /\ assignments' = [assignments EXCEPT ![t] = (@ \ {Row(g, TRUE)}) \cup left]
        /\ edit' = [tenant |-> t, grant |-> g, at |-> marker[t],
                    excused |-> \E c \in RightsCalls :
                                    RightsAt(c, "importing") /\ rightsCall[c].tenant = t]
    /\ UNCHANGED <<marker, schema, serving, user, rightsCall, overSeeded>>

(***************************************************************************)
(* A request: sync_groups_from_token, then the tenant                      *)
(***************************************************************************)

\* missing_lifecycle_execute_grants
MissingLifecycle(rows) ==
    {r \in Builders :
        Row(Grant(r, "execute", "instance", "process.suspend"), TRUE) \notin rows}
\* Otherwise a builder's request is answered with 503, and rolled back.
Ready(t, rows) == held[t] \in Builders => MissingLifecycle(rows) = {}

\* (mutant of tenant_permission_seed_current: by the grants that are there)
GrantsPresent(t, v) == marker[t] >= v /\ Permits(Yaml[v]) \subseteq assignments[t]
tenant_permission_seed_current(t, v) == marker[t] >= v

\* The cookie's tenant, in which the token gives the user a role.  A user without one
\* there, or a current marker, and the request imports nothing.
Arrive(c, v, t) ==
    /\ RightsAt(c, "idle") /\ v \in serving /\ held[t] # "none"
    /\ ~tenant_permission_seed_current(t, v)
    /\ RightsGoes(c, [pc |-> "importing", release |-> v, tenant |-> t,
                      seen |-> assignments[t]])
    /\ UNCHANGED <<assignments, marker, schema, serving, user, edit, overSeeded>>

\* import_yaml writes what its cache of the assignments, loaded first, does not hold as a
\* permit: a denial too.  Reads that the schema had revoked come back with an old file.
Import(c) ==
    LET f == rightsCall[c]
        written == Yaml[f.release] \ {row.grant : row \in {r \in f.seen : r.permit}}
        rows == {r \in assignments[f.tenant] : r.grant \notin written} \cup Permits(written)
    IN  /\ RightsAt(c, "importing") /\ Ready(f.tenant, rows)
        /\ assignments' = [assignments EXCEPT ![f.tenant] = rows]
        /\ marker' = [marker EXCEPT ![f.tenant] = f.release]
        /\ overSeeded' = overSeeded \cup
                (IF (f.release < 4 /\ schema >= 5) \/ (f.release < 5 /\ schema = 6)
                 THEN {f.tenant} ELSE {})
        /\ RightsGoes(c, NoRightsCall)
        /\ UNCHANGED <<schema, serving, user, edit>>

\* The import or the request after it fails: nothing of it is committed.
ImportFails(c) ==
    /\ RightsAt(c, "importing") /\ RightsGoes(c, NoRightsCall)
    /\ UNCHANGED <<assignments, marker, schema, serving, user, edit, overSeeded>>

\* _bind_request_tenant: the tenants a request of the user can be bound to, whatever its
\* token, cookie and header say.  A super-admin works in any, or in none.
BoundTenants ==
    IF super THEN RightsTenants \cup {NoRights}
    ELSE {resolve_request_tenant(cookie, active, header, listed, held) :
              listed \in SUBSET RightsTenants, active \in RightsTenants \cup {NoRights},
              cookie \in RightsTenants \cup {NoRights}, header \in RightsTenants \cup {NoRights}}
         \ {NoRights}

RightsNext ==
    \/ Migrate \/ Downgrade
    \/ \E v \in Releases : StartsServing(v) \/ StopsServing(v)
    \/ \E t \in RightsTenants, g \in EditedGrants : OperatorEdits(t, g)
    \/ \E c \in RightsCalls :
        \/ Import(c) \/ ImportFails(c)
        \/ \E v \in Releases, t \in SeededTenants : Arrive(c, v, t)

RightsSpec == RightsInit /\ [][RightsNext]_rightsVars

(***************************************************************************)
(* Properties                                                              *)
(***************************************************************************)

\* "Only tenant-admin holds it": with every revocation applied, no request reads the
\* instances of everybody unless its user is tenant-admin in the very tenant it is bound
\* to, or a super-admin; neither old rows nor role names nor roles elsewhere do.  Excused:
\* tenants which a process of an older release seeded after the revocation.
InstanceReadIsNarrow ==
    7 \in serving /\ schema = 6 /\ ~super =>
        \A t \in BoundTenants :
            ReadsEverybody(assignments, held, super, t)
            => held[t] = "tenant-admin" \/ t \in overSeeded

OperatorChangesStand ==
    edit.excused \/ marker[edit.tenant] # edit.at
    \/ Row(edit.grant, TRUE) \notin assignments[edit.tenant]

SeededRolesWork ==
    \A t \in RightsTenants : marker[t] = 7 /\ edit.tenant # t =>
        /\ MissingLifecycle(assignments[t]) = {}
        /\ \A role \in SignedInRoles :
            LET as == [u \in RightsTenants |-> IF u = t THEN role ELSE "none"]
                routed(permission, route) == allow_uri(assignments, as, FALSE, t, permission, route)
                run(command) == authorize(assignments, as, FALSE, t, command)
            IN  /\ routed("create", Suspend) = run("process.suspend")
                /\ routed("create", Instances) = run("process.start")
                /\ routed("create", CompleteTask) = run("task.complete")
                /\ routed("create", SubmitReview) => run("task.complete")
                /\ routed("read", Onboarding)

\* "Removing or denying an individual permission after the seed will not trigger a
\* request-time re-import": the operator's change stands until a newer file is imported,
\* unless an import was under way, or a downgrade restored what it revoked.  In a tenant
\* that the current file was imported into, and that the operator left alone, what is there
\* of older seeds and migrations does not matter: a route lets through exactly the users
\* for whom the engine then runs its command, every member reaches the onboarding, and no
\* builder is refused for missing lifecycle grants.
SeededGrantsStand == OperatorChangesStand /\ SeededRolesWork
=============================================================================
