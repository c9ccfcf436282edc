---------------------------- MODULE Authorization ----------------------------
(***************************************************************************)
(* What a role may do: the grants of config/permissions/m8flow.yml as the  *)
(* releases seeded them, the decision on a request (authorization/         *)
(* __init__.py, decorators.py), the decision the engine asks the host for, *)
(* and the tenant a request is bound to (auth/bind.py).  Of the file, the  *)
(* entries of a dozen routes that differ in kind; a route is the sequence  *)
(* of its segments, without the API version.                               *)
(***************************************************************************)
EXTENDS Naturals, Sequences

CONSTANTS
    RightsTenants,
    NoRights       \* no tenant

ASSUME RightsAssumption == NoRights \notin RightsTenants

\* "user" is the group the everybody entries went to before version 6.
RoleGroups == {"tenant-admin", "editor", "viewer", "reviewer", "submitter", "user"}
SignedInRoles == RoleGroups \ {"user"}

(***************************************************************************)
(* Targets                                                                 *)
(***************************************************************************)

\* A route and everything below it; with a star, something between head and tail.
Open(head) == [head |-> head, star |-> 0, tail |-> <<>>]
Below(head, tail) == [head |-> head, star |-> 1, tail |-> tail]

Targets ==
    [instances  |-> Open(<<"process-instances">>),
     instance   |-> Below(<<"process-instances">>, <<>>),
     forMe      |-> Open(<<"process-instances", "for-me">>),
     models     |-> Below(<<"process-models">>, <<>>),
     task       |-> Below(<<"tasks">>, <<>>),
     tasks      |-> Open(<<"tasks">>),
     inbox      |-> Open(<<"m8flow", "task-review-access">>),
     review     |-> Below(<<"m8flow", "task-review-access">>, <<>>),
     submit     |-> Below(<<"m8flow", "task-review-access">>, <<"submit">>),
     homeCount  |-> Open(<<"m8flow", "home-task-count">>),
     onboarding |-> Open(<<"onboarding">>)]

_path_matches(path, p) ==
    /\ Len(path) >= Len(p.head) + p.star + Len(p.tail)
    /\ SubSeq(path, 1, Len(p.head)) = p.head
    /\ SubSeq(path, Len(path) - Len(p.tail) + 1, Len(path)) = p.tail

\* The routes decided on here
Instances == <<"process-instances">>
OneInstance == <<"process-instances", "1">>
Suspend == <<"process-instances", "1", "suspend">>
OneModel == <<"process-models", "m">>
OneTask == <<"tasks", "1">>
CompleteTask == <<"tasks", "1", "complete">>
SubmitReview == <<"m8flow", "task-review-access", "1", "submit">>
HomeCount == <<"m8flow", "home-task-count">>
Onboarding == <<"onboarding">>
Routes == {Instances, OneInstance, Suspend, OneModel, OneTask, CompleteTask, SubmitReview,
           HomeCount, Onboarding}

TargetsOf == [path \in Routes |-> {t \in DOMAIN Targets : _path_matches(path, Targets[t])}]

(***************************************************************************)
(* The file                                                                *)
(***************************************************************************)

Grant(role, permission, target, command) ==
    [role |-> role, permission |-> permission, target |-> target, command |-> command]
Entry(roles, permissions, target, command) ==
    {Grant(r, p, target, command) : r \in roles, p \in permissions}
\* An entry without a command has that of its permission.
Plain(roles, permission, target) == Entry(roles, {permission}, target, permission)

Workers == {"tenant-admin", "reviewer", "submitter"}
Builders == {"tenant-admin", "editor"}
\* Who reads the instances of everybody, by version of the seed
WideReaders(v) == {"tenant-admin"} \cup (IF v < 5 THEN {"editor", "viewer"} ELSE {})
                                   \cup (IF v < 4 THEN {"submitter"} ELSE {})
OwnReaders(v) == (IF v >= 4 THEN {"submitter"} ELSE {})
                 \cup (IF v >= 5 THEN {"editor", "viewer"} ELSE {})
\* Version 0, of the time before markers, granted lifecycle commands as create, and editors
\* the task count; version 1 granted no task review.
Yaml == [v \in 0..7 |->
    UNION {Entry(WideReaders(v), {"read"}, "instances", "process_instance.list"),
           Entry(WideReaders(v), {"read"}, "instance", "process_instance.read"),
           Plain(OwnReaders(v), "read", "forMe"),
           Entry(Builders, {IF v = 0 THEN "create" ELSE "execute"}, "instance", "process.suspend"),
           Plain(Builders \cup {"submitter"}, "create", "instances"),
           Plain(Builders, "all", "models"),
           Entry(Builders \cup {"submitter"}, {"start"}, "models", "process.start"),
           Entry({"viewer", "reviewer", "submitter"}, {"read"}, "models", "process_model.read"),
           Plain(Workers \cup {"editor"}, "all", "task"),
           Plain(Workers \cup {"editor"}, "execute", "task"),
           Entry(SignedInRoles, {"read"}, "tasks", "task.list"),
           IF v < 2 THEN {}
           ELSE Plain(Workers, "read", "inbox")
                \cup Plain(Workers \cup (IF v >= 7 THEN {"editor"} ELSE {}), "read", "review")
                \cup Plain(Workers \cup (IF v >= 7 THEN {"editor"} ELSE {}), "create", "submit"),
           Plain(IF v = 0 THEN {"editor"} ELSE IF v = 1 THEN {} ELSE Workers,
                 "read", "homeCount"),
           Plain(IF v >= 6 THEN SignedInRoles \cup {"user"} ELSE {"user"}, "read", "onboarding")}]

(***************************************************************************)
(* The decision                                                            *)
(***************************************************************************)

\* A user holds at most one role in each tenant here; rows are the assignments of the
\* role groups of every tenant, each with the effect permit or deny.
_active_tenant_groups(held, bound) ==
    {t \in RightsTenants : held[t] # "none" /\ bound \in {t, NoRights}}

\* A deny overrules; "all" is any permission; without a command, any command.
_resource_permitted(rows, held, bound, permission, path, commands) ==
    LET applying == {row \in UNION {{r \in rows[t] : r.grant.role = held[t]} :
                                    t \in _active_tenant_groups(held, bound)} :
            /\ row.grant.permission \in {permission, "all"}
            /\ row.grant.target \in TargetsOf[path]
            /\ commands = {} \/ row.grant.command \in commands}
    IN  applying # {} /\ \A row \in applying : row.permit

\* By role name, for members whose grants are not seeded yet; never the instances of
\* everybody for an editor.
_group_identifier_fallback(held, bound, permission, path) ==
    \E t \in _active_tenant_groups(held, bound) :
        \/ held[t] = "tenant-admin"
        \/ held[t] = "editor" /\ ~(permission = "read" /\ path = Instances)
        \/ held[t] \in {"reviewer", "editor", "user"}
           /\ path \in {OneTask, CompleteTask, Onboarding}

\* A route asks for the permission of its method on its own path.
AsPosted(permission, path) == [permission |-> permission, path |-> path]
\* The POST of a lifecycle route is an execute on the instance.
LifecycleAction(permission, path) ==
    IF path = Suspend /\ permission \in {"create", "execute"}
    THEN [permission |-> "execute", path |-> OneInstance]
    ELSE AsPosted(permission, path)

_NO_GROUP_FALLBACK(path) == path = SubmitReview

\* Stale rows do not let a reader write process models.
ReaderWrites(held, bound, permission, path) ==
    /\ permission \in {"create", "update", "delete"} /\ path = OneModel
    /\ bound # NoRights /\ held[bound] \in {"viewer", "submitter"}

allow_uri(rows, held, super, bound, method, route) ==
    LET asked == LifecycleAction(method, route)
        permitted == _resource_permitted(rows, held, bound, asked.permission, asked.path, {})
    IN  IF route = HomeCount THEN permitted
        ELSE IF super THEN ~(route = SubmitReview /\ method = "create")
        ELSE /\ ~ReaderWrites(held, bound, asked.permission, asked.path)
             /\ \/ permitted
                \/ /\ ~_NO_GROUP_FALLBACK(asked.path)
                   /\ _group_identifier_fallback(held, bound, asked.permission, asked.path)

\* None: the caller reads the instances of everybody.
ReadsEverybody(rows, held, super, bound) ==
    allow_uri(rows, held, super, bound, "read", Instances)

\* HostAuthorizationPolicy: the engine's commands.  A commandless start grant of the time
\* before commands is found by the first of the two look-ups; the engine's own policy knows
\* no typed grant of a role group.
authorize(rows, held, super, bound, command) ==
    \/ super
    \/ CASE command = "process.start" ->
                _resource_permitted(rows, held, bound, "start", OneModel, {})
         [] command = "task.complete" ->
                _resource_permitted(rows, held, bound, "execute", OneTask, {})
         [] command = "process.suspend" ->
                _resource_permitted(rows, held, bound, "execute", OneInstance, {command})

(***************************************************************************)
(* The tenant of a request                                                 *)
(***************************************************************************)

\* resolve_request_tenant for a signed-in user who is not super-admin: a cookie the token
\* or a role group confirms, the token's active tenant, the header, the cookie.  NoRights
\* where the request is refused.
resolve_request_tenant(cookie, active, header, listed, held) ==
    LET belongs(t) == t # NoRights /\ held[t] # "none"
        \* the header decides alone if there is one, then the cookie
        rest == IF header # NoRights THEN header ELSE cookie
    IN  IF cookie # NoRights /\ (cookie \in listed \/ belongs(cookie)) THEN cookie
        ELSE IF active # NoRights THEN active
        ELSE IF belongs(rest) THEN rest ELSE NoRights
=============================================================================
