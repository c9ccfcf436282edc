------------------------------ MODULE Sessions ------------------------------
(***************************************************************************)
(* One user of several tenants: the browser session (token, cookie of the  *)
(* selected tenant), the directory's active organization, and the user's   *)
(* local row, roles and permission seed, which every authenticated request *)
(* brings up to date (auth/__init__.py, auth/resolve.py,                   *)
(* identity/__init__.py).  Commands in a tenant the user is no member of   *)
(* run under a membership that is committed and then reverted.             *)
(***************************************************************************)
EXTENDS Naturals

CONSTANTS
    Tenants,       \* tenant ids; the organization of a tenant has its id
    NoTenant,      \* no cookie, no active organization, no grant
    Requests       \* concurrent requests of the user

ASSUME SessionsAssumption == NoTenant \notin Tenants

VARIABLES
    dirLevel,      \* the directory: what the user is in each organization
    idpActive,     \* m8flow_active_tenant, which the realm-info mapper reads
    claims,        \* memberships in the session's token
    cookie,        \* m8flow_selected_tenant
    grant,         \* user.external_user_id
    heldRoles,    \* tenants in which the user has the role's local group
    seeded,        \* tenants with the current permission-seed marker
    request,       \* requests under way
    \* history: tenants the directory ever gave the role in; whether commands of the
    \* user overlapped, or died
    everGranted, excused

browser == <<claims, cookie>>
provider == <<dirLevel, idpActive>>
userRow == <<grant, heldRoles, seeded>>
sessionHistory == <<everGranted, excused>>
sessionVars == <<provider, browser, userRow, request, sessionHistory>>

\* "thin": a membership without groups, which the directory has to complete.
Levels == {"out", "thin", "full"}
NoRequest == [pc |-> "idle", tenant |-> NoTenant, level |-> "out", seen |-> NoTenant,
              target |-> NoTenant, switching |-> FALSE]

SessionsTypeOK ==
    /\ dirLevel \in [Tenants -> Levels]
    /\ claims \in [Tenants -> Levels]
    /\ {idpActive, cookie, grant} \subseteq Tenants \cup {NoTenant}
    /\ heldRoles \subseteq Tenants /\ seeded \subseteq Tenants
    /\ everGranted \subseteq Tenants
    /\ request \in [Requests ->
            [pc : {"idle", "enriching", "reminting", "switched", "handling", "granted"},
             tenant : Tenants \cup {NoTenant}, level : Levels,
             seen : Tenants \cup {NoTenant}, target : Tenants \cup {NoTenant},
             switching : BOOLEAN]]
    /\ excused \in BOOLEAN

\* A token lists every organization of the user, and the groups of the active one.
Minted(active) ==
    [t \in Tenants |-> IF dirLevel[t] = "full" /\ t # active THEN "thin" ELSE dirLevel[t]]

SessionsInit ==
    /\ dirLevel \in [Tenants -> Levels]
    /\ idpActive = NoTenant
    /\ claims = [t \in Tenants |-> "out"]
    /\ cookie = NoTenant
    /\ grant = NoTenant
    /\ heldRoles = {} /\ seeded = {}
    /\ request = [r \in Requests |-> NoRequest]
    /\ everGranted = {t \in Tenants : dirLevel[t] = "full"}
    /\ excused = FALSE

RequestAt(r, pc) == request[r].pc = pc
To(r, frame) == request' = [request EXCEPT ![r] = frame]
Advance(r, pc) == To(r, [request[r] EXCEPT !.pc = pc])

\* A command, under a temporary membership or one that needs none.
Commanding(r) == RequestAt(r, "granted")

\* sync_groups, sync_lane_groups, then import_yaml unless the marker is there: all of it is
\* pending in the request's transaction, and the request goes on.
Sync(frame) == [frame EXCEPT !.pc = IF frame.switching THEN "reminting" ELSE "handling"]

\* active_membership_needs_enrichment: lanes need the groups of the membership.
Selected(frame) ==
    IF frame.level = "full" THEN Sync(frame) ELSE [frame EXCEPT !.pc = "enriching"]

SignedIn == \E t \in Tenants : claims[t] # "out"

(***************************************************************************)
(* The directory and the token                                             *)
(***************************************************************************)

\* An administrator adds the user to the group of an organization, or removes it.
DirectoryChanges(t) ==
    /\ dirLevel[t] # "out"
    /\ dirLevel' = [dirLevel EXCEPT ![t] = IF @ = "thin" THEN "full" ELSE "thin"]
    /\ everGranted' = everGranted \cup {u \in Tenants : dirLevel'[u] = "full"}
    /\ UNCHANGED <<idpActive, browser, userRow, request, excused>>

\* login_return and refresh: the cookies are replaced by a new token set.
NewToken ==
    /\ claims' = Minted(idpActive)
    /\ UNCHANGED <<provider, cookie, userRow, request, sessionHistory>>

\* logout clears the cookies, and the active organization if the provider answers.
Logout ==
    /\ SignedIn
    /\ claims' = [t \in Tenants |-> "out"]
    /\ cookie' = NoTenant
    /\ idpActive' \in {idpActive, NoTenant}
    /\ UNCHANGED <<dirLevel, userRow, request, sessionHistory>>

(***************************************************************************)
(* _authenticate: user row, active membership, roles, seed                 *)
(***************************************************************************)

\* on_login_or_token_enrichment loads or inserts the user; the cookie names the tenant.
Authenticate(r) ==
    /\ RequestAt(r, "idle") /\ SignedIn /\ cookie # NoTenant
    /\ To(r, Selected([NoRequest EXCEPT !.tenant = cookie, !.level = claims[cookie],
                                        !.seen = grant]))
    /\ excused' = (excused \/ \E s \in Requests : Commanding(s))
    /\ UNCHANGED <<provider, browser, userRow, everGranted>>

\* try_finalize_shared_realm_session: the directory's memberships, or the token's when
\* the directory fails; the target has to be one of them.
Finalize(r) ==
    /\ RequestAt(r, "idle") /\ SignedIn
    /\ \E t \in Tenants : \E level \in {dirLevel[t], claims[t]} \ {"out"} :
        To(r, Selected([NoRequest EXCEPT !.tenant = t, !.level = level, !.switching = TRUE]))
    /\ UNCHANGED <<provider, browser, userRow, sessionHistory>>

\* (mutant of EnrichedLevel: any organization of the directory's answer will do)
AnyLevel(t) == IF \E u \in Tenants : dirLevel[u] = "full" THEN "full" ELSE "out"
\* membership_for_active_tenant over the directory's answer
EnrichedLevel(t) == dirLevel[t]

\* enrich_active_membership: a directory that fails, or does not list the tenant, leaves
\* what the token said.
Enrich(r) ==
    /\ RequestAt(r, "enriching")
    /\ \E answer \in {EnrichedLevel(request[r].tenant), "out"} :
        To(r, Sync([request[r] EXCEPT !.level = IF answer = "out" THEN @ ELSE answer]))
    /\ UNCHANGED <<provider, browser, userRow, sessionHistory>>

(***************************************************************************)
(* The transaction                                                         *)
(***************************************************************************)

\* import_yaml records the marker in the same transaction as the roles; a tenant that
\* has it is skipped.
Seeding(f) == IF f.level = "full" THEN {f.tenant} ELSE {}

\* Everything the request did to the user's rows so far.
Persist(r) ==
    LET f == request[r] IN
    /\ heldRoles' = IF f.level = "full" THEN heldRoles \cup {f.tenant} ELSE heldRoles
    /\ seeded' = seeded \cup Seeding(f)

\* switch_tenant writes the active organization and refreshes the token before the local
\* rows are committed; it may fail after the write.
Remint(r) ==
    /\ RequestAt(r, "reminting")
    /\ \/ idpActive' = request[r].tenant
       \/ UNCHANGED idpActive
    /\ Advance(r, "switched")
    /\ UNCHANGED <<dirLevel, browser, userRow, sessionHistory>>

\* The response carries the cookie, and the new token set when the refresh succeeded;
\* the session is committed after it was built.
Switch(r) ==
    /\ RequestAt(r, "switched")
    /\ cookie' = request[r].tenant
    /\ claims' \in {claims, Minted(idpActive)}
    /\ Persist(r)
    /\ To(r, NoRequest)
    /\ UNCHANGED <<provider, grant, sessionHistory>>

\* _close_session after an answer below 400
Commit(r) ==
    /\ RequestAt(r, "handling")
    /\ Persist(r)
    /\ To(r, NoRequest)
    /\ UNCHANGED <<provider, browser, grant, sessionHistory>>

\* Seeding raises, lifecycle grants are missing (503), the answer is 400 or more, the commit
\* fails or the process dies: what is pending is rolled back.
Rollback(r) ==
    /\ ~RequestAt(r, "idle") /\ ~Commanding(r)
    /\ To(r, NoRequest)
    /\ UNCHANGED <<provider, browser, userRow, sessionHistory>>

(***************************************************************************)
(* temporary_tenant_membership                                             *)
(***************************************************************************)

\* core's user_belongs_to_tenant, over the row as the session holds it: its active
\* tenant, which ensure_membership just wrote, and the grant it loaded
Belongs(r, t) == t \in {request[r].tenant, request[r].seen}

\* A command in tenant t: the grant is committed, and with it what the request did
\* before; a user core takes for a member already is granted nothing.
GrantMembership(r) ==
    /\ RequestAt(r, "handling") /\ ~request[r].switching
    /\ \E t \in Tenants :
        /\ To(r, [request[r] EXCEPT !.pc = "granted", !.target = t])
        /\ IF Belongs(r, t) THEN UNCHANGED userRow
           ELSE /\ grant' = t
                /\ Persist(r)
    /\ excused' = (excused \/ \E s \in Requests \ {r} : request[s].pc # "idle")
    /\ UNCHANGED <<provider, browser, everGranted>>

\* What the session saw before the grant is written back, if it granted anything.
Reverted(r) == IF Belongs(r, request[r].target) THEN grant ELSE request[r].seen

\* The command succeeded or raised.
Revert(r) ==
    /\ Commanding(r)
    /\ grant' = Reverted(r)
    /\ Persist(r)
    /\ To(r, NoRequest)
    /\ UNCHANGED <<provider, browser, sessionHistory>>

\* The process dies in the command.
Dies(r) ==
    /\ Commanding(r)
    /\ excused' = TRUE
    /\ To(r, NoRequest)
    /\ UNCHANGED <<provider, browser, userRow, everGranted>>

SessionsNext ==
    \/ NewToken \/ Logout
    \/ \E t \in Tenants : DirectoryChanges(t)
    \/ \E r \in Requests :
        \/ Authenticate(r) \/ Finalize(r) \/ Enrich(r)
        \/ Remint(r) \/ Switch(r) \/ Commit(r) \/ Rollback(r)
        \/ GrantMembership(r) \/ Revert(r)
        \/ Dies(r)

SessionsSpec == SessionsInit /\ [][SessionsNext]_sessionVars

(***************************************************************************)
(* Properties                                                              *)
(***************************************************************************)

RoleWasGrantedThere == heldRoles \subseteq everGranted \cap seeded
GrantIsReverted ==
    (\A r \in Requests : ~Commanding(r)) /\ ~excused => grant = NoTenant

\* The roles of one organization never become roles of another: whatever the order of
\* switches, stale tokens and failing lookups, a local role stands for a group the
\* directory gave the user in that very tenant, and finds its permission rows: the commit
\* of a temporary membership in the middle does not separate the two.  And "the revert runs
\* whether the command succeeded or raised, so no membership survives the call": unless a
\* process died in one, or requests of the user overlapped with one.
TenantsStayApart == RoleWasGrantedThere /\ GrantIsReverted
=============================================================================
