----------------------------- MODULE McpSession -----------------------------
(***************************************************************************)
(* The tenant one user of the MCP server works in (m8flow-mcp/src/auth,    *)
(* middleware/tenant_context.py).  A login, in the browser or by the       *)
(* loopback page of a stdio process, lets a member of several tenants pick *)
(* one; the backend finalizes it; requests take the selection from memory, *)
(* finalize it anew when its token ages, and write it back.                *)
(***************************************************************************)
EXTENDS Naturals, FiniteSets

CONSTANTS
    McpTenants,
    Unresolved,     \* no tenant: the tools ask to select one
    Fallback,       \* the tenant claim of a token without memberships, or the default
    McpCalls        \* concurrent logins and requests of the user

ASSUME McpSessionAssumption ==
    Unresolved \notin McpTenants /\ Fallback \notin McpTenants \cup {Unresolved}

VARIABLES
    remote,         \* HTTP server with browser login, or a stdio process
    memberOf,       \* the directory: the user's organizations
    listings,       \* organizations listed by the user's shared-realm tokens
    selection,      \* selection_store, or the selection of the process
    prompted,       \* stdio: this process has asked
    mcpCall,        \* logins and requests under way
    \* history: tenants picked, or the only ones of a token; the last of them that was
    \* stored; whether it was stored while a call was bringing another one
    chosen, lastChosen, overtakes

mcpHistory == <<chosen, lastChosen, overtakes>>
mcpVars == <<remote, memberOf, listings, selection, prompted, mcpCall, mcpHistory>>

NoMcpCall == [pc |-> "idle", login |-> FALSE, listed |-> {}, tenant |-> Unresolved]

McpSessionTypeOK ==
    /\ {remote, prompted, overtakes} \subseteq BOOLEAN
    /\ memberOf \subseteq McpTenants
    /\ listings \subseteq SUBSET McpTenants
    /\ selection \in [tenant : McpTenants \cup {Unresolved}, fresh : BOOLEAN]
    /\ mcpCall \in [McpCalls -> [
            pc : {"idle", "picking", "finalizing", "refreshing", "finalized", "refreshed",
                  "running"},
            login : BOOLEAN, listed : SUBSET McpTenants,
            tenant : McpTenants \cup {Unresolved, Fallback}]]
    /\ chosen \subseteq McpTenants /\ lastChosen \in McpTenants \cup {Unresolved}

NoSelection == [tenant |-> Unresolved, fresh |-> FALSE]

McpSessionInit ==
    /\ remote \in BOOLEAN
    /\ memberOf \in SUBSET McpTenants
    /\ listings = {} /\ selection = NoSelection /\ prompted = FALSE
    /\ mcpCall = [c \in McpCalls |-> NoMcpCall]
    /\ chosen = {} /\ lastChosen = Unresolved /\ overtakes = FALSE

McpAt(c, pc) == mcpCall[c].pc = pc
McpGoes(c, r) == mcpCall' = [mcpCall EXCEPT ![c] = r]
McpEnds(c) == McpGoes(c, NoMcpCall)
\* The browser's page can be sent again until the login's code is gone.
LoginReturns(c) ==
    IF remote /\ Cardinality(mcpCall[c].listed) > 1
    THEN McpGoes(c, [mcpCall[c] EXCEPT !.pc = "picking", !.tenant = Unresolved])
    ELSE McpEnds(c)
Only(tenants) == CHOOSE t \in tenants : TRUE
\* The request goes on to its tool, which sends the tenant's cookie.
McpRuns(c, tenant) == McpGoes(c, [mcpCall[c] EXCEPT !.pc = "running", !.tenant = tenant])

(***************************************************************************)
(* Login                                                                   *)
(***************************************************************************)

\* The identity provider's callback, or the start of a stdio process
StartLogin(c) ==
    /\ McpAt(c, "idle") /\ (remote \/ ~prompted)
    /\ prompted' = ~remote
    /\ listings' = listings \cup {memberOf}
    /\ LET call == [NoMcpCall EXCEPT !.login = TRUE, !.listed = memberOf]
       IN  CASE memberOf = {} -> McpEnds(c) /\ UNCHANGED chosen
             [] Cardinality(memberOf) = 1 ->
                    /\ McpGoes(c, [call EXCEPT !.pc = "finalizing", !.tenant = Only(memberOf)])
                    /\ chosen' = chosen \cup memberOf
             [] OTHER -> McpGoes(c, [call EXCEPT !.pc = "picking"]) /\ UNCHANGED chosen
    /\ UNCHANGED <<remote, memberOf, selection, lastChosen, overtakes>>

\* A tenant the token does not list is refused.
PickTenant(c, t) ==
    /\ McpAt(c, "picking") /\ t \in mcpCall[c].listed
    /\ McpGoes(c, [mcpCall[c] EXCEPT !.pc = "finalizing", !.tenant = t])
    /\ chosen' = chosen \cup {t}
    /\ UNCHANGED <<remote, memberOf, listings, selection, prompted, lastChosen, overtakes>>

\* The signed state or the authorization code expires;
AbandonPick(c) ==
    /\ remote /\ McpAt(c, "picking") /\ McpEnds(c)
    /\ UNCHANGED <<remote, memberOf, listings, selection, prompted, mcpHistory>>

\* the loopback page of a stdio process times out.
PageCloses(c) ==
    /\ ~remote /\ McpAt(c, "picking") /\ McpEnds(c)
    /\ UNCHANGED <<remote, memberOf, listings, selection, prompted, mcpHistory>>

(***************************************************************************)
(* Requests                                                                *)
(***************************************************************************)

\* A stdio process serves when its only tenant is finalized, or while the page is open.
Serving == remote \/ (prompted /\ \A c \in McpCalls :
                mcpCall[c].login => Cardinality(mcpCall[c].listed) > 1)

\* (mutant of WithoutSelection: what cannot be resolved runs under the default)
AnyFallback(c, call) ==
    /\ mcpCall' = [mcpCall EXCEPT ![c] =
            IF Cardinality(call.listed) = 1
            THEN [call EXCEPT !.pc = "finalizing", !.tenant = Only(call.listed)]
            ELSE [call EXCEPT !.pc = "running", !.tenant = Fallback]]
    /\ chosen' = chosen \cup (IF Cardinality(call.listed) = 1 THEN call.listed ELSE {})
\* The only tenant of the token is finalized; of several none is taken.
WithoutSelection(c, call) ==
    \/ /\ Cardinality(call.listed) = 1
       /\ McpGoes(c, [call EXCEPT !.pc = "finalizing", !.tenant = Only(call.listed)])
       /\ chosen' = chosen \cup call.listed
    \/ /\ Cardinality(call.listed) # 1
       /\ McpGoes(c, [call EXCEPT !.pc = "running",
                                  !.tenant = IF call.listed = {} THEN Fallback ELSE Unresolved])
       /\ UNCHANGED chosen

\* It comes with a token minted by now; its lookup of the selection awaits only the lock.
StartRequest(c, listed) ==
    LET call == [NoMcpCall EXCEPT !.listed = listed]
    IN  /\ McpAt(c, "idle") /\ Serving
        /\ listings' = listings \cup {listed}
        /\ IF selection.tenant = Unresolved THEN WithoutSelection(c, call)
           ELSE /\ McpGoes(c, [call EXCEPT !.tenant = selection.tenant,
                                           !.pc = IF selection.fresh THEN "running" ELSE "refreshing"])
                /\ UNCHANGED chosen
        /\ UNCHANGED <<remote, memberOf, selection, prompted, lastChosen, overtakes>>

FinishRequest(c) ==
    /\ McpAt(c, "running") /\ McpEnds(c)
    /\ UNCHANGED <<remote, memberOf, listings, selection, prompted, mcpHistory>>

(***************************************************************************)
(* finalize_tenant                                                         *)
(***************************************************************************)

\* The backend looks the membership up in the directory.
FinalizeTenant(c) ==
    /\ mcpCall[c].pc \in {"finalizing", "refreshing"} /\ mcpCall[c].tenant \in memberOf
    /\ McpGoes(c, [mcpCall[c] EXCEPT !.pc = IF @ = "finalizing" THEN "finalized" ELSE "refreshed"])
    /\ UNCHANGED <<remote, memberOf, listings, selection, prompted, mcpHistory>>

\* The answer is a refusal or does not come.
FinalizationFails(c) ==
    /\ \/ McpAt(c, "refreshing") /\ WithoutSelection(c, [mcpCall[c] EXCEPT !.tenant = Unresolved])
       \/ /\ McpAt(c, "finalizing") /\ UNCHANGED chosen
          /\ IF mcpCall[c].login THEN LoginReturns(c) ELSE McpRuns(c, Unresolved)
    /\ UNCHANGED <<remote, memberOf, listings, selection, prompted, lastChosen, overtakes>>

\* Other calls that loaded or are about to store another tenant
Bringing(c) == {d \in McpCalls \ {c} :
    mcpCall[d].pc \in {"finalizing", "refreshing", "finalized", "refreshed"}
    /\ mcpCall[d].tenant # mcpCall[c].tenant}

\* A login of a stdio process stores for the process;
StoreProcessSelection(c) ==
    /\ ~remote /\ mcpCall[c].login /\ McpAt(c, "finalized") /\ McpEnds(c)
    /\ \E fresh \in BOOLEAN : selection' = [tenant |-> mcpCall[c].tenant, fresh |-> fresh]
    /\ lastChosen' = mcpCall[c].tenant /\ overtakes' = (Bringing(c) # {})
    /\ UNCHANGED <<remote, memberOf, listings, prompted, chosen>>

\* the others for the user.  Whoever stores last wins.  A token that was not minted anew
\* keeps its old expiry.
StoreSelection(c) ==
    /\ mcpCall[c].pc \in {"finalized", "refreshed"} /\ (remote \/ ~mcpCall[c].login)
    /\ \E fresh \in BOOLEAN : selection' = [tenant |-> mcpCall[c].tenant, fresh |-> fresh]
    /\ IF McpAt(c, "finalized")
       THEN lastChosen' = mcpCall[c].tenant /\ overtakes' = (Bringing(c) # {})
       ELSE UNCHANGED <<lastChosen, overtakes>>
    /\ IF mcpCall[c].login THEN LoginReturns(c) ELSE McpRuns(c, mcpCall[c].tenant)
    /\ UNCHANGED <<remote, memberOf, listings, prompted, chosen>>

(***************************************************************************)
(* Around them                                                             *)
(***************************************************************************)

\* The finalized token comes near its expiry.
SelectionAges ==
    /\ selection.fresh /\ selection' = [selection EXCEPT !.fresh = FALSE]
    /\ UNCHANGED <<remote, memberOf, listings, prompted, mcpCall, mcpHistory>>

MembershipChanges(t) ==
    /\ memberOf' = IF t \in memberOf THEN memberOf \ {t} ELSE memberOf \cup {t}
    /\ UNCHANGED <<remote, listings, selection, prompted, mcpCall, mcpHistory>>

\* Selections are in memory only; the clients keep their tokens.
McpRestarts ==
    /\ selection' = NoSelection /\ prompted' = FALSE
    /\ mcpCall' = [c \in McpCalls |-> NoMcpCall]
    /\ UNCHANGED <<remote, memberOf, listings, mcpHistory>>

McpSessionNext ==
    \/ \E c \in McpCalls :
        \/ StartLogin(c) \/ AbandonPick(c) \/ PageCloses(c) \/ FinishRequest(c)
        \/ FinalizeTenant(c) \/ FinalizationFails(c)
        \/ StoreSelection(c) \/ StoreProcessSelection(c)
        \/ \E t \in McpTenants : PickTenant(c, t)
        \/ \E listed \in listings \cup {memberOf} : StartRequest(c, listed)
    \/ SelectionAges
    \/ \E t \in McpTenants : MembershipChanges(t)
    \/ McpRestarts

McpSessionSpec == McpSessionInit /\ [][McpSessionNext]_mcpVars

(***************************************************************************)
(* Properties                                                              *)
(***************************************************************************)

\* "An org member must never run under a blanket default", and never in a tenant that was
\* neither picked nor the only one of a token; and what requests find is the last choice,
\* unless that was stored while another call was bringing a different tenant.
ChosenTenantIsUsed ==
    /\ \A c \in McpCalls : McpAt(c, "running") =>
        \/ mcpCall[c].tenant = Fallback /\ mcpCall[c].listed = {}
        \/ mcpCall[c].tenant \in chosen \cup {Unresolved}
    /\ selection.tenant \in {Unresolved, lastChosen} \/ overtakes
=============================================================================
