------------------------------ MODULE Tenancy ------------------------------
(***************************************************************************)
(* A tenant is an organization of the directory, a row of m8flow_tenant    *)
(* and a Vault identity (routes/keycloak_controller.py, identity,          *)
(* secrets/provisioning.py, startup/shared_realm_bootstrap.py).  Only the  *)
(* row is transactional: a request writes the directory and Vault first    *)
(* and commits when its response is already built.                         *)
(***************************************************************************)
EXTENDS Naturals, FiniteSets

CONSTANTS
    Aliases,        \* organization aliases, the slugs of rows
    DefaultAlias,   \* the alias of the organization that comes with the shared realm
    NoAlias,        \* the slug of a row whose slug is its id
    TenantNames, NoName,
    TenantCalls,    \* concurrent requests of tenant administration
    MaxOrg          \* bound: organization ids the directory hands out

ASSUME TenancyAssumption ==
    /\ DefaultAlias \in Aliases /\ NoAlias \notin Aliases
    /\ NoName \notin TenantNames /\ TenantNames # {}
    /\ MaxOrg \in Nat \ {0}

VARIABLES
    orgOf,          \* directory: the organization id of an alias, 0 for none
    orgName,        \* directory: its display name
    mintedOrgs,     \* directory: ids handed out
    vaultIds,       \* Vault: ids with an AppRole and a policy
    tenantRows,     \* m8flow_tenant; id 0 stands for the alias the migration seeds
    referenced,     \* ids with tenant-scoped rows
    tenantCall,     \* requests under way
    \* history: ids answered 201; aliases whose requests overlapped or failed half-way
    answered, tangled

directoryOrgs == <<orgOf, orgName, mintedOrgs>>
tenancyHistory == <<answered, tangled>>
tenancyVars == <<directoryOrgs, vaultIds, tenantRows, referenced, tenantCall, tenancyHistory>>

TenantRow == [id : 0..MaxOrg, slug : Aliases \cup {NoAlias}, name : TenantNames \cup {NoName}]
NoTenantCall == [pc |-> "idle", alias |-> NoAlias, name |-> NoName, id |-> 0]

TenancyTypeOK ==
    /\ orgOf \in [Aliases -> 0..MaxOrg]
    /\ orgName \in [Aliases -> TenantNames \cup {NoName}]
    /\ mintedOrgs \in 0..MaxOrg
    /\ vaultIds \subseteq 0..MaxOrg /\ referenced \subseteq 0..MaxOrg
    /\ tenantRows \subseteq TenantRow
    /\ tenantCall \in [TenantCalls -> [
            pc : {"idle", "create", "ensure", "provision", "abandon", "commit", "known",
                  "delete", "deleteRow", "rename", "renameRow"},
            alias : Aliases \cup {NoAlias}, name : TenantNames \cup {NoName}, id : 0..MaxOrg]]
    /\ answered \subseteq 0..MaxOrg
    /\ tangled \subseteq Aliases

\* A fresh database: the seeded row, and the realm's own organization
TenancyInit ==
    /\ \E n \in TenantNames :
        /\ orgName = [a \in Aliases |-> IF a = DefaultAlias THEN n ELSE NoName]
        /\ tenantRows = {[id |-> 0, slug |-> DefaultAlias, name |-> n]}
    /\ orgOf = [a \in Aliases |-> IF a = DefaultAlias THEN 1 ELSE 0]
    /\ mintedOrgs = 1
    /\ vaultIds = {} /\ referenced = {}
    /\ tenantCall = [c \in TenantCalls |-> NoTenantCall]
    /\ answered = {} /\ tangled = {}

TenantCallAt(c, pc) == tenantCall[c].pc = pc
GoTo(c, pc) == tenantCall' = [tenantCall EXCEPT ![c].pc = pc]
Finish(c) == tenantCall' = [tenantCall EXCEPT ![c] = NoTenantCall]
Tangle(a) == tangled' = tangled \cup ({a} \cap Aliases)
RemoveOrganization(a) == orgOf' = [orgOf EXCEPT ![a] = 0] /\ orgName' = [orgName EXCEPT ![a] = NoName]
BySlug(a) == {r \in tenantRows : r.slug = a}
ById(i) == {r \in tenantRows : r.id = i}

\* Others write the rows of an alias that a request is at work on.
TangleBusy(a) == IF \E c \in TenantCalls : tenantCall[c].alias = a THEN Tangle(a)
                 ELSE UNCHANGED tangled

\* A request begins; those under way at the same time are all marked.
Begin(c, pc, a, n, i) ==
    LET others == {d \in TenantCalls \ {c} : ~TenantCallAt(d, "idle")} IN
    /\ TenantCallAt(c, "idle")
    /\ tenantCall' = [tenantCall EXCEPT ![c] = [pc |-> pc, alias |-> a, name |-> n, id |-> i]]
    /\ tangled' = IF others = {} THEN tangled
                  ELSE tangled \cup (({a} \cup {tenantCall[d].alias : d \in others}) \cap Aliases)

(***************************************************************************)
(* POST: create_realm                                                      *)
(***************************************************************************)

\* name_exists, leaving out the tenant itself when it is renamed
NameTaken(n, a) == \E r \in tenantRows : r.name = n /\ r.slug # a

StartCreateTenant(c) ==
    /\ \E a \in Aliases, n \in TenantNames :
        /\ ~NameTaken(n, NoAlias)
        /\ Begin(c, "create", a, n, 0)
    /\ UNCHANGED <<directoryOrgs, vaultIds, tenantRows, referenced, answered>>

\* create_tenant: a conflict is 409; an organization that cannot be read back is 500.
CreateOrganization(c) ==
    LET a == tenantCall[c].alias IN
    /\ TenantCallAt(c, "create")
    /\ \/ /\ orgOf[a] # 0
          /\ Finish(c)
          /\ UNCHANGED <<directoryOrgs, tangled>>
       \/ /\ orgOf[a] = 0 /\ mintedOrgs < MaxOrg
          /\ mintedOrgs' = mintedOrgs + 1
          /\ orgOf' = [orgOf EXCEPT ![a] = mintedOrgs + 1]
          /\ orgName' = [orgName EXCEPT ![a] = tenantCall[c].name]
          /\ \/ /\ tenantCall' = [tenantCall EXCEPT ![c].pc = "ensure", ![c].id = mintedOrgs + 1]
                /\ UNCHANGED tangled
             \/ Finish(c) /\ Tangle(a)
    /\ UNCHANGED <<vaultIds, tenantRows, referenced, answered>>

\* (mutant of EnsureTenant: the row is committed before Vault is provisioned)
EnsureTenantCommitted(c) ==
    LET f == tenantCall[c] IN
    /\ TenantCallAt(c, "ensure")
    /\ IF ById(f.id) \cup BySlug(f.alias) # {}
       THEN GoTo(c, "known") /\ UNCHANGED tenantRows
       ELSE /\ GoTo(c, "provision")
            /\ tenantRows' = tenantRows \cup {[id |-> f.id, slug |-> f.alias, name |-> f.name]}
    /\ UNCHANGED <<directoryOrgs, vaultIds, referenced, tenancyHistory>>
\* A row of this id, or of this slug, is taken for the tenant's; else one is staged.
EnsureTenant(c) ==
    /\ TenantCallAt(c, "ensure")
    /\ GoTo(c, IF ById(tenantCall[c].id) \cup BySlug(tenantCall[c].alias) # {}
               THEN "known" ELSE "provision")
    /\ UNCHANGED <<directoryOrgs, vaultIds, tenantRows, referenced, tenancyHistory>>

\* TenantVaultProvisioningError: "Do not leave the tenant usable."
OnVaultError == "abandon"

ProvisionVault(c) ==
    /\ TenantCallAt(c, "provision")
    /\ \/ vaultIds' = vaultIds \cup {tenantCall[c].id} /\ GoTo(c, "commit")
       \/ UNCHANGED vaultIds /\ GoTo(c, OnVaultError)
    /\ UNCHANGED <<directoryOrgs, tenantRows, referenced, tenancyHistory>>

\* _abandon_failed_tenant_create: 502, so the staged row is rolled back whatever happens.
AbandonOrganization(c) ==
    /\ TenantCallAt(c, "abandon")
    /\ \/ RemoveOrganization(tenantCall[c].alias) /\ UNCHANGED tangled
       \/ UNCHANGED <<orgOf, orgName>> /\ Tangle(tenantCall[c].alias)
    /\ Finish(c)
    /\ UNCHANGED <<mintedOrgs, vaultIds, tenantRows, referenced, answered>>

\* 201 is on its way when the teardown commits, and when that fails.
AnswerCreated(c) ==
    LET f == tenantCall[c] IN
    /\ \/ TenantCallAt(c, "known") /\ UNCHANGED <<tenantRows, tangled>>
       \/ /\ TenantCallAt(c, "commit")
          /\ ById(f.id) \cup BySlug(f.alias) = {}
          /\ tenantRows' = tenantRows \cup {[id |-> f.id, slug |-> f.alias, name |-> f.name]}
          /\ UNCHANGED tangled
       \/ TenantCallAt(c, "commit") /\ UNCHANGED tenantRows /\ Tangle(f.alias)
    /\ answered' = answered \cup {f.id}
    /\ Finish(c)
    /\ UNCHANGED <<directoryOrgs, vaultIds, referenced>>

(***************************************************************************)
(* DELETE: delete_tenant_realm                                             *)
(***************************************************************************)

StartDeleteTenant(c) ==
    /\ \E a \in Aliases :
        \/ \E r \in BySlug(a) : Begin(c, "delete", a, r.name, r.id)
        \/ BySlug(a) = {} /\ orgOf[a] # 0 /\ Begin(c, "delete", a, NoName, 0)
    /\ UNCHANGED <<directoryOrgs, vaultIds, tenantRows, referenced, answered>>

\* "Postgres is updated only after Keycloak succeeds"
AfterProviderError(c) == Finish(c)

DeleteOrganization(c) ==
    /\ TenantCallAt(c, "delete")
    /\ \/ UNCHANGED <<orgOf, orgName>> /\ AfterProviderError(c)
       \/ /\ RemoveOrganization(tenantCall[c].alias)
          /\ IF tenantCall[c].name = NoName THEN Finish(c) ELSE GoTo(c, "deleteRow")
    /\ UNCHANGED <<mintedOrgs, vaultIds, tenantRows, referenced, tenancyHistory>>

\* A referenced row is refused with 409, by ON DELETE RESTRICT; another failure is a 200
\* that asks for manual cleanup.
DeleteRow(c) ==
    LET f == tenantCall[c] IN
    /\ TenantCallAt(c, "deleteRow")
    /\ \/ /\ f.id \notin referenced
          /\ tenantRows' = tenantRows \ ById(f.id)
          /\ UNCHANGED tangled
       \/ UNCHANGED tenantRows /\ Tangle(f.alias)
    /\ Finish(c)
    /\ UNCHANGED <<directoryOrgs, vaultIds, referenced, answered>>

(***************************************************************************)
(* PUT: update_tenant_name                                                 *)
(***************************************************************************)

StartRenameTenant(c) ==
    /\ \E r \in tenantRows, n \in TenantNames :
        /\ r.slug \in Aliases /\ r.name # n
        /\ ~NameTaken(n, r.slug)
        /\ Begin(c, "rename", r.slug, n, r.id)
    /\ UNCHANGED <<directoryOrgs, vaultIds, tenantRows, referenced, answered>>

\* No organization is 404; a provider error is 500.
RenameOrganization(c) ==
    LET f == tenantCall[c] IN
    /\ TenantCallAt(c, "rename")
    /\ \/ Finish(c) /\ UNCHANGED orgName
       \/ /\ orgOf[f.alias] # 0
          /\ orgName' = [orgName EXCEPT ![f.alias] = f.name]
          /\ GoTo(c, "renameRow")
    /\ UNCHANGED <<orgOf, mintedOrgs, vaultIds, tenantRows, referenced, tenancyHistory>>

RenameRow(c) ==
    LET f == tenantCall[c] IN
    /\ TenantCallAt(c, "renameRow")
    /\ \/ /\ ById(f.id) # {}
          /\ tenantRows' = {IF r.id = f.id THEN [r EXCEPT !.name = f.name] ELSE r :
                                r \in tenantRows}
          /\ UNCHANGED tangled
       \/ UNCHANGED tenantRows /\ Tangle(f.alias)
    /\ Finish(c)
    /\ UNCHANGED <<directoryOrgs, vaultIds, referenced, answered>>

(***************************************************************************)
(* Rows written by others                                                  *)
(***************************************************************************)

\* A tenant of the table gets its first tenant-scoped row.
GetsData(i) ==
    /\ ById(i) # {} /\ i \notin referenced
    /\ referenced' = referenced \cup {i}
    /\ UNCHANGED <<directoryOrgs, vaultIds, tenantRows, tenantCall, tenancyHistory>>

\* A member signs in: an organization without a row gets one, named after its id.
SignInTenant(a) ==
    /\ orgOf[a] # 0 /\ ById(orgOf[a]) = {}
    /\ tenantRows' = tenantRows \cup {[id |-> orgOf[a], slug |-> NoAlias, name |-> NoName]}
    /\ TangleBusy(a)
    /\ UNCHANGED <<directoryOrgs, vaultIds, referenced, tenantCall, answered>>

\* Boot: reconcile_default_shared_realm_tenant.  A canonical row comes before the row of
\* the slug; the tenant-scoped rows follow the new id.  Without a row one is created.
ReconcileDefault ==
    LET i == orgOf[DefaultAlias]
        known == IF ById(i) # {} THEN ById(i) ELSE BySlug(DefaultAlias)
        name == orgName[DefaultAlias] IN
    /\ i # 0
    /\ ById(i) = {} \/ BySlug(DefaultAlias) \subseteq ById(i)
    /\ IF known = {}
       THEN /\ tenantRows' = tenantRows \cup
                    {[id |-> i, slug |-> DefaultAlias, name |-> name]}
            /\ vaultIds' = vaultIds \cup {i}
            /\ UNCHANGED referenced
       ELSE \E r \in known :
            /\ tenantRows' = (tenantRows \ {r}) \cup
                    {[id |-> i, slug |-> DefaultAlias, name |-> name]}
            /\ referenced' = IF r.id \in referenced
                             THEN (referenced \ {r.id}) \cup {i} ELSE referenced
            /\ UNCHANGED vaultIds
    /\ TangleBusy(DefaultAlias)
    /\ UNCHANGED <<directoryOrgs, tenantCall, answered>>

TenancyNext ==
    \/ \E c \in TenantCalls :
        \/ StartCreateTenant(c) \/ CreateOrganization(c) \/ EnsureTenant(c)
        \/ ProvisionVault(c) \/ AbandonOrganization(c) \/ AnswerCreated(c)
        \/ StartDeleteTenant(c) \/ DeleteOrganization(c) \/ DeleteRow(c)
        \/ StartRenameTenant(c) \/ RenameOrganization(c) \/ RenameRow(c)
    \/ \E i \in 0..MaxOrg : GetsData(i)
    \/ \E a \in Aliases : SignInTenant(a)
    \/ ReconcileDefault

TenancySpec == TenancyInit /\ [][TenancyNext]_tenancyVars

(***************************************************************************)
(* Properties                                                              *)
(***************************************************************************)

\* Aliases nobody is at work on and nothing went wrong with
Quiet == {a \in Aliases \ tangled : \A c \in TenantCalls : tenantCall[c].alias # a}

\* The tenant of a row is an organization of the directory, under the row's id, and an
\* organization has its row: none is half created, renamed or deleted.  A tenant that was
\* answered 201 has a Vault identity of its own.
TenantIsWhole ==
    /\ \A r \in tenantRows : r.slug \in Quiet /\ r.id # 0 => orgOf[r.slug] = r.id
    /\ \A a \in Quiet : orgOf[a] # 0 =>
            \E r \in tenantRows : r.slug = a /\ r.id \in {0, orgOf[a]}
    /\ \A a \in Quiet : orgOf[a] \in answered => orgOf[a] \in vaultIds
=============================================================================
