SPECIFICATION AccessSpec
CONSTANTS
    c1 = c1
    c2 = c2
    t1 = t1
    t2 = t2
    r2 = r2
    Invites = {i1, i2}
    InviteCalls = {c1, c2}
    NoInvite = NoInvite
    MaxTokens = 2
    Members = {t1, t2}
    Groups = {"g1", "g2"}
    MaxRole = 1
    GroupOfRole <- OneGroup
    NamedAfter <- OtherGroup
    RoleCalls = {c1, c2}
    GroupPage = 1
    CachedUsers = {u1}
    Lookups = {c1, c2}
    Admins = {a1}
    Nobody = Nobody
    Ttl = 2
    MaxClock = 4
    MaxChanges = 2
    Tenants = {t1, t2}
    NoTenant = NoTenant
    Requests = {c1, c2}
    McpTenants = {t1, t2}
    Unresolved = Unresolved
    Fallback = Fallback
    McpCalls = {c1, c2}
    RightsTenants = {r1, r2}
    NoRights = NoRights
    SeededTenants = {r1}
    RightsCalls = {c1, c2}
    Releases = {4, 7}
    EditedGrants <- OneEdit
    UserRoles = {"tenant-admin", "editor", "viewer"}
    People = {c1, c2}
    NoPerson = NoPerson
    MaxRuns = 2
    InboxCap = 1
    SharedAccounts = {s1}
    OtherAccounts = {o1}
    Usernames = {t1, t2}
    NoUsername = NoUsername
    NoUser = NoUser
    Hosts = {public, internal}
    SharedHost = public
    UserCalls = {c1, c2}
    MaxUsers = 2
SYMMETRY AccessSymmetry
VIEW AccessView
INVARIANTS
    AccessTypeOK
    LinkStandsOrFalls
    MirrorIsExact
    OwnWritesAreSeen
    StaleWithinTtl
    TenantsStayApart
    ChosenTenantIsUsed
    InstanceReadIsNarrow
    SeededGrantsStand
    OfferedIsAllowed
    ViewsAgree
    LaneMembersAreCandidates
    UserRowIsKept
CHECK_DEADLOCK FALSE
