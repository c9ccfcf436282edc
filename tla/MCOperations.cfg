SPECIFICATION OperationsSpec
CONSTANTS
    c1 = c1
    c2 = c2
    n1 = n1
    n2 = n2
    Editors = {c1, c2}
    MaxVersion = 3
    MaxContent = 3
    Models = {n1, n2}
    Xmls = {x1, x2}
    Unsupported = {x2}
    NoModel = NoModel
    NoXml = NoXml
    Users = {c1, c2}
    MaxInstances = 1
    Aliases = {d, a}
    DefaultAlias = d
    NoAlias = NoAlias
    TenantNames = {x1, x2}
    NoName = NoName
    TenantCalls = {c1, c2}
    MaxOrg = 2
    Fields = {n1, n2}
    ProfileCalls = {c1, c2}
    MaxProfile = 1
    MaxOutside = 1
    MaxTries = 3
    Submissions = {c1, c2}
    NoSubmission = NoSubmission
    MaxDeaths = 1
    Rows = {c1, c2}
    MaxRepairs = 1
    MaxWrites = 1
    Folders <- FolderTree
    FileNames <- SortedNames
    Decisions = {n1, n2}
    NoFile = NoFile
    NoDecision = NoDecision
    MaxCalls = 3
    MaxRunning = 1
    Viewers <- GalleryViewers
    OwnerTenant = "t"
    NoTenant = "none"
    MaxRow = 3
    MaxFormTasks = 2
    MaxScripts = 1
    ValueWidth = 2
    ChildModels = {n1, n2}
    CallingXmls = {x1, x2}
    OtherXmls = {}
    NoChild = NoChild
    NoDiagram = NoDiagram
    Importers = {c1, c2}
    MaxStamp = 2
    MaxImports = 3
SYMMETRY OperationsSymmetry
VIEW OperationsView
INVARIANTS
    OperationsTypeOK
    EditsStayInDraft
    PageIsWhatOpens
    NamesStayApart
    InstancesRunReleasedModels
    TenantIsWhole
    SecretsMatchProfile
    OutcomeIsKept
    AnswersMatchTasks
    StartRunsWhatIsShown
    InstancesKeepTheirModel
    NothingLost
    AnswersAreKept
    ButtonsDecide
    CallsFindTheChild
CHECK_DEADLOCK FALSE
