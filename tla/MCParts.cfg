SPECIFICATION MCSpec
CONSTANTS
    u1 = u1  u2 = u2  u3 = u3  v1 = v1  v2 = v2
    Teams = {}
    NoTeam = NoTeam
    Tasks = {t1}
    Contents <- MCContents
    Switches = {TRUE, FALSE}
    Members <- MCMembers
    NoMember = NoMember  NoRef = NoRef  NoWorker = NoWorker  NoProcess = NoProcess
    Services = {v1, v2}
    OfferRefs = {o1, o2}
    AttemptRefs = {a1, a2}
    Processes = {p1}
    MaxRevision = 5
    MaxFence = 8
    ProjectNames = {"a", "b"}
    TaskRequests = {"t1"}
    EventRequests = {"e1", "e2"}
    MaxStores = 3
    MaxHandles = 3
    MaxOperations = 3
    AppendFaults = TRUE
    LocProjects = {"a", "b"}
    LocTasks = {"t1", "t2"}
    Prefix = "t"
    Lookups = {"l1"}
    MaxLifecycle = 2
    Sites = {"hub", "machine"}
    Labels = {"a", "b", "c"}
    AliasWorkers = {"h1", "h2", "c1"}
    SiteOf <- MCSiteOf
    NoAlias = "none"
    AliasFaults = TRUE
    MaxRenames = 2
    MaxAliasOps = 3
    Bundles = {"b1"}
    HubName <- MCHubName
    Runs = {"run1", "run2"}
    OldCredential = "old"
    NoCredential = "none"
    NoRun = "none"
    MaxKeys = 2
    g1 = g1  g2 = g2  g3 = g3  p1 = p1  p2 = p2  c1 = c1  c2 = c2
    GraphTasks = {g1, g2, g3}
    Projects = {p1, p2}
    Home <- MCHome
    FirstDeps <- MCFirstDeps
    Edits <- MCEdits
    Claims = {c1, c2}
    ClaimTask <- MCClaimTask
    Writers = {w1}
    Movers = {m1}
    Drop = Drop
    Names = {1, 2}
    NoOne = NoOne  NoHolder = NoHolder
    MaxGraphRevision = 2
    Lines = {"x", "y"}
    MaxText = 5
    MaxLines = 4
INVARIANTS
    LedgerTypeOK HeldTaskIsLive HoldStage ServiceEvidence
    TaskLostOnlyByRename NoFalseMiss NotFoundOnlyInChurn NoGhostCitation
    KeysOutliveRedemption NoWaitCycle NoSideTaken LocalLinesKept
PROPERTIES
    FenceMarksChange HoldChangesHandsOnce StopEvidenceClosesStoppedWork
    LostOnlyToOwnAlias SpentOnlyWhenRefused ClaimSeesCurrentGraph
CHECK_DEADLOCK FALSE
