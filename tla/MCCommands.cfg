SPECIFICATION MCSpec
CONSTANTS
    t1 = t1  t2 = t2  a1 = a1
    Tasks = {t1, t2}
    Teams = {team1}
    NoTeam = NoTeam  NoTask = NoTask  NoReceipt = NoReceipt  NoRequest = NoRequest
    Actors = {a1}
    Handlers = {h1, h2}
    Commands <- MCCommands
    Contents <- MCContents
    FlaggedTexts = {"flagged"}
    Switches = {TRUE, FALSE}
    MaxRevision = 3
    Members = {s1, s2}
    SendKeys = {1}
    Quota = 1
    PageLimit = 1
    MaxMessages = 2
    MaxMemberGeneration = 2
    Copies = {hub, pc}
    FactWorkers = {k1}
    Texts = {"old", "new"}
    NoText = "none"
    Topic <- MCTopic
    FactTags = {"db"}
    NoTag = "none"
    Chapters = {}
    MaxChaptersPerFact = 3
    MaxFacts = 2
    MaxFactOps = 4
    SyncMachines = {"m1"}
    SyncHub = "hub"
    SyncProjects = {"p", "q"}
    OldProjects = {"p"}
    SyncEvents = {"e1", "e2"}
    BadEvents = {"e2"}
    EventProject <- MCEventProject
    Skew <- MCSkew
    Overlap = 2
    LegTime = 1
    MaxTime = 2
    Machines = {"m1"}
    DocWorkers = {"dw1", "dw2"}
    DocEdits = {"edit1", "edit2"}
    Markers = TRUE
    OtherDocs = TRUE
    DocHistoryKeep = 1
    MaxDocRev = 2
INVARIANTS OneEffectPerKey CommittedRetryReturns CursorMissesNothing KnowledgeStays
    NoEventSkipped NoMarkersPublished
PROPERTIES PinnedSpared TagsFollowTheFold HubKeepsEdits LostOnlyInGaps
CHECK_DEADLOCK FALSE
