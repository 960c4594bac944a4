SPECIFICATION EventSyncSpec
CONSTANTS
    SyncMachines = {"m1"}
    SyncHub = "hub"
    SyncProjects = {"p", "q"}
    OldProjects = {"p"}
    SyncEvents = {"e1","e2"}
    BadEvents = {}
    EventProject <- MCLateProject
    Skew <- MCSkew
    Overlap = 2
    LegTime = 1
    MaxTime = 4
INVARIANTS PullCursorBoundsWhatWasSeen
CHECK_DEADLOCK FALSE
