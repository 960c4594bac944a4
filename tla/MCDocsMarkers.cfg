SPECIFICATION DocsSpec
CONSTANTS
    Machines = {"m1"}
    DocWorkers = {"w1"}
    DocEdits = {"edit1", "edit2"}
    Markers = TRUE
    OtherDocs = FALSE
    DocHistoryKeep = 2
    MaxDocRev = 2
PROPERTIES MarkedEditsKept
CHECK_DEADLOCK FALSE
