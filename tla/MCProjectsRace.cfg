SPECIFICATION LifecycleSpec
CONSTANTS
    ProjectNames = {"a", "b"}
    TaskRequests = {"t1"}
    EventRequests = {"e1", "e2"}
    MaxStores = 3
    MaxHandles = 4
    MaxOperations = 2
    AppendFaults = FALSE
INVARIANTS CreateCommitsOrFails
CHECK_DEADLOCK FALSE
