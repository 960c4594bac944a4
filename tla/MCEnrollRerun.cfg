SPECIFICATION EnrollSpec
CONSTANTS
    Bundles = {"b1"}
    HubName <- MCHubName
    Runs = {"run1"}
    OldCredential = "old"
    NoCredential = "none"
    NoRun = "none"
    MaxKeys = 1
PROPERTIES RerunResumes
CHECK_DEADLOCK FALSE
