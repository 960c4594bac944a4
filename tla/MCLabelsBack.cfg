SPECIFICATION AliasSpec
CONSTANTS
    Sites = {"hub"}
    AliasWorkers = {"h1"}
    SiteOf <- MCHubOnly
    Labels = {"a", "b", "c"}
    NoAlias = "none"
    AliasFaults = FALSE
    MaxRenames = 2
    MaxAliasOps = 3
PROPERTIES CitationsKept
CHECK_DEADLOCK FALSE
