SPECIFICATION Spec
CONSTANTS
    r1 = r1
    r2 = r2
    f1 = f1
    f2 = f2
    Repos = {r1, r2}
    Files = {f1, f2}
    RepoOf <- TwoRepos
    SyncConcurrency = 2
    CatchUpBatch = 1
    MaxFailures = 2
    Startup = "mcp"
    ManualIndex = FALSE
    Stops = FALSE
SYMMETRY Swap
INVARIANTS
    NoLostChange
    FreshnessHonest
PROPERTIES
    SyncsAreIsolated
