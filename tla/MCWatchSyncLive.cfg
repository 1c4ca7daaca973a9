SPECIFICATION FairSpec
CONSTANTS
    r1 = r1
    r2 = r2
    f1 = f1
    f2 = f2
    Repos = {r1}
    Files = {f1}
    RepoOf <- OneFile
    SyncConcurrency = 1
    CatchUpBatch = 1
    MaxFailures = 3
    Startup = "mcp"
    ManualIndex = TRUE
    Stops = TRUE
PROPERTIES
    ChangesIndexed
