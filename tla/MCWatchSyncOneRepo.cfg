SPECIFICATION Spec
CONSTANTS
    r1 = r1
    r2 = r2
    f1 = f1
    f2 = f2
    Repos = {r1}
    Files = {f1, f2}
    RepoOf <- OneRepo
    SyncConcurrency = 2
    CatchUpBatch = 1
    MaxFailures = 2
    Startup = "cli"
    ManualIndex = TRUE
    Stops = TRUE
INVARIANTS
    WatcherSound
PROPERTIES
    NeverForgotten
