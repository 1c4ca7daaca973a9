SPECIFICATION WholeSpec
CONSTANTS
    Inputs <- OverlappingInputs
    Runs = {1, 2}
    Level = "node"
    Providers = {"json", "chroma"}
    Queries <- QueriedNodes
    MaxRuns = 3
    FileOf <- FileOfDocument
    RepoOf <- RepoOfDocument
    Databases = {"kuzu", "neo4j"}
    MaxIndexRuns = 3
    Callers = {1, 2}
    Operations = {"read", "impact", "ask", "index", "status", "refresh", "addRepo", "addRepos", "watch", "unwatch", "close"}
    MaxCalls = 3
    MaxOpens = 2
    Pids = {1, 2}
    Ports = {1}
    Commands = {1}
    Workspaces <- OneOfTwo
    MaxCommands = 1
    Requests <- PhaseRequests
    MaxTime = 7
INVARIANTS
  SilenceIsComplete
  EveryRepoIsHeard
  NothingStoredIsLost
  PhasesKeepTheirWord
  LexicalIndexIsHonest
  ClientKeepsOrder
  OwnershipIsHonest
  QuestionsFit
PROPERTIES
  ConfigsComeAndGo
