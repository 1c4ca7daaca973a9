SPECIFICATION WholeSpec
CONSTANTS
  Rebuilds = {j1, j2}
  Scopes <- FullAndScoped
SYMMETRY RebuildSymmetry
INVARIANTS
  NarrowingLosesNothing
  DependenciesAreExact
  UntruncatedIsComplete
  NormalFormsAreFaithful
  ReferencesAreReal
  TracesSayWhatTheyCut
  
  PluginsComeAndGo
PROPERTIES
  WritersKeepTheGraph
