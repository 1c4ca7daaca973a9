SPECIFICATION WholeSpec
CONSTANTS
  Rebuilds = {j1, j2}
  Scopes <- FullAndScoped
SYMMETRY RebuildSymmetry

INVARIANTS
  CrossRepoVisibility
