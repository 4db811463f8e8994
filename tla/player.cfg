SPECIFICATION Spec
CONSTANTS
  h1 = h1
  h2 = h2
  f1 = f1
  Handles <- MCHandles
  Functions <- MCFunctions
  NULL = NULL
  MaxFailures = 1
  Careful = TRUE
SYMMETRY HandleSymmetry
INVARIANTS
  OpenedExists
  NothingLeaks
