SPECIFICATION Spec
CONSTANTS
  PollInterval = 150
  Quick = FALSE
  Overlap = TRUE
INVARIANTS
  FirstAttemptPlain
CHECK_DEADLOCK TRUE
