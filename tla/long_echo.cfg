SPECIFICATION FairSpec
CONSTANTS
  PollInterval = 150
  Quick = FALSE
  Overlap = FALSE
INVARIANTS
  FirstAttemptPlain
PROPERTIES
  SanityNeverNeeded
CHECK_DEADLOCK TRUE
