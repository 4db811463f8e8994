SPECIFICATION MCSpec
CONSTANTS
  Chips <- MCChips
  Bandwidths <- MCBandwidths
  Threads = {t1}
  MaxPolls = 3
  P1Poll = 1
  T2P1Poll = 2
  Frequencies = 2
  TornWrites = FALSE
INVARIANTS
  ActiveRunsItsSystem
  SleepingChipSleeps
PROPERTIES
  SenseRestored
  OperationsEnd
CHECK_DEADLOCK TRUE
