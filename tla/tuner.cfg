SPECIFICATION FairTunerSpec
CONSTANTS
  Chips <- MCChips
  Bandwidths <- MCBandwidths
  Threads = {main, t1}
  Main = main
  Reinit = FALSE
  MaxPolls = 2
  P1Poll = 1
  T2P1Poll = 2
  Frequencies = 1
  TornWrites = FALSE
INVARIANTS
  LockTellsTruth
CHECK_DEADLOCK TRUE
