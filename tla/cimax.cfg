SPECIFICATION MCSpec
CONSTANTS
  Clients = {c1, c2}
  Calls <- MCCalls
  Tries = 3
  Pluggable = {"B"}
  Faults = {"write", "late"}
  Callback = "notes"
  Overlap = FALSE
  Quick = TRUE
  MaxCalls = 4
  MaxFaults = 1
SYMMETRY MCSymmetry
INVARIANTS LockHeldInCalls InitTellsTruth CamStateKnown
PROPERTIES OkMeansDone
CHECK_DEADLOCK FALSE
