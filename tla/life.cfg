SPECIFICATION FairSpec
CONSTANTS
  Programs <- MCPrograms
  p0 = p0
  p1 = p1
  FirstProgram = p0
  StartProgram = p1
  Keys = {p0, p1}
  OtherKeys = {"volume", "exit"}
  CallsMayFail = TRUE
INVARIANTS
  TablesServeStreamThread
  PlayerNeedsLock
PROPERTIES
  ExitHonoured
  StartUpEnds
CHECK_DEADLOCK FALSE
