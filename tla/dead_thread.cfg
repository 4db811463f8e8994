SPECIFICATION FairSpec
CONSTANTS
  NumPrograms = 2
  NoPid = 65000
  Broadcast <- MCBroadcast
  Garbage <- MCGarbage
  None = None
  StartProgram = 0
  Keys = {}
  Requests = {"next", "previous"}
  TimerThreads = {t1}
  CallsMayFail = TRUE
  SlowSections = FALSE
PROPERTIES
  PreviousFlagSet
CHECK_DEADLOCK FALSE
