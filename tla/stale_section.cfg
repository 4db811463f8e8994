SPECIFICATION Spec
CONSTANTS
  NumPrograms = 2
  NoPid = 65000
  Broadcast <- MCBroadcast
  Garbage <- MCGarbage
  None = None
  StartProgram = 0
  Keys = {0, 1}
  Requests = {"next"}
  TimerThreads = {t1}
  CallsMayFail = FALSE
  SlowSections = TRUE
INVARIANTS
  PlaysCurrentProgram
