SPECIFICATION Spec
CONSTANTS
  NumPrograms = 2
  NoPid = 65000
  Broadcast <- MCBroadcast
  Garbage <- MCGarbage
  None = None
  StartProgram = 0
  Keys = {0, 1}
  Requests = {"next", "info"}
  TimerThreads = {t1}
  CallsMayFail = TRUE
  SlowSections = TRUE
INVARIANTS
  BlackScreenWillLift
  BannerOfCurrentProgram
  HandlesMatchStreams
  OwnStreamsOnly
CHECK_DEADLOCK FALSE
