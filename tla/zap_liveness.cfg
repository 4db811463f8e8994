SPECIFICATION FairSpec
CONSTANTS
  NumPrograms = 3
  NoPid = 65000
  Broadcast <- MCBroadcast
  Garbage <- MCTidy
  None = None
  StartProgram = 0
  Keys = {0}
  Requests = {"next", "previous", "volume", "list"}
  TimerThreads = {t1}
  CallsMayFail = FALSE
  SlowSections = FALSE
INVARIANTS
  PlaysCurrentProgram
PROPERTIES
  RequestsServed
  KeysHandled
  BlackScreenLifts
