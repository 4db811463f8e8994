SPECIFICATION MonitorSpec
CONSTANTS
  main = main
  checker = checker
  Threads = {main, checker}
  Beside <- MCBeside
  MerCount = 2
  PollMax = 2
  BusFails = TRUE
  VoidFails = FALSE
  ScanMode = TRUE
INVARIANT NothingStaysFrozen
CHECK_DEADLOCK TRUE
