SPECIFICATION MonitorSpec
CONSTANTS
  main = main
  checker = checker
  Threads = {main, checker}
  Beside <- MCBeside
  MerCount = 3
  PollMax = 4
  BusFails = TRUE
  VoidFails = FALSE
  ScanMode = FALSE
INVARIANTS
  RightBank
  NothingStaysFrozen
  ValuesOfTheLock
CHECK_DEADLOCK TRUE
