SPECIFICATION MCSpec
CONSTANTS
  Files <- MCFiles
  None = None
  Multiplexes <- MCMultiplexes
  NoPid = 65000
INVARIANT ProgramNumberInRange
CHECK_DEADLOCK FALSE
