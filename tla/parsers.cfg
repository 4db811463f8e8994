SPECIFICATION MCSpec
CONSTANTS
  Files <- MCFiles
  None = None
  Multiplexes <- MCMultiplexes
  NoPid = 65000
INVARIANTS
  AcceptsTheComplete
  TablesMatchBroadcast
  ListNamesPrograms
CHECK_DEADLOCK FALSE
