SPECIFICATION MCSpec
CONSTANTS
  Chips = {"DS3002B"}
  Signals <- MCSignals
  Tunings <- MCTunings
  Polls = 3
  Threads = {p1, p2}
  None = None
  TunerFails = FALSE
  MaxCalls = 5
  Overlap = TRUE
  Skies = {}
  Begin = 2120000
  End = 2150000
  Algorithms = {"A", "B"}
  Times = 2
  MaxNum = 5
  Slips = {0}
  Faults = {}
  MaxScans = 0
INVARIANTS LockedReportIsTrue
CHECK_DEADLOCK FALSE
