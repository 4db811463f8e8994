SPECIFICATION MCSpec
CONSTANTS
  Chips = {"DS3002B"}
  Signals <- MCSignals
  Tunings <- MCTunings
  Polls = 3
  Threads = {p1}
  None = None
  TunerFails = FALSE
  MaxCalls = 5
  Overlap = FALSE
  Skies <- MCSkies
  Begin = 2120000
  End = 2150000
  Algorithms = {"A", "B"}
  Times = 2
  MaxNum = 5
  Slips = {0, 107}
  Faults = {"cci", "timing", "slow"}
  MaxScans = 1
INVARIANTS LockedReportIsTrue TsKeepsUp SteadySignalIsFound TableHoldsTheLocked EverySignalIsFound
CHECK_DEADLOCK FALSE
