SPECIFICATION MCSpec
CONSTANTS
  Calls = {"tv", "radio", "info_banner", "black", "volume", "list", "remove_list"}
  TimerThreads = {t1}
  MaxCalls = 2
INVARIANTS
  IndicatorWillLift
PROPERTIES
  CompleteFrames
  ElementsReachScreen
  IndicatorsDisappear
CHECK_DEADLOCK FALSE
