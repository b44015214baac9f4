SPECIFICATION FairUseSpec
CONSTANTS
  OldFiles = 1
  MaxTakes = 3
  AsyncTakes = 1
  MaxCount = 4
  Readers = FALSE
  Faults = FALSE
INVARIANTS TotalMatchesDisk ManualSession NothingOutlives
PROPERTIES LimitedSessionEnds WaiterWakes
CHECK_DEADLOCK FALSE
