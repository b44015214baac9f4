SPECIFICATION LoopSpec
CONSTANTS
  OldFiles = 0
  MaxTakes = 2
  MaxCount = 9
  Readers = FALSE
  Faults = FALSE
INVARIANTS FinalStatsMeanEnded
CHECK_DEADLOCK FALSE
