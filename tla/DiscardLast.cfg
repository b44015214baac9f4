SPECIFICATION Spec
CONSTANTS
  OldFiles = 1
  MaxTakes = 2
  MaxCount = 9
  Readers = FALSE
  Faults = FALSE
PROPERTIES DiscardsLastCompleted
CHECK_DEADLOCK FALSE
