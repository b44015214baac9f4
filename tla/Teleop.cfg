SPECIFICATION FairTeleopSpec
CONSTANTS
  OldFiles = 1
  MaxTakes = 3
  MaxCount = 4
  Readers = TRUE
  Faults = TRUE
INVARIANTS ArmsInOrder NoOrphanPipeline EndedOnce MonitorThreadFree
PROPERTIES CallsReturn
CHECK_DEADLOCK FALSE
