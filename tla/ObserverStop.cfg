SPECIFICATION FairSpec
CONSTANTS
  Ids = {"joints"}
  Subs = {}
  MaxSeq = 1
PROPERTIES StopReturns
CHECK_DEADLOCK FALSE
