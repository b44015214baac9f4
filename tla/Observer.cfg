SPECIFICATION FairSpec
CONSTANTS
  Ids = {"joints", "camera", "odometry"}
  Subs = {"joints", "camera"}
  MaxSeq = 2
INVARIANTS Accounting OnStopOnce
PROPERTIES SilentAfterStop Fresher NoStarvation StopReturns
CHECK_DEADLOCK FALSE
