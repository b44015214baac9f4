CONSTANTS
  MaxEpisodes = 3
  Encoders = {w1, w2}
  MaxQueue = 1
  MaxFrames = 2
  LaterFrames = 1
  MaxTakes = 3
  MaxFaults = 1
  Dated = 2
  MaxRows = 2
  MaxRuns = 3
  MaxTroubles = 2
  Arms = 3
  Leaders = 2
  MaxStamp = 2
  MaxLog = 2
  Tolerance = 1
SPECIFICATION DatasetToolsSpec
INVARIANTS ListedHaveData InfoMatches EveryFrameWritten IndicesDisjoint IndexStable RowsCurrent
PROPERTIES CloseReturns
CHECK_DEADLOCK FALSE
