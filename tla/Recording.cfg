SPECIFICATION FairSpec
CONSTANTS
  Streams = {cam, arm}
  PushStreams = {cam}
  MaxBatch = 2
  MaxSeq = 3
  MaxEpisodes = 2
INVARIANTS Conservation
PROPERTIES TeardownTerminates ImplementsLog
CHECK_DEADLOCK FALSE
