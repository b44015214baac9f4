CONSTANTS
  Mirrors = {"left"}
  Rows = 2
  MaxNow = 2
  ShortNow = 1
  MaxLate = 1
  MaxRequests = 2
  MaxEpisodes = 2
  MaxRecorded = 1
  MaxStarts = 1
SPECIFICATION FairPolicySpec
INVARIANTS AnswersOwn ClosePrompt MirrorHasChunk
PROPERTIES ConsumeFully RowsForward ImplementsContract StopReturns
CHECK_DEADLOCK FALSE
