CONSTANTS
  Mirrors = {"left"}
  Rows = 2
  MaxNow = 2
  ShortNow = 1
  MaxLate = 1
  MaxRequests = 2
  MaxEpisodes = 2
  MaxRecorded = 1
  MaxStarts = 1
SPECIFICATION PolicySpec
INVARIANTS NoStaleAction
CHECK_DEADLOCK FALSE
