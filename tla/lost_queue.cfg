SPECIFICATION FairSpec
CONSTANTS
  NumCases = 1
  MaxRetries = 1
  MaxRedisFaults = 1
  Workers = {w1}
  MaxCrashes = 0
  Requests = {}
  Dispatchers = {d1}
  MaxInterruptions = 0
CHECK_DEADLOCK FALSE
PROPERTIES
  LossOnlyDelays
