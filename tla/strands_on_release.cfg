SPECIFICATION FairSpec
CONSTANTS
  NumCases = 1
  MaxRetries = 1
  MaxRedisFaults = 0
  Workers = {w1}
  MaxCrashes = 0
  Requests = {c1}
  Dispatchers = {d1}
  MaxInterruptions = 0
CHECK_DEADLOCK FALSE
PROPERTIES
  CaughtErrorReleases
