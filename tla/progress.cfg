SPECIFICATION FairSpec
CONSTANTS
  NumCases = 1
  MaxRetries = 1
  MaxRedisFaults = 1
  Workers = {w1, w2}
  MaxCrashes = 1
  Requests = {c1}
  Dispatchers = {d1}
  MaxInterruptions = 0
CHECK_DEADLOCK FALSE
PROPERTIES
  EveryRunEnds
  WorkersComeBack
