SPECIFICATION StreamedFairSpec
CONSTANTS
  NumCases = 1
  MaxRetries = 0
  MaxRedisFaults = 0
  Workers = {w1}
  MaxCrashes = 0
  Requests = {c1}
  Dispatchers = {d1}
  MaxInterruptions = 0
  MaxCuts = 1
CHECK_DEADLOCK FALSE
INVARIANTS
  ReplayIsExact
PROPERTIES
  SubscriberCatchesUp
  StreamsClose
