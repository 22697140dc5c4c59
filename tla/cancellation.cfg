SPECIFICATION Spec
CONSTANTS
  NumCases = 2
  MaxRetries = 1
  MaxRedisFaults = 1
  Workers = {w1, w2}
  MaxCrashes = 0
  Requests = {c1}
  Dispatchers = {d1, d2}
  MaxInterruptions = 0
SYMMETRY Symmetry
CHECK_DEADLOCK FALSE
INVARIANTS
  CancellationIsDurable
  AtMostOneLateCall
  QueuedIsDeliverable
