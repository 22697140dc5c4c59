SPECIFICATION Spec
CONSTANTS
  NumCases = 2
  MaxRetries = 1
  MaxRedisFaults = 0
  Workers = {w1, w2}
  MaxCrashes = 1
  Requests = {c1}
  Dispatchers = {d1}
  MaxInterruptions = 1
SYMMETRY Symmetry
CHECK_DEADLOCK FALSE
INVARIANTS
  TypeOK
  OneOwner
  ClaimsAlternate
  StartTimeIsFirstClaim
  CompletedIsComplete
  OneVerdict
  StrandedIsExplained
PROPERTIES
  ResultsAreKept
  FinalOnceUnowned
  ImplementsContract
