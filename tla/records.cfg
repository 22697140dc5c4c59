SPECIFICATION RecordsSpec
CONSTANTS
  p1 = p1
  e1 = e1
  r1 = r1
  r2 = r2
  NoFile = NoFile
  Uploads = {u1, u2, u3}
  Prompts = {p1}
  Datasets = {e1}
  MaxBytes = 2
  MaxRows = 50
  Files <- MCFiles
  MaxInputChars = 3
  Requests = {q1, q2}
  Runs = {r1, r2}
  Allowances = {1, 2}
  MaxFailures = 3
  MaxFailing <- MCMaxFailing
  Chunks = {1, 2, 3, 4}
  TopK = 2
  Base <- MCBase
  Budget = 6
  Cost <- MCCost
  CiteLists <- MCCiteLists
  Relevance <- MCRelevance
  Configs <- MCConfigs
  Calls <- MCCalls
  Scale = 100
  Policies <- MCPolicies
  Expected = "a"
  Limit = 20
CHECK_DEADLOCK FALSE
INVARIANTS
  NumbersAreConsecutive
  CollisionMeansProgress
  OneDiagnosisPerRun
  EvidenceStaysTrue
  StoredCostsNothing
  LimitOverrunNeedsOverlap
  CitationsAreBestMatches
  PromptIsFull
  P95IsNearestRank
  PassedIsSafe
  BlockedHasReason
PROPERTIES
  RequestsEnd
