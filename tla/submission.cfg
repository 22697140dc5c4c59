SPECIFICATION SubmitFairSpec
CONSTANTS
  Submissions = {s1, s2, s3}
  Keys = {k1, k2}
  Providers = {"mock", "gemini"}
  Sizes = {2, 3}
  CaseLimit = 2
  DailyLimit = 3
  MaxDeaths = 1
CHECK_DEADLOCK FALSE
INVARIANTS
  OneRunPerKey
  RepeatIsAnswered
  RaceIsResolved
  OverrunNeedsOverlap
PROPERTIES
  SubmissionsEnd
