SPECIFICATION DashboardFairSpec
CONSTANTS
  Timers = {"first", "second"}
  MaxClicks = 2
  MaxErrors = 1
CHECK_DEADLOCK FALSE
INVARIANTS
  ShownPairIsOneClick
  NoDeadEnd
PROPERTIES
  CatchesUp
