SPECIFICATION IntakeFairSpec
CONSTANTS
  Submissions = {s1, s2}
  Keys = {k1, k2}
  Providers = {"mock"}
  Sizes = {1}
  CaseLimit = 1
  DailyLimit = 1
  MaxDeaths = 1
  Runs = {s1, s2}
  Callers = {s1, s2, b1}
  MaxRefusals = 1
  MaxInterrupts = 1
  Beats = {b1}
  BeatLimit = 2
CHECK_DEADLOCK FALSE
INVARIANTS
  NothingIsDropped
PROPERTIES
  EveryRunIsPublished
