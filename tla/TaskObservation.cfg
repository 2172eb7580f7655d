SPECIFICATION FairSpec
CONSTANTS
  Readers = {}
  Waiters = {w1}
  Conditions = {"terminal", "change"}
  MaxVersion = 2
  HasTtl = TRUE
CHECK_DEADLOCK FALSE
INVARIANTS
  CleanCacheIsCurrent
PROPERTIES
  TerminalWaitReturns
