SPECIFICATION FairSpec
CONSTANTS
  Readers = {r1}
  Waiters = {w1}
  Conditions = {"terminal"}
  MaxVersion = 1
  HasTtl = FALSE
CHECK_DEADLOCK FALSE
PROPERTIES
  TerminalWaitReturns
