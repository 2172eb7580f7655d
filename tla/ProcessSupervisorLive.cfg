SPECIFICATION FairSpec
CONSTANTS
  Children = {p1}
  Unlocked = Unlocked
  MaxWaitErrors = 3
CHECK_DEADLOCK FALSE
PROPERTIES
  ExitedIsRetired
  CleanupReaps
