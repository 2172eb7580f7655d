SPECIFICATION ReaderSpec
CONSTANTS
  Readers = {r1}
  Waiters = {w1}
  Conditions = {"change"}
  MaxVersion = 2
  HasTtl = TRUE
CHECK_DEADLOCK FALSE
PROPERTIES
  ChangeWakesWaiter
  SettlementDischargedByTerminal
  ExpiredIsForgotten
